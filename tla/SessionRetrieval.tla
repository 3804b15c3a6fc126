-------------------------- MODULE SessionRetrieval --------------------------
(***************************************************************************)
(* An interactive session that takes context from the technical memory and *)
(* the brain: the switches and queries of the session, what a request      *)
(* carries of the two stores, and what `/context show` shows afterwards.   *)
(* Other processes change the stores at any moment.                        *)
(*                                                                         *)
(* What is looked for is one of three texts: the query of a /retrieve      *)
(* command, a message that is sent without history, or a prompt with the   *)
(* history in it.  A text is looked for as one phrase, so that an item     *)
(* that matches a message seldom matches the prompt around it.             *)
(***************************************************************************)
EXTENDS InteractiveSession

CONSTANTS
  Store,      \* the two stores
  Item,       \* memories, and chunks of documents
  Sensitive,  \* items with a hidden path or a sensitive marker in them
  Matches,    \* the texts an item matches
  Limit,      \* memory_limit and brain_limit
  NoContext,  \* None
  Plans,      \* bound: lengths, answers, contents of stores and commands, of which a
              \* behaviour uses one combination
  MaxEdits    \* bound: changes of the stores by others

Text == {"asked", "message", "prompt"}
Contents == UNION {p.contents : p \in Plans}

ASSUME RetrievalAssumption ==
  /\ Sensitive \subseteq Item
  /\ Matches \in [Item -> SUBSET Text]
  /\ \A item \in Item : "prompt" \in Matches[item] => "message" \in Matches[item]
  /\ Limit \in Nat /\ MaxEdits \in Nat
  /\ \A p \in Plans : p.lengths \subseteq Lengths /\ {p.exchanges, p.commands} \subseteq Nat
  /\ \A items \in Contents : items \in Seq(Item) /\ IsInjective(items)

VARIABLES
  plan,
  on,           \* the stores whose switch is on
  asked,        \* the stores with a query of their own
  stores,       \* the items of each store, in the order in which a search returns them
  lastContext,  \* self.last_retrieval_context
  sentContext,  \* history: the context of the last request that had one
  drifted,      \* history: a store has changed between that request and its end
  commands, edits

retrievalVars == <<on, asked, stores, lastContext, sentContext, drifted, commands, edits>>
sessionVars == <<vars, plan, retrievalVars>>

---------------------------------------------------------------------------
\* The retrievers

\* The first n of the places of a store.
Foremost(n, places) == {i \in places : Cardinality({j \in places : j < i}) < n}

Found(s, text) == {i \in DOMAIN stores[s] : text \in Matches[stores[s][i]]}

\* Mutant of Searched: the search returns no more than what is wanted.
SearchedFew(s, text) == Foremost(Limit, Found(s, text))

\* store.search(query, limit=limit * 2)
Searched(s, text) == Foremost(2 * Limit, Found(s, text))

IsSensitive(item) == item \in Sensitive

Retrieved(s, text) ==
  LET places == Foremost(Limit, {i \in Searched(s, text) : ~IsSensitive(stores[s][i])}) IN
  {stores[s][i] : i \in places}

\* _render_prompt: what the history and the message are sent as.
Prompt == IF history = <<>> THEN "message" ELSE "prompt"

\* _retrieval_settings: what is looked for in a store.
Query(s, prompt) == IF s \in asked THEN "asked" ELSE prompt

\* build_retrieval_context; its block says also which switches were on.  The items of a
\* store are in the order in which the store has them.
Context(prompt) ==
  [on |-> on,
   items |-> [s \in Store |-> IF s \in on THEN Retrieved(s, Query(s, prompt)) ELSE {}]]

\* A context is built only when one of the switches is on.
IfWanted(context, otherwise) == IF on = {} THEN otherwise ELSE context

---------------------------------------------------------------------------
SessionInit ==
  /\ Init
  /\ plan \in Plans
  /\ on = {} /\ asked = {}
  /\ stores \in [Store -> plan.contents]
  /\ lastContext = NoContext /\ sentContext = NoContext /\ drifted = FALSE
  /\ commands = 0 /\ edits = 0

\* A command of the session that concerns retrieval.
Command ==
  /\ phase = "input"
  /\ commands < plan.commands /\ commands' = commands + 1
  /\ UNCHANGED <<vars, plan, stores, sentContext, drifted, edits>>

\* /memory on, /brain on
SwitchOn(s) == Command /\ on' = on \cup {s} /\ UNCHANGED <<asked, lastContext>>

\* /memory off, /brain off
SwitchOff(s) ==
  Command /\ on' = on \ {s} /\ asked' = asked \ {s} /\ UNCHANGED lastContext

\* /retrieve memory, /retrieve brain, with a query or without one
Retrieve(s, given) ==
  /\ Command
  /\ on' = on \cup {s}
  /\ asked' = IF given THEN asked \cup {s} ELSE asked \ {s}
  /\ UNCHANGED lastContext

\* /context clear
ContextClear ==
  Command /\ lastContext' = NoContext /\ asked' = {} /\ UNCHANGED on

\* The commands that leave retrieval alone, and other processes at models.yaml.
Elsewhere ==
  /\ \/ exchanges < plan.exchanges /\ \E n \in plan.lengths : Prepare(n)
     \/ Clear \/ Leave
     \/ \E profile \in Profile : ModelSet(profile) \/ SwitchElsewhere(profile)
  /\ UNCHANGED <<plan, retrievalVars>>

\* chat_once builds the context and puts it before the prompt.
SendWithContext(route) ==
  /\ Send(route)
  /\ sentContext' = IfWanted(Context(Prompt), sentContext)
  /\ drifted' = (on = {} /\ drifted)
  /\ UNCHANGED <<plan, on, asked, stores, lastContext, commands, edits>>

\* Mutant of Rebuild: the message is looked for without the history it was sent with.
RebuildFromMessage == lastContext' = IfWanted(Context("message"), lastContext)

\* After the request the session builds the context again, from the prompt it has sent.
Rebuild == lastContext' = IfWanted(Context(Prompt), lastContext)

EndOfTurn ==
  /\ AnswerFails \/ \E n \in plan.lengths : Answer(n)
  /\ Rebuild
  /\ UNCHANGED <<plan, on, asked, stores, sentContext, drifted, commands, edits>>

\* Another process adds memories or documents, or deletes memories.
EditStore(s) ==
  /\ edits < MaxEdits /\ edits' = edits + 1
  /\ \E contents \in plan.contents \ {stores[s]} : stores' = [stores EXCEPT ![s] = contents]
  /\ drifted' = (drifted \/ phase = "waiting")
  /\ UNCHANGED <<vars, plan, on, asked, lastContext, sentContext, commands>>

SessionNext ==
  \/ Elsewhere \/ EndOfTurn \/ ContextClear
  \/ \E route \in Routes : SendWithContext(route)
  \/ \E s \in Store :
       \/ SwitchOn(s) \/ SwitchOff(s) \/ EditStore(s)
       \/ \E given \in BOOLEAN : Retrieve(s, given)

SessionSpec == SessionInit /\ [][SessionNext]_sessionVars

---------------------------------------------------------------------------
\* The type invariant, besides that of InteractiveSession.
ContextType == [on : SUBSET Store, items : [Store -> SUBSET Item]]

SessionTypeOK ==
  /\ TypeOK
  /\ plan \in Plans /\ on \subseteq Store /\ asked \subseteq on
  /\ stores \in [Store -> Contents]
  /\ {lastContext, sentContext} \subseteq ContextType \cup {NoContext}
  /\ drifted \in BOOLEAN /\ commands \in 0..plan.commands /\ edits \in 0..MaxEdits

\* `/context show` shows what the provider was sent, though it is a second retrieval that
\* made it: of the last request that carried a context, whether that request failed and
\* whatever was switched, cleared or compacted since; unless another process changed a
\* store while the request was made (_handle_message, handle_input).
ShownIsSent ==
  phase \in {"input", "prepared"} /\ lastContext # NoContext /\ ~drifted =>
    lastContext = sentContext

\* What a request carries of a store are items that match what was asked for, none of them
\* sensitive and no more than the limit; and sensitive items take no place of others, as
\* long as there are no more of them than the limit (retrieve_memory, retrieve_brain).
SensitiveTakesNoPlace ==
  [][phase = "prepared" /\ phase' = "waiting" =>
       \A s \in on :
         LET found == Found(s, Query(s, Prompt))
             plain == {i \in found : stores[s][i] \notin Sensitive}
             carried == sentContext'.items[s] IN
         /\ carried \subseteq {stores[s][i] : i \in plain}
         /\ Cardinality(carried) <= Limit
         /\ Cardinality(found \ plain) <= Limit =>
              Cardinality(carried) = Min({Limit, Cardinality(plain)})]_sessionVars
=============================================================================
