-------------------------- MODULE InteractiveSession --------------------------
(***************************************************************************)
(* One interactive chat session: the history it keeps in memory, what it   *)
(* drops from it to stay under the history limit and the context window,   *)
(* and the profile its requests end up with.  models.yaml is shared with   *)
(* other processes, which may activate another profile at any moment.      *)
(*                                                                         *)
(* A message is its length in characters: the estimate of its tokens is    *)
(* all that is decided on.                                                 *)
(***************************************************************************)
EXTENDS Naturals, SequencesExt

CONSTANTS
  Profile,      \* model profiles
  Selectable,   \* profiles that exist and are enabled: others raise
  DefaultProfile,
  NoProfile,    \* the default_chat route names no profile
  Routes,       \* what the default_chat route may name
  Window,       \* context window of a profile in tokens, 0 when unknown
  SystemLength, \* length of the system prompt
  Lengths,      \* lengths of messages and answers
  MaxHistory,   \* max_history_messages
  MaxExchanges, \* bound: answers since the session began
  MaxSwitches   \* bound: activations by other processes

ASSUME SessionAssumption ==
  /\ DefaultProfile \in Profile /\ NoProfile \notin Profile
  /\ Selectable \subseteq Profile
  /\ Routes \subseteq Profile \cup {NoProfile}
  /\ Window \in [Profile -> Nat]
  /\ SystemLength \in Nat /\ Lengths \subseteq Nat
  /\ MaxHistory \in Nat /\ MaxExchanges \in Nat /\ MaxSwitches \in Nat

VARIABLES
  active,     \* active profile of models.yaml
  history,    \* self.history
  phase,      \* waiting for input, about to send, waiting for the answer, over
  message,    \* the latest message
  window,     \* the window the context was prepared for
  exchanges,  \* answers so far
  switches,   \* activations by others so far
  transcript  \* history variable: all messages since the start or /clear

vars == <<active, history, phase, message, window, exchanges, switches, transcript>>

Message == [role : {"user", "assistant"}, turn : Nat, length : Lengths]
Phases == {"input", "prepared", "waiting", "over"}

---------------------------------------------------------------------------
\* The estimator and the compactor.

\* estimate_tokens: the non-empty parts joined by a blank, three characters a token.
Tokens(lengths) ==
  LET parts == SelectSeq(lengths, LAMBDA n : n > 0)
      length == FoldSeq(LAMBDA n, sum : n + sum, 0, parts) + Len(parts) - 1 IN
  IF parts = << >> THEN 0 ELSE (length + 2) \div 3

LengthsOf(messages) == [i \in DOMAIN messages |-> messages[i].length]

\* total_estimated_tokens of the system prompt, the history and the latest message.
Estimate(messages, latest) ==
  Tokens(<<SystemLength>> \o LengthsOf(messages) \o <<latest>>)

\* used_percent, in hundredths: round(total / window * 100, 2); of a known window.
Used(total, size) == (10000 * total + size \div 2) \div size

\* The loop condition of compact_session_history, max_used_percent = 95.0.
Over(messages, latest, size) ==
  size > 0 /\ Used(Estimate(messages, latest), size) > 9500

\* Mutant of Compacted: messages are dropped in pairs of question and answer.
CompactedInPairs(messages, latest, size) ==
  LET fits(k) == k = Len(messages) \/ ~Over(SubSeq(messages, k + 1, Len(messages)), latest, size)
      drop == CHOOSE k \in 0..Len(messages) :
                /\ fits(k) /\ (k % 2 = 0 \/ k = Len(messages))
                /\ \A j \in 0..(k - 1) : j % 2 = 0 => ~fits(j) IN
  SubSeq(messages, drop + 1, Len(messages))

\* Mutant of Compacted: the estimate leaves the latest message out.
CompactedWithoutLatest(messages, latest, size) ==
  LET fits(k) == k = Len(messages) \/ ~Over(SubSeq(messages, k + 1, Len(messages)), 0, size)
      drop == CHOOSE k \in 0..Len(messages) : fits(k) /\ \A j \in 0..(k - 1) : ~fits(j) IN
  SubSeq(messages, drop + 1, Len(messages))

\* compact_session_history: the oldest messages go, one by one, until the rest fits.
Compacted(messages, latest, size) ==
  LET fits(k) == k = Len(messages) \/ ~Over(SubSeq(messages, k + 1, Len(messages)), latest, size)
      drop == CHOOSE k \in 0..Len(messages) : fits(k) /\ \A j \in 0..(k - 1) : ~fits(j) IN
  SubSeq(messages, drop + 1, Len(messages))

\* The two headings of _render_prompt with the ends of their lines and the blank after the
\* system prompt, and a role with what surrounds it.
Headings == 66
Label(role) == IF role = "user" THEN 7 ELSE 12
Labels(messages) == FoldSeq(LAMBDA m, sum : Label(m.role) + sum, 0, messages)

\* _render_prompt
PromptLength(messages, latest) ==
  IF messages = << >> THEN latest
  ELSE Headings - 1 + Labels(messages) + latest
         + FoldSeq(LAMBDA n, sum : n + sum, 0, LengthsOf(messages))

\* The tokens of what is sent, besides a retrieval block.
Request(messages, latest) == Tokens(<<SystemLength, PromptLength(messages, latest)>>)

\* Mutant of Limited: the newest messages go.
LimitedToOldest(messages) ==
  IF Len(messages) <= MaxHistory THEN messages ELSE SubSeq(messages, 1, MaxHistory)

\* _enforce_history_limit
Limited(messages) ==
  IF Len(messages) <= MaxHistory THEN messages
  ELSE SubSeq(messages, Len(messages) - MaxHistory + 1, Len(messages))

---------------------------------------------------------------------------
Init ==
  /\ active = DefaultProfile
  /\ history = << >>
  /\ phase = "input"
  /\ message = 0
  /\ window = 0
  /\ exchanges = 0
  /\ switches = 0
  /\ transcript = << >>

\* _prepare_context for a message typed in.
Prepare(latest) ==
  /\ phase = "input"
  /\ exchanges < MaxExchanges
  /\ history' = Compacted(Limited(history), latest, Window[active])
  /\ message' = latest
  /\ window' = Window[active]
  /\ phase' = "prepared"
  /\ UNCHANGED <<active, exchanges, switches, transcript>>

\* chat_once activates the routed profile, if there is one, and sends the prompt
\* that was rendered from the prepared history.
Send(route) ==
  /\ phase = "prepared"
  /\ route \in Selectable \cup {NoProfile}
  /\ active' = IF route = NoProfile THEN active ELSE route
  /\ phase' = "waiting"
  /\ UNCHANGED <<history, message, window, exchanges, switches, transcript>>

Pair(answer) ==
  <<[role |-> "user", turn |-> exchanges, length |-> message],
    [role |-> "assistant", turn |-> exchanges, length |-> answer]>>

\* An answer with status "ok" is kept together with its question.
Answer(length) ==
  /\ phase = "waiting"
  /\ history' = Limited(history \o Pair(length))
  /\ transcript' = transcript \o Pair(length)
  /\ exchanges' = exchanges + 1
  /\ phase' = "input"
  /\ UNCHANGED <<active, message, window, switches>>

\* Any other status, also of a stream that broke off after some deltas were shown:
\* neither the question nor the answer is kept.
AnswerFails ==
  /\ phase = "waiting"
  /\ phase' = "input"
  /\ UNCHANGED <<active, history, message, window, exchanges, switches, transcript>>

\* /clear
Clear ==
  /\ phase = "input"
  /\ history' = << >> /\ transcript' = << >>
  /\ UNCHANGED <<active, phase, message, window, exchanges, switches>>

\* /model set
ModelSet(profile) ==
  /\ phase = "input"
  /\ profile \in Selectable
  /\ active' = profile
  /\ UNCHANGED <<history, phase, message, window, exchanges, switches, transcript>>

\* exit, or an exception that run_interactive_cli does not catch: an unknown or
\* disabled profile, or a models.yaml that does not parse.
Leave ==
  /\ phase # "over"
  /\ phase' = "over"
  /\ UNCHANGED <<active, history, message, window, exchanges, switches, transcript>>

\* Another process activates a profile.
SwitchElsewhere(profile) ==
  /\ switches < MaxSwitches
  /\ profile \in Selectable \ {active}
  /\ switches' = switches + 1
  /\ active' = profile
  /\ UNCHANGED <<history, phase, message, window, exchanges, transcript>>

Next ==
  \/ \E n \in Lengths : Prepare(n) \/ Answer(n)
  \/ \E route \in Routes : Send(route)
  \/ AnswerFails \/ Clear \/ Leave
  \/ \E profile \in Profile : ModelSet(profile) \/ SwitchElsewhere(profile)

Spec == Init /\ [][Next]_vars

---------------------------------------------------------------------------
\* The type invariant.
TypeOK ==
  /\ active \in Profile
  /\ history \in Seq(Message) /\ transcript \in Seq(Message)
  /\ phase \in Phases
  /\ message \in Lengths \cup {0}
  /\ window \in {0} \cup {Window[p] : p \in Profile}
  /\ exchanges \in 0..MaxExchanges /\ switches \in 0..MaxSwitches

\* Whatever the limit and the compactor drop, and however answers fail in between,
\* the history is the most recent part of the conversation, without a gap and not
\* longer than the limit (_enforce_history_limit, compact_session_history).
HistoryIsRecent ==
  /\ IsSuffix(history, transcript)
  /\ Len(history) <= MaxHistory

\* A request takes more than 95 percent of the window of the model that it is sent to only
\* if no history is left to drop; if that model is not the one the context was prepared for,
\* because the route or another process chose one with another window in between; or by no
\* more than the headings and role labels that the prompt has and the estimate has not.  A
\* retrieval block comes on top, which the estimate leaves out as well (_handle_message,
\* _render_prompt, chat_once).
OverfullHasCause ==
  [][phase = "prepared" /\ phase' = "waiting" =>
       LET size == Window[active']
           added == (Headings + Labels(history) + 2) \div 3 IN
       \/ size = 0 \/ history = << >> \/ size # window
       \/ Used(Request(history, message) - added, size) <= 9500]_vars

\* Compaction drops no message it could have kept: with the youngest dropped one
\* the prompt would have been over the threshold (compact_session_history).
DropsNoMoreThanNeeded ==
  [][phase = "input" /\ phase' = "prepared" /\ Len(history') < Len(Limited(history)) =>
       LET before == Limited(history)
           more == SubSeq(before, Len(before) - Len(history'), Len(before)) IN
       Over(more, message', window')]_vars

\* docs/context-management.md: "At 95 percent or higher, it drops the oldest session
\* messages until the session is under the critical threshold when possible."
BelowCriticalWhenPossible ==
  phase = "waiting" /\ window > 0 =>
    history = << >> \/ 100 * Estimate(history, message) < 95 * window
============================================================================
