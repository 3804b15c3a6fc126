----------------------- MODULE SessionRetrieval_proofs -----------------------
(***************************************************************************)
(* Proofs about SessionRetrieval and the InteractiveSession in it, for any *)
(* profiles and windows, any lengths of messages, any stores and limits.   *)
(***************************************************************************)
EXTENDS SessionRetrieval, FiniteSetTheorems, SequenceTheorems, TLAPS

Asking == phase \in {"prepared", "waiting"}

\* A message that is about to be sent, or has been, is one that was typed in, and there is
\* an answer left for it.
MessageHeld == Asking => message \in Lengths /\ exchanges < MaxExchanges

SessionInv == TypeOK /\ MessageHeld /\ HistoryIsRecent

\* While a request with a context is under way, building the context once more makes the
\* same; otherwise the last context is already the one that was sent.
ContextHeld ==
  ~drifted =>
    /\ phase = "waiting" /\ on # {} => sentContext = Context(Prompt)
    /\ (phase = "waiting" => on = {}) /\ phase # "over" /\ lastContext # NoContext =>
         lastContext = sentContext

RetrievalInv == SessionTypeOK /\ SessionInv /\ ContextHeld

---------------------------------------------------------------------------
\* Suffixes

LEMMA SuffixElements ==
  ASSUME NEW S, NEW s \in Seq(S), NEW t \in Seq(S)
  PROVE  IsSuffix(s, t) <=> /\ Len(s) <= Len(t)
                            /\ \A i \in 1..Len(s) : s[i] = t[Len(t) - Len(s) + i]
<1>t. /\ Len(s) \in Nat /\ Len(t) \in Nat /\ DOMAIN s = 1..Len(s) /\ DOMAIN t = 1..Len(t)
      /\ \A i \in 1..Len(s) : s[i] \in S
      /\ \A i \in 1..Len(t) : t[i] \in S
  BY LenProperties, ElementOfSeq
<1> DEFINE r == [i \in 1..Len(s) |-> s[(Len(s) - i) + 1]]
           q == [i \in 1..Len(t) |-> t[(Len(t) - i) + 1]]
<1>1. IsSuffix(s, t) <=> IsPrefix(r, q) BY DEF IsSuffix, Reverse
<1>2. /\ r \in Seq(S) /\ Len(r) = Len(s) /\ \A i \in 1..Len(s) : r[i] = s[(Len(s) - i) + 1]
      /\ q \in Seq(S) /\ Len(q) = Len(t) /\ \A i \in 1..Len(t) : q[i] = t[(Len(t) - i) + 1]
  BY <1>t
<1> HIDE DEF r, q
<1>3. ASSUME Len(s) <= Len(t)
      PROVE  /\ SubSeq(r, 1, Len(s)) = [i \in 1..Len(s) |-> r[i]]
             /\ SubSeq(q, 1, Len(s)) = [i \in 1..Len(s) |-> q[i]]
  BY <1>t, <1>2, <1>3
<1>4. IsPrefix(r, q) <=> /\ Len(s) <= Len(t)
                         /\ \A i \in 1..Len(s) : r[i] = q[i]
  BY <1>t, <1>2, <1>3 DEF IsPrefix
<1>5. ASSUME Len(s) <= Len(t), \A i \in 1..Len(s) : r[i] = q[i], NEW i \in 1..Len(s)
      PROVE  s[i] = t[Len(t) - Len(s) + i]
  <2>1. (Len(s) - i) + 1 \in 1..Len(s) /\ (Len(s) - i) + 1 \in 1..Len(t) BY <1>t, <1>5
  <2>2. /\ r[(Len(s) - i) + 1] = s[(Len(s) - ((Len(s) - i) + 1)) + 1]
        /\ q[(Len(s) - i) + 1] = t[(Len(t) - ((Len(s) - i) + 1)) + 1]
    BY <1>2, <2>1
  <2>3. /\ (Len(s) - ((Len(s) - i) + 1)) + 1 = i
        /\ (Len(t) - ((Len(s) - i) + 1)) + 1 = Len(t) - Len(s) + i
    BY <1>t
  <2> QED BY <1>5, <2>1, <2>2, <2>3
<1>6. ASSUME Len(s) <= Len(t), \A i \in 1..Len(s) : s[i] = t[Len(t) - Len(s) + i],
             NEW i \in 1..Len(s)
      PROVE  r[i] = q[i]
  <2>1. (Len(s) - i) + 1 \in 1..Len(s) BY <1>t
  <2>2. Len(t) - Len(s) + ((Len(s) - i) + 1) = (Len(t) - i) + 1 /\ i \in 1..Len(t)
    BY <1>t, <1>6
  <2>3. s[(Len(s) - i) + 1] = t[Len(t) - Len(s) + ((Len(s) - i) + 1)] BY <1>6, <2>1
  <2> QED BY <1>2, <2>2, <2>3
<1> QED BY <1>1, <1>4, <1>5, <1>6

LEMMA NothingIsSuffix == IsSuffix(<< >>, << >>)
<1> DEFINE e == << >>
<1>1. e \in Seq({}) /\ Len(e) = 0 BY EmptySeq
<1> HIDE DEF e
<1>2. Len(e) <= Len(e) /\ \A i \in 1..Len(e) : e[i] = e[Len(e) - Len(e) + i] BY <1>1
<1>3. IsSuffix(e, e) BY <1>1, <1>2, SuffixElements
<1> QED BY <1>3 DEF e

\* The end of a suffix is a suffix.
LEMMA EndOfSuffix ==
  ASSUME NEW S, NEW s \in Seq(S), NEW t \in Seq(S), IsSuffix(s, t), NEW k \in 0..Len(s)
  PROVE  LET e == SubSeq(s, k + 1, Len(s)) IN
         e \in Seq(S) /\ Len(e) = Len(s) - k /\ IsSuffix(e, t)
<1> DEFINE e == SubSeq(s, k + 1, Len(s))
<1>t. Len(s) \in Nat /\ Len(t) \in Nat /\ DOMAIN s = 1..Len(s) /\ DOMAIN t = 1..Len(t)
  BY LenProperties
<1>1. e \in Seq(S) /\ Len(e) = Len(s) - k /\ \A i \in 1..Len(e) : e[i] = s[k + i]
  <2>1. \A i \in (k + 1)..Len(s) : s[i] \in S BY <1>t, ElementOfSeq
  <2>2. /\ e \in Seq(S)
        /\ Len(e) = IF k + 1 <= Len(s) THEN Len(s) - (k + 1) + 1 ELSE 0
        /\ \A i \in 1..(Len(s) - (k + 1) + 1) : e[i] = s[(k + 1) + i - 1]
    BY <1>t, <2>1, SubSeqProperties
  <2> HIDE DEF e
  <2>3. Len(e) = Len(s) - k
    <3>1. CASE k + 1 <= Len(s)
      <4>1. Len(s) - (k + 1) + 1 = Len(s) - k BY <1>t
      <4> QED BY <2>2, <3>1, <4>1
    <3>2. CASE k = Len(s) BY <1>t, <2>2, <3>2
    <3>3. k + 1 <= Len(s) \/ k = Len(s)
      <4> DEFINE n == Len(s)
      <4>1. n \in Nat /\ k \in 0..n BY <1>t
      <4> HIDE DEF n
      <4>2. k + 1 <= n \/ k = n BY <4>1
      <4> QED BY <4>2 DEF n
    <3> QED BY <3>1, <3>2, <3>3
  <2>4. ASSUME NEW i \in 1..Len(e) PROVE e[i] = s[k + i]
    <3>1. i \in 1..(Len(s) - (k + 1) + 1) /\ (k + 1) + i - 1 = k + i BY <1>t, <2>3
    <3> QED BY <2>2, <3>1
  <2> QED BY <2>2, <2>3, <2>4
<1> HIDE DEF e
<1>2. Len(s) <= Len(t) /\ \A i \in 1..Len(s) : s[i] = t[Len(t) - Len(s) + i]
  BY SuffixElements
<1>3. ASSUME NEW i \in 1..Len(e) PROVE e[i] = t[Len(t) - Len(e) + i]
  <2>1. k + i \in 1..Len(s) /\ Len(t) - Len(s) + (k + i) = Len(t) - Len(e) + i
    BY <1>t, <1>1
  <2> QED BY <1>1, <1>2, <2>1
<1>4. Len(e) <= Len(t) BY <1>t, <1>1, <1>2
<1> QED BY <1>1, <1>3, <1>4, SuffixElements DEF e

\* A suffix stays one when both get the same at their ends.
LEMMA SuffixAppended ==
  ASSUME NEW S, NEW s \in Seq(S), NEW t \in Seq(S), NEW u \in Seq(S), IsSuffix(s, t)
  PROVE  IsSuffix(s \o u, t \o u)
<1>t. /\ Len(s) \in Nat /\ Len(t) \in Nat /\ Len(u) \in Nat
      /\ s \o u \in Seq(S) /\ t \o u \in Seq(S)
      /\ Len(s \o u) = Len(s) + Len(u) /\ Len(t \o u) = Len(t) + Len(u)
      /\ \A i \in 1..Len(s) + Len(u) :
           (s \o u)[i] = IF i <= Len(s) THEN s[i] ELSE u[i - Len(s)]
      /\ \A i \in 1..Len(t) + Len(u) :
           (t \o u)[i] = IF i <= Len(t) THEN t[i] ELSE u[i - Len(t)]
  BY LenProperties, ConcatProperties
<1>1. Len(s) <= Len(t) /\ \A i \in 1..Len(s) : s[i] = t[Len(t) - Len(s) + i]
  BY SuffixElements
<1> DEFINE a == s \o u
           b == t \o u
<1> HIDE DEF a, b
<1>2. ASSUME NEW i \in 1..Len(a) PROVE a[i] = b[Len(b) - Len(a) + i]
  <2>1. /\ Len(b) - Len(a) + i = Len(t) - Len(s) + i /\ i \in 1..Len(s) + Len(u)
        /\ Len(t) - Len(s) + i \in 1..Len(t) + Len(u)
    BY <1>t, <1>1 DEF a, b
  <2>2. CASE i <= Len(s) BY <1>t, <1>1, <2>1, <2>2 DEF a, b
  <2>3. CASE ~ (i <= Len(s))
    <3>1. ~ (Len(t) - Len(s) + i <= Len(t)) /\ (Len(t) - Len(s) + i) - Len(t) = i - Len(s)
      BY <1>t, <1>1, <2>1, <2>3
    <3> QED BY <1>t, <2>1, <2>3, <3>1 DEF a, b
  <2> QED BY <2>2, <2>3
<1>3. Len(a) <= Len(b) BY <1>t, <1>1 DEF a, b
<1> QED BY <1>t, <1>2, <1>3, SuffixElements DEF a, b

---------------------------------------------------------------------------
\* The limit and the compactor

LEMMA LimitedSuffix ==
  ASSUME NEW S, NEW m \in Seq(S), NEW t \in Seq(S), IsSuffix(m, t)
  PROVE  /\ Limited(m) \in Seq(S) /\ IsSuffix(Limited(m), t)
         /\ Len(Limited(m)) <= MaxHistory
<1>t. Len(m) \in Nat /\ MaxHistory \in Nat BY LenProperties, SessionAssumption
<1>1. CASE Len(m) <= MaxHistory BY <1>1 DEF Limited
<1>2. CASE ~ (Len(m) <= MaxHistory)
  <2> DEFINE k == Len(m) - MaxHistory
  <2>1. k \in 0..Len(m) /\ Len(m) - k = MaxHistory BY <1>t, <1>2
  <2>2. Limited(m) = SubSeq(m, k + 1, Len(m)) BY <1>2 DEF Limited
  <2> HIDE DEF k
  <2> QED BY <1>t, <2>1, <2>2, EndOfSuffix
<1> QED BY <1>1, <1>2

\* What compaction leaves is the end of what there was; it fits, unless nothing is left;
\* and with one message more it would not have fitted.
LEMMA CompactedEnd ==
  ASSUME NEW S, NEW m \in Seq(S), NEW latest, NEW size
  PROVE  \E k \in 0..Len(m) :
           /\ Compacted(m, latest, size) = SubSeq(m, k + 1, Len(m))
           /\ k = Len(m) \/ ~Over(SubSeq(m, k + 1, Len(m)), latest, size)
           /\ k > 0 => Over(SubSeq(m, k, Len(m)), latest, size)
<1> DEFINE n == Len(m)
           fits(k) == k = n \/ ~Over(SubSeq(m, k + 1, n), latest, size)
           Fitting == {k \in 0..n : fits(k)}
           drop == CHOOSE k \in 0..n : fits(k) /\ \A j \in 0..(k - 1) : ~fits(j)
<1>1. n \in Nat BY LenProperties
<1>2. Compacted(m, latest, size) = SubSeq(m, drop + 1, n) BY DEF Compacted
<1> HIDE DEF n
<1>3. n \in Fitting BY <1>1
<1>4. PICK k \in Fitting : \A j \in Fitting : ~ (j < k)
  <2>1. IsWellFoundedOn(OpToRel(<, Nat), Nat) BY NatLessThanWellFounded
  <2> DEFINE R == OpToRel(<, Nat)
  <2>2. Fitting \subseteq Nat BY <1>1
  <2> HIDE DEF Fitting, R
  <2>3. PICK k \in Fitting : \A j \in Fitting : ~ (<<j, k>> \in R)
    BY <1>3, <2>1, <2>2, WFMin DEF R
  <2> QED BY <2>2, <2>3 DEF R, OpToRel
<1>5. k \in 0..n /\ fits(k) /\ \A j \in 0..(k - 1) : ~fits(j)
  <2>1. k \in 0..n /\ fits(k) OBVIOUS
  <2>2. ASSUME NEW j \in 0..(k - 1) PROVE ~fits(j)
    <3>1. j \in 0..n /\ j < k BY <1>1, <2>1
    <3> QED BY <1>4, <3>1
  <2> QED BY <2>1, <2>2
<1>6. drop \in 0..n /\ fits(drop) /\ \A j \in 0..(drop - 1) : ~fits(j) BY <1>5
<1> HIDE DEF drop
<1>7. ASSUME drop > 0 PROVE Over(SubSeq(m, drop, n), latest, size)
  <2>1. drop - 1 \in 0..(drop - 1) /\ (drop - 1) + 1 = drop BY <1>1, <1>6, <1>7
  <2>2. ~fits(drop - 1) BY <1>6, <2>1
  <2> QED BY <2>1, <2>2
<1> QED BY <1>2, <1>6, <1>7 DEF n

---------------------------------------------------------------------------
\* The session without retrieval

LEMMA SessionInitially == Init => SessionInv
<1> SUFFICES ASSUME Init PROVE SessionInv OBVIOUS
<1>1. << >> \in Seq(Message) /\ Len(<< >>) = 0 BY EmptySeq
<1>2. IsSuffix(history, transcript) BY NothingIsSuffix DEF Init
<1> QED
  BY <1>1, <1>2, SessionAssumption
  DEF Init, SessionInv, TypeOK, MessageHeld, HistoryIsRecent, Phases, Asking

LEMMA SessionStep == SessionInv /\ [Next]_vars => SessionInv'
<1> SUFFICES ASSUME SessionInv, [Next]_vars PROVE SessionInv' OBVIOUS
<1> USE SessionAssumption DEF SessionInv, TypeOK, Phases, Asking, MessageHeld, HistoryIsRecent
<1>0. CASE UNCHANGED vars BY <1>0 DEF vars
<1>1. ASSUME NEW latest \in Lengths, Prepare(latest) PROVE SessionInv'
  <2> DEFINE m == Limited(history)
  <2>1. m \in Seq(Message) /\ IsSuffix(m, transcript) /\ Len(m) <= MaxHistory
    BY LimitedSuffix
  <2>2. Len(m) \in Nat BY <2>1, LenProperties
  <2>3. history' = Compacted(m, latest, Window[active]) BY <1>1 DEF Prepare
  <2> HIDE DEF m
  <2>4. PICK k \in 0..Len(m) :
          history' = SubSeq(m, k + 1, Len(m))
    BY <2>1, <2>3, CompactedEnd
  <2>5. history' \in Seq(Message) /\ Len(history') = Len(m) - k /\ IsSuffix(history', transcript)
    BY <2>1, <2>4, EndOfSuffix
  <2>6. Len(history') <= MaxHistory BY <2>1, <2>2, <2>5
  <2> QED BY <1>1, <2>5, <2>6 DEF Prepare
<1>2. ASSUME NEW route \in Routes, Send(route) PROVE SessionInv' BY <1>2 DEF Send
<1>3. ASSUME NEW length \in Lengths, Answer(length) PROVE SessionInv'
  <2>1. Pair(length) \in Seq(Message) /\ message \in Lengths /\ exchanges < MaxExchanges
    BY <1>3 DEF Answer, Pair, Message
  <2>2. /\ history \o Pair(length) \in Seq(Message) /\ transcript' \in Seq(Message)
        /\ IsSuffix(history \o Pair(length), transcript')
    BY <1>3, <2>1, SuffixAppended, ConcatProperties DEF Answer
  <2>3. /\ history' \in Seq(Message) /\ IsSuffix(history', transcript')
        /\ Len(history') <= MaxHistory
    BY <1>3, <2>2, LimitedSuffix DEF Answer
  <2>4. exchanges' \in 0..MaxExchanges BY <1>3, <2>1 DEF Answer
  <2> QED BY <1>3, <2>2, <2>3, <2>4 DEF Answer
<1>4. CASE AnswerFails BY <1>4 DEF AnswerFails
<1>5. CASE Clear
  <2>1. << >> \in Seq(Message) /\ Len(<< >>) = 0 BY EmptySeq
  <2>2. IsSuffix(history', transcript') BY <1>5, NothingIsSuffix DEF Clear
  <2> QED BY <1>5, <2>1, <2>2 DEF Clear
<1>6. CASE Leave BY <1>6 DEF Leave
<1>7. ASSUME NEW profile \in Profile, ModelSet(profile) \/ SwitchElsewhere(profile)
      PROVE  SessionInv'
  <2>1. active' \in Profile /\ switches' \in 0..MaxSwitches
    BY <1>7 DEF ModelSet, SwitchElsewhere
  <2>2. UNCHANGED <<history, phase, message, window, exchanges, transcript>>
    BY <1>7 DEF ModelSet, SwitchElsewhere
  <2> QED BY <2>1, <2>2
<1> QED BY <1>0, <1>1, <1>2, <1>3, <1>4, <1>5, <1>6, <1>7 DEF Next

---------------------------------------------------------------------------
\* The session with retrieval

\* Every step is one of the session without retrieval, or leaves that alone.
LEMMA SessionSteps ==
  plan \in Plans /\ [SessionNext]_sessionVars => [Next]_vars /\ plan' \in Plans
<1> SUFFICES ASSUME plan \in Plans, [SessionNext]_sessionVars
             PROVE  [Next]_vars /\ plan' \in Plans
    OBVIOUS
<1>0. CASE UNCHANGED sessionVars BY <1>0 DEF sessionVars
<1>1. plan.lengths \subseteq Lengths BY RetrievalAssumption
<1>2. CASE Elsewhere BY <1>1, <1>2 DEF Elsewhere, Next
<1>3. CASE EndOfTurn BY <1>1, <1>3 DEF EndOfTurn, Next
<1>4. ASSUME NEW route \in Routes, SendWithContext(route)
      PROVE  [Next]_vars /\ plan' \in Plans
  BY <1>4 DEF SendWithContext, Next
<1>5. CASE Command BY <1>5 DEF Command
<1>6. ASSUME NEW s \in Store, EditStore(s) PROVE [Next]_vars /\ plan' \in Plans
  BY <1>6 DEF EditStore
<1> QED
  BY <1>0, <1>2, <1>3, <1>4, <1>5, <1>6
  DEF SessionNext, ContextClear, SwitchOn, SwitchOff, Retrieve

\* What is retrieved are items, and a context has the type of one.
LEMMA ContextHasType ==
  ASSUME SessionTypeOK, NEW prompt PROVE Context(prompt) \in ContextType
<1>1. ASSUME NEW s \in Store, NEW text PROVE Retrieved(s, text) \subseteq Item
  <2>1. stores[s] \in Seq(Item) BY RetrievalAssumption DEF SessionTypeOK
  <2>2. \A i \in DOMAIN stores[s] : stores[s][i] \in Item
    BY <2>1, LenProperties, ElementOfSeq
  <2> QED BY <2>2 DEF Retrieved, Foremost, Searched, Found
<1> QED BY <1>1 DEF Context, ContextType, SessionTypeOK

LEMMA RetrievalInitially == SessionInit => RetrievalInv
<1> SUFFICES ASSUME SessionInit PROVE RetrievalInv OBVIOUS
<1>1. SessionInv BY SessionInitially DEF SessionInit
<1>2. plan \in Plans /\ plan.commands \in Nat /\ plan.contents \subseteq Contents
      /\ MaxEdits \in Nat
  BY RetrievalAssumption DEF SessionInit, Contents
<1>3. SessionTypeOK
  <2>1. stores \in [Store -> Contents] BY <1>2 DEF SessionInit
  <2>2. commands \in 0..plan.commands /\ edits \in 0..MaxEdits BY <1>2 DEF SessionInit
  <2> QED BY <1>1, <1>2, <2>1, <2>2 DEF SessionInit, SessionTypeOK, SessionInv
<1> QED BY <1>1, <1>3 DEF SessionInit, RetrievalInv, ContextHeld

LEMMA RetrievalTypeStep ==
  SessionTypeOK /\ TypeOK' /\ [SessionNext]_sessionVars => SessionTypeOK'
<1> SUFFICES ASSUME SessionTypeOK, TypeOK', [SessionNext]_sessionVars PROVE SessionTypeOK'
    OBVIOUS
<1> USE DEF SessionTypeOK
<1>0. CASE UNCHANGED sessionVars BY <1>0 DEF sessionVars, retrievalVars
<1>t. plan.commands \in Nat /\ plan.contents \subseteq Contents /\ MaxEdits \in Nat
  BY RetrievalAssumption DEF Contents
<1>1. CASE Elsewhere BY <1>1 DEF Elsewhere, retrievalVars
<1>2. CASE EndOfTurn BY <1>2, ContextHasType DEF EndOfTurn, Rebuild, IfWanted
<1>3. ASSUME NEW route \in Routes, SendWithContext(route) PROVE SessionTypeOK'
  BY <1>3, ContextHasType DEF SendWithContext, IfWanted
<1>4. CASE ContextClear BY <1>t, <1>4 DEF ContextClear, Command
<1>5. ASSUME NEW s \in Store,
             SwitchOn(s) \/ SwitchOff(s) \/ \E given \in BOOLEAN : Retrieve(s, given)
      PROVE  SessionTypeOK'
  BY <1>t, <1>5 DEF SwitchOn, SwitchOff, Retrieve, Command
<1>6. ASSUME NEW s \in Store, EditStore(s) PROVE SessionTypeOK'
  BY <1>t, <1>6 DEF EditStore
<1> QED BY <1>0, <1>1, <1>2, <1>3, <1>4, <1>5, <1>6 DEF SessionNext

LEMMA ContextSame ==
  UNCHANGED <<history, on, asked, stores>> => Context(Prompt)' = Context(Prompt)
BY DEF Context, Prompt, Retrieved, Query, Searched, Found

LEMMA ContextStep ==
  SessionTypeOK /\ ContextHeld /\ [SessionNext]_sessionVars => ContextHeld'
<1> SUFFICES ASSUME SessionTypeOK, ContextHeld, [SessionNext]_sessionVars, ~drifted'
             PROVE  /\ phase' = "waiting" /\ on' # {} => sentContext' = Context(Prompt)'
                    /\ /\ phase' = "waiting" => on' = {}
                       /\ phase' # "over" /\ lastContext' # NoContext
                       => lastContext' = sentContext'
    BY DEF ContextHeld
<1> USE DEF ContextHeld
<1>0. CASE UNCHANGED sessionVars
  <2>1. UNCHANGED <<history, phase, on, asked, stores, lastContext, sentContext, drifted>>
    BY <1>0 DEF sessionVars, vars, retrievalVars
  <2> QED BY <2>1, ContextSame
<1>1. CASE Elsewhere
  <2>1. /\ UNCHANGED retrievalVars
        /\ \/ phase = "input" /\ phase' \in {"input", "prepared"}
           \/ phase' = "over"
           \/ UNCHANGED <<phase, history>>
    BY <1>1
    DEF Elsewhere, Prepare, Clear, Leave, ModelSet, SwitchElsewhere
  <2>2. UNCHANGED <<on, asked, stores, lastContext, sentContext, drifted>>
    BY <2>1 DEF retrievalVars
  <2>3. CASE UNCHANGED <<phase, history>> BY <2>2, <2>3, ContextSame
  <2> QED BY <2>1, <2>2, <2>3
<1>2. CASE EndOfTurn
  <2>1. phase = "waiting" /\ phase' = "input" BY <1>2 DEF EndOfTurn, AnswerFails, Answer
  <2> QED BY <1>2, <2>1 DEF EndOfTurn, Rebuild, IfWanted
<1>3. ASSUME NEW route \in Routes, SendWithContext(route)
      PROVE  /\ phase' = "waiting" /\ on' # {} => sentContext' = Context(Prompt)'
             /\ /\ phase' = "waiting" => on' = {}
                /\ phase' # "over" /\ lastContext' # NoContext
                => lastContext' = sentContext'
  <2>1. /\ phase = "prepared" /\ phase' = "waiting"
        /\ UNCHANGED <<history, on, asked, stores, lastContext>>
        /\ sentContext' = IfWanted(Context(Prompt), sentContext)
        /\ drifted' = (on = {} /\ drifted)
    BY <1>3 DEF SendWithContext, Send
  <2>2. Context(Prompt)' = Context(Prompt)
    BY <2>1, ContextSame
  <2> QED BY <2>1, <2>2 DEF IfWanted
<1>4. CASE Command /\ lastContext' \in {lastContext, NoContext}
  BY <1>4 DEF Command, vars
<1>5. ASSUME NEW s \in Store, EditStore(s)
      PROVE  /\ phase' = "waiting" /\ on' # {} => sentContext' = Context(Prompt)'
             /\ /\ phase' = "waiting" => on' = {}
                /\ phase' # "over" /\ lastContext' # NoContext
                => lastContext' = sentContext'
  BY <1>5 DEF EditStore, vars
<1> QED
  BY <1>0, <1>1, <1>2, <1>3, <1>4, <1>5
  DEF SessionNext, ContextClear, SwitchOn, SwitchOff, Retrieve

LEMMA RetrievalInvariant == SessionSpec => []RetrievalInv
<1>1. RetrievalInv /\ [SessionNext]_sessionVars => RetrievalInv'
  <2> SUFFICES ASSUME RetrievalInv, [SessionNext]_sessionVars PROVE RetrievalInv' OBVIOUS
  <2>1. [Next]_vars BY SessionSteps DEF RetrievalInv, SessionTypeOK
  <2>2. SessionInv' BY <2>1, SessionStep DEF RetrievalInv
  <2>3. SessionTypeOK' BY <2>2, RetrievalTypeStep DEF RetrievalInv, SessionInv
  <2>4. ContextHeld' BY ContextStep DEF RetrievalInv
  <2> QED BY <2>2, <2>3, <2>4 DEF RetrievalInv
<1> QED BY <1>1, RetrievalInitially, PTL DEF SessionSpec

---------------------------------------------------------------------------
\* The places of a store

LEMMA FinitePlaces ==
  ASSUME NEW N \in Nat, NEW S \in SUBSET (1..N)
  PROVE  IsFiniteSet(S) /\ Cardinality(S) \in Nat
<1>1. IsFiniteSet(1..N) BY FS_Interval
<1>2. IsFiniteSet(S) BY <1>1, FS_Subset
<1> QED BY <1>2, FS_CardinalityType

\* The foremost n places are n, or all of them when there are no more than n.
LEMMA ForemostMany ==
  ASSUME NEW n \in Nat, NEW L \in Nat
  PROVE  \A S \in SUBSET (1..L) :
           Cardinality(Foremost(n, S)) = IF Cardinality(S) <= n THEN Cardinality(S) ELSE n
<1> DEFINE Many(l) == \A S \in SUBSET (1..l) :
             Cardinality(Foremost(n, S)) = IF Cardinality(S) <= n THEN Cardinality(S) ELSE n
           Bad == {l \in Nat : ~Many(l)}
<1>1. Many(0)
  <2> SUFFICES ASSUME NEW S \in SUBSET (1..0)
               PROVE  Cardinality(Foremost(n, S)) =
                        IF Cardinality(S) <= n THEN Cardinality(S) ELSE n
      OBVIOUS
  <2>1. S = {} OBVIOUS
  <2>2. Foremost(n, S) = {} BY <2>1 DEF Foremost
  <2>3. Cardinality({}) = 0 BY FS_EmptySet
  <2> QED BY <2>1, <2>2, <2>3
<1>2. ASSUME NEW l \in Nat, Many(l), NEW S \in SUBSET (1..(l + 1))
      PROVE  Cardinality(Foremost(n, S)) = IF Cardinality(S) <= n THEN Cardinality(S) ELSE n
  <2> DEFINE T == S \ {l + 1}
  <2>1. T \in SUBSET (1..l) OBVIOUS
  <2>2. Cardinality(Foremost(n, T)) = IF Cardinality(T) <= n THEN Cardinality(T) ELSE n
    BY <1>2, <2>1
  <2>3. IsFiniteSet(T) /\ Cardinality(T) \in Nat
    <3> HIDE DEF T
    <3> QED BY <2>1, FinitePlaces
  <2>4. CASE l + 1 \notin S
    <3>1. S = T BY <2>4
    <3> HIDE DEF T
    <3> QED BY <2>2, <3>1
  <2>5. CASE l + 1 \in S
    <3>1. S = T \cup {l + 1} /\ l + 1 \notin T BY <2>5
    <3>2. \A i \in T : i \in 1..l /\ i < l + 1 /\ ~ (l + 1 < i) BY <2>1
    <3> HIDE DEF T
    <3>3. Cardinality(S) = Cardinality(T) + 1 BY <2>3, <3>1, FS_AddElement
    <3>4. \A i \in T : {j \in S : j < i} = {j \in T : j < i} BY <3>1, <3>2
    <3>5. {j \in S : j < l + 1} = T
      <4>1. ~ (l + 1 < l + 1) OBVIOUS
      <4> QED BY <3>1, <3>2, <4>1
    <3>6. Foremost(n, S) = Foremost(n, T) \cup (IF Cardinality(T) < n THEN {l + 1} ELSE {})
      <4>1. \A i \in T : i \in Foremost(n, S) <=> i \in Foremost(n, T)
        BY <3>1, <3>4 DEF Foremost
      <4>2. l + 1 \in Foremost(n, S) <=> Cardinality(T) < n BY <3>1, <3>5 DEF Foremost
      <4>3. Foremost(n, S) \subseteq T \cup {l + 1} /\ Foremost(n, T) \subseteq T
        BY <3>1 DEF Foremost
      <4> QED BY <3>1, <4>1, <4>2, <4>3
    <3>7. CASE Cardinality(T) < n
      <4>1. Foremost(n, S) = Foremost(n, T) \cup {l + 1} /\ l + 1 \notin Foremost(n, T)
        BY <3>1, <3>6, <3>7 DEF Foremost
      <4>2. Foremost(n, T) \in SUBSET (1..l) BY <2>1 DEF Foremost, T
      <4>3. IsFiniteSet(Foremost(n, T)) BY <4>2, FinitePlaces
      <4>4. Cardinality(Foremost(n, S)) = Cardinality(Foremost(n, T)) + 1
        BY <4>1, <4>3, FS_AddElement
      <4> QED BY <2>2, <2>3, <3>3, <3>7, <4>4
    <3>8. CASE ~ (Cardinality(T) < n)
      <4>1. Foremost(n, S) = Foremost(n, T) BY <3>6, <3>8
      <4> QED BY <2>2, <2>3, <3>3, <3>8, <4>1
    <3> QED BY <3>7, <3>8
  <2> QED BY <2>4, <2>5
<1>3. Bad = {}
  <2> SUFFICES ASSUME Bad # {} PROVE FALSE OBVIOUS
  <2>1. Bad \subseteq Nat OBVIOUS
  <2>2. PICK b \in Bad : \A l \in Bad : ~ (<<l, b>> \in OpToRel(<, Nat))
    <3> HIDE DEF Bad
    <3> QED BY <2>1, NatLessThanWellFounded, WFMin
  <2>3. b \in Nat /\ ~Many(b) /\ \A l \in Nat : l < b => Many(l)
    BY <2>2 DEF OpToRel
  <2> HIDE DEF Many
  <2>4. b # 0 BY <1>1, <2>3
  <2>5. b - 1 \in Nat /\ b - 1 < b /\ (b - 1) + 1 = b BY <2>3, <2>4
  <2>6. Many(b - 1) BY <2>3, <2>5
  <2>7. Many((b - 1) + 1) BY <1>2, <2>5, <2>6 DEF Many
  <2> QED BY <2>3, <2>5, <2>7
<1> QED
  <2>1. Many(L) BY <1>3
  <2> QED BY <2>1

\* A store has as many items at some places as there are places.
LEMMA ItemsOfPlaces ==
  ASSUME NEW items \in Seq(Item), IsInjective(items), NEW S \in SUBSET DOMAIN items
  PROVE  Cardinality({items[i] : i \in S}) = Cardinality(S)
<1> DEFINE T == {items[i] : i \in S}
           f == [i \in S |-> items[i]]
<1>1. IsFiniteSet(S) BY LenProperties, FinitePlaces
<1>2. f \in [S -> T] /\ \A i \in S : f[i] = items[i] OBVIOUS
<1>3. f \in Injection(S, T) BY <1>2 DEF IsInjective, Injection
<1>4. f \in Surjection(S, T) BY <1>2 DEF Surjection
<1> HIDE DEF f, T
<1>5. Cardinality(T) = Cardinality(S) BY <1>1, <1>3, <1>4, FS_Surjection
<1> QED BY <1>5 DEF T

\* What a search with twice the limit leaves for the limit.
LEMMA PlainPlaces ==
  ASSUME NEW L \in Nat, NEW found \in SUBSET (1..L), NEW plain \in SUBSET found
  PROVE  LET kept == Foremost(Limit, Foremost(2 * Limit, found) \cap plain) IN
         /\ kept \subseteq plain /\ Cardinality(kept) <= Limit
         /\ Cardinality(found \ plain) <= Limit =>
              Cardinality(kept) = Min({Limit, Cardinality(plain)})
<1> DEFINE seen == Foremost(2 * Limit, found)
           both == seen \cap plain
           kept == Foremost(Limit, both)
<1>n. Limit \in Nat /\ 2 * Limit \in Nat BY RetrievalAssumption
<1>1. /\ seen \in SUBSET found /\ seen \in SUBSET (1..L) /\ both \in SUBSET (1..L)
      /\ both \in SUBSET plain /\ kept \in SUBSET both
      /\ seen \ both \in SUBSET (found \ plain) /\ found \ plain \in SUBSET (1..L)
      /\ plain \in SUBSET (1..L)
  BY DEF Foremost
<1>2. Cardinality(seen) = IF Cardinality(found) <= 2 * Limit THEN Cardinality(found)
                          ELSE 2 * Limit
  BY <1>n, ForemostMany
<1>3. Cardinality(kept) = IF Cardinality(both) <= Limit THEN Cardinality(both) ELSE Limit
  <2> HIDE DEF both
  <2> QED BY <1>n, <1>1, ForemostMany
<1> HIDE DEF seen, both, kept
<1>4. /\ IsFiniteSet(found) /\ IsFiniteSet(plain) /\ IsFiniteSet(seen) /\ IsFiniteSet(both)
      /\ IsFiniteSet(found \ plain)
      /\ {Cardinality(found), Cardinality(plain), Cardinality(seen), Cardinality(both),
          Cardinality(found \ plain), Cardinality(seen \ both)} \subseteq Nat
  <2>1. seen \ both \in SUBSET (1..L) BY <1>1
  <2> QED BY <1>1, <2>1, FinitePlaces
<1>5. Cardinality(kept) <= Limit BY <1>n, <1>3, <1>4
<1>6. ASSUME Cardinality(found \ plain) <= Limit
      PROVE  Cardinality(kept) = IF Cardinality(plain) <= Limit THEN Cardinality(plain) ELSE Limit
  <2>1. Cardinality(both) <= Cardinality(plain) BY <1>1, <1>4, FS_Subset
  <2>2. CASE Cardinality(found) <= 2 * Limit
    <3>1. seen = found BY <1>1, <1>2, <1>4, <2>2, FS_Subset
    <3>2. both = plain BY <3>1 DEF both
    <3> QED BY <1>3, <3>2
  <2>3. CASE ~ (Cardinality(found) <= 2 * Limit)
    <3>1. Cardinality(seen) = 2 * Limit BY <1>2, <2>3
    <3>2. Cardinality(seen \ both) <= Cardinality(found \ plain) BY <1>1, <1>4, FS_Subset
    <3>3. Cardinality(seen) = Cardinality(both) + Cardinality(seen \ both)
      <4>1. both \in SUBSET seen BY DEF both
      <4>2. IsFiniteSet(seen \ both) BY <1>4, FS_Subset
      <4>3. both \cup (seen \ both) = seen /\ both \cap (seen \ both) = {} BY <4>1
      <4>4. Cardinality(both \cup (seen \ both)) =
              Cardinality(both) + Cardinality(seen \ both) - Cardinality({})
        BY <1>4, <4>2, <4>3, FS_Union
      <4>5. Cardinality({}) = 0 BY FS_EmptySet
      <4>6. Cardinality(both) \in Nat /\ Cardinality(seen \ both) \in Nat BY <1>4
      <4>7. Cardinality(both) + Cardinality(seen \ both) - 0 =
              Cardinality(both) + Cardinality(seen \ both)
        BY <4>6
      <4> QED BY <4>3, <4>4, <4>5, <4>7
    <3>4. Cardinality(both) >= Limit BY <1>n, <1>4, <1>6, <3>1, <3>2, <3>3
    <3> QED BY <1>n, <1>3, <1>4, <2>1, <3>4
  <2> QED BY <2>2, <2>3
<1>7. Min({Limit, Cardinality(plain)}) =
        IF Cardinality(plain) <= Limit THEN Cardinality(plain) ELSE Limit
  <2> DEFINE c == Cardinality(plain)
  <2>1. c \in Nat BY <1>4
  <2> HIDE DEF c
  <2>2. Min({Limit, c}) = IF c <= Limit THEN c ELSE Limit BY <1>n, <2>1 DEF Min
  <2> QED BY <2>2 DEF c
<1> QED BY <1>1, <1>5, <1>6, <1>7 DEF kept, both, seen

---------------------------------------------------------------------------
\* The theorems

LEMMA SessionInvariant == Spec => []SessionInv
BY SessionInitially, SessionStep, PTL DEF Spec

\* Every variable of the session keeps its type, with retrieval too.
THEOREM SessionTypeSafe == SessionSpec => []SessionTypeOK
<1>1. RetrievalInv => SessionTypeOK BY DEF RetrievalInv
<1> QED BY <1>1, RetrievalInvariant, PTL

\* A session with retrieval behaves, as to its history and its requests, like one without:
\* switches, queries and stores decide nothing there.
THEOREM SessionRefines == SessionSpec => Spec
<1>1. SessionInit => Init BY DEF SessionInit
<1>2. RetrievalInv /\ [SessionNext]_sessionVars => [Next]_vars
  BY SessionSteps DEF RetrievalInv, SessionTypeOK
<1> QED BY <1>1, <1>2, RetrievalInvariant, PTL DEF SessionSpec, Spec

\* Whatever is limited, compacted, refused or cleared, the history is the most recent part
\* of the conversation, for any windows and lengths (_enforce_history_limit,
\* compact_session_history).
THEOREM HistoryStaysRecent == SessionSpec => []HistoryIsRecent
<1>1. SessionInv => HistoryIsRecent BY DEF SessionInv
<1> QED BY <1>1, SessionInvariant, SessionRefines, PTL

\* With one message more than the compaction keeps the prompt is over the threshold, for
\* any history (compact_session_history).
THEOREM NothingDroppedInVain == SessionSpec => DropsNoMoreThanNeeded
<1> DEFINE Needed == phase = "input" /\ phase' = "prepared" /\ Len(history') < Len(Limited(history)) =>
             LET before == Limited(history)
                 more == SubSeq(before, Len(before) - Len(history'), Len(before)) IN
             Over(more, message', window')
<1>1. SessionInv /\ [Next]_vars => [Needed]_vars
  <2> SUFFICES ASSUME SessionInv, [Next]_vars, phase = "input", phase' = "prepared",
                      Len(history') < Len(Limited(history))
               PROVE  LET before == Limited(history)
                          more == SubSeq(before, Len(before) - Len(history'), Len(before)) IN
                      Over(more, message', window')
      OBVIOUS
  <2> DEFINE m == Limited(history)
  <2>1. m \in Seq(Message)
    BY LimitedSuffix DEF SessionInv, TypeOK, HistoryIsRecent
  <2>2. Len(m) \in Nat BY <2>1, LenProperties
  <2>3. PICK latest \in Lengths : Prepare(latest)
    BY DEF Next, Send, Answer, AnswerFails, Clear, Leave, ModelSet, SwitchElsewhere, vars
  <2>4. /\ history' = Compacted(m, latest, Window[active])
        /\ message' = latest /\ window' = Window[active]
    BY <2>3 DEF Prepare
  <2>5. Len(history') < Len(m) OBVIOUS
  <2> HIDE DEF m
  <2>6. PICK k \in 0..Len(m) :
          /\ history' = SubSeq(m, k + 1, Len(m))
          /\ k > 0 => Over(SubSeq(m, k, Len(m)), latest, Window[active])
    BY <2>1, <2>4, CompactedEnd
  <2>7. Len(history') = Len(m) - k
    <3>1. IsSuffix(m, m)
      <4>1. \A i \in 1..Len(m) : m[i] = m[Len(m) - Len(m) + i] BY <2>2
      <4> QED BY <2>1, <2>2, <4>1, SuffixElements
    <3> QED BY <2>1, <2>6, <3>1, EndOfSuffix
  <2>8. k > 0 /\ Len(m) - Len(history') = k BY <2>2, <2>5, <2>7
  <2> QED BY <2>4, <2>6, <2>8 DEF m
<1> QED
  BY <1>1, SessionInvariant, SessionRefines, PTL DEF DropsNoMoreThanNeeded, Spec

\* What `/context show` shows is what was sent, unless a store was changed while the
\* request was made, for any stores, limits and queries (_handle_message).
THEOREM ShownWasSent == SessionSpec => []ShownIsSent
<1>1. RetrievalInv => ShownIsSent BY DEF RetrievalInv, ContextHeld, ShownIsSent
<1> QED BY <1>1, RetrievalInvariant, PTL

\* A request carries no sensitive item, no more than the limit, and as many as there are
\* as long as the sensitive ones are no more than the limit, for any limit and any stores
\* (retrieve_memory, retrieve_brain).
THEOREM SensitiveDisplacesNothing == SessionSpec => SensitiveTakesNoPlace
<1> DEFINE Carried(s) ==
             LET found == Found(s, Query(s, Prompt))
                 plain == {i \in found : stores[s][i] \notin Sensitive}
                 carried == sentContext'.items[s] IN
             /\ carried \subseteq {stores[s][i] : i \in plain}
             /\ Cardinality(carried) <= Limit
             /\ Cardinality(found \ plain) <= Limit =>
                  Cardinality(carried) = Min({Limit, Cardinality(plain)})
<1>1. ASSUME RetrievalInv, [SessionNext]_sessionVars, phase = "prepared", phase' = "waiting",
             NEW s \in on
      PROVE  Carried(s)
  <2> DEFINE found == Found(s, Query(s, Prompt))
             plain == {i \in found : stores[s][i] \notin Sensitive}
             kept == Foremost(Limit, Foremost(2 * Limit, found) \cap plain)
  <2>1. PICK route \in Routes : SendWithContext(route)
    BY <1>1
    DEF SessionNext, Elsewhere, Prepare, Clear, Leave, ModelSet, SwitchElsewhere, EndOfTurn,
        AnswerFails, Answer, ContextClear, SwitchOn, SwitchOff, Retrieve, EditStore, Command,
        sessionVars, vars
  <2>2. s \in Store /\ stores[s] \in Seq(Item) /\ IsInjective(stores[s])
    BY <1>1, RetrievalAssumption DEF RetrievalInv, SessionTypeOK
  <2>3. sentContext'.items[s] = Retrieved(s, Query(s, Prompt))
    BY <1>1, <2>1, <2>2 DEF SendWithContext, IfWanted, Context
  <2>4. Foremost(2 * Limit, found) \cap plain =
          {i \in Searched(s, Query(s, Prompt)) : ~IsSensitive(stores[s][i])}
    BY DEF Searched, IsSensitive, Foremost
  <2>5. sentContext'.items[s] = {stores[s][i] : i \in kept} BY <2>3, <2>4 DEF Retrieved
  <2>6. /\ found \in SUBSET (1..Len(stores[s])) /\ Len(stores[s]) \in Nat
        /\ DOMAIN stores[s] = 1..Len(stores[s]) /\ plain \in SUBSET found
    BY <2>2, LenProperties DEF Found
  <2> HIDE DEF found, plain
  <2>7. /\ kept \subseteq plain /\ Cardinality(kept) <= Limit
        /\ Cardinality(found \ plain) <= Limit =>
             Cardinality(kept) = Min({Limit, Cardinality(plain)})
    BY <2>6, PlainPlaces
  <2> HIDE DEF kept
  <2>8. Cardinality({stores[s][i] : i \in kept}) = Cardinality(kept)
    BY <2>2, <2>6, <2>7, ItemsOfPlaces
  <2> QED BY <2>5, <2>7, <2>8 DEF found, plain
<1>2. RetrievalInv /\ [SessionNext]_sessionVars =>
        [phase = "prepared" /\ phase' = "waiting" => \A s \in on : Carried(s)]_sessionVars
  BY <1>1
<1> QED BY <1>2, RetrievalInvariant, PTL DEF SessionSpec, SensitiveTakesNoPlace
=============================================================================
