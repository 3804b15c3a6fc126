------------------------ MODULE ChatStreaming_proofs ------------------------
(***************************************************************************)
(* Proofs about ChatStreaming, for streams of any length.                  *)
(***************************************************************************)
EXTENDS ChatStreaming, FiniteSetTheorems, SequenceTheorems, TLAPS

---------------------------------------------------------------------------
\* Counting

LEMMA CountType ==
  ASSUME NEW S, NEW s \in Seq(S), NEW K
  PROVE  Count(s, K) \in Nat
<1>1. Len(s) \in Nat /\ DOMAIN s = 1..Len(s) OBVIOUS
<1>2. IsFiniteSet(1..Len(s)) BY <1>1, FS_Interval
<1> QED BY <1>1, <1>2, FS_Subset, FS_CardinalityType DEF Count

LEMMA CountEmpty == \A K : Count(<<>>, K) = 0
<1> SUFFICES ASSUME NEW K PROVE Count(<<>>, K) = 0 OBVIOUS
<1>1. {i \in DOMAIN <<>> : <<>>[i] \in K} = {} OBVIOUS
<1> QED BY <1>1, FS_EmptySet DEF Count

LEMMA CountAppend ==
  ASSUME NEW S, NEW s \in Seq(S), NEW e \in S, NEW K
  PROVE  Count(Append(s, e), K) = Count(s, K) + IF e \in K THEN 1 ELSE 0
<1> DEFINE old == {i \in DOMAIN s : s[i] \in K}
           new == {i \in DOMAIN Append(s, e) : Append(s, e)[i] \in K}
<1>1. Len(s) \in Nat /\ DOMAIN s = 1..Len(s) OBVIOUS
<1>2. IsFiniteSet(old) /\ Cardinality(old) \in Nat
  <2>1. IsFiniteSet(1..Len(s)) BY <1>1, FS_Interval
  <2> QED BY <1>1, <2>1, FS_Subset, FS_CardinalityType
<1>3. /\ DOMAIN Append(s, e) = 1..(Len(s) + 1)
      /\ Append(s, e)[Len(s) + 1] = e
      /\ \A i \in 1..Len(s) : Append(s, e)[i] = s[i]
  BY <1>1
<1>4. Count(s, K) = Cardinality(old) /\ Count(Append(s, e), K) = Cardinality(new)
  BY DEF Count
<1>5. CASE e \in K
  <2>1. new = old \cup {Len(s) + 1} BY <1>1, <1>3, <1>5
  <2>2. Len(s) + 1 \notin old BY <1>1
  <2>3. Cardinality(new) = Cardinality(old) + 1
    <3> HIDE DEF old, new
    <3> QED BY <1>2, <2>1, <2>2, FS_AddElement
  <2> QED BY <1>5, <1>4, <2>3
<1>6. CASE e \notin K
  <2>1. new = old BY <1>1, <1>3, <1>6
  <2>2. Cardinality(new) = Cardinality(old) BY <2>1
  <2> HIDE DEF old, new
  <2> QED BY <1>2, <1>4, <1>6, <2>2
<1> QED BY <1>5, <1>6

\* One event more, and two, and three, in the trace.
LEMMA TimesOne ==
  ASSUME trace \in Seq(Event), NEW a \in Event, Log(<<a>>)
  PROVE  /\ trace' \in Seq(Event)
         /\ trace' = Append(trace, a)
         /\ \A e : Times(e)' = Times(e) + IF a = e THEN 1 ELSE 0
<1>1. trace' = Append(trace, a) BY DEF Log
<1>2. ASSUME NEW e PROVE Times(e)' = Times(e) + IF a = e THEN 1 ELSE 0
  <2>1. Count(Append(trace, a), {e}) = Count(trace, {e}) + IF a \in {e} THEN 1 ELSE 0
    BY CountAppend
  <2> QED BY <1>1, <2>1 DEF Times
<1> QED BY <1>1, <1>2

LEMMA CountTwo ==
  ASSUME NEW s \in Seq(Event), NEW a \in Event, NEW b \in Event, NEW K
  PROVE  /\ s \o <<a, b>> \in Seq(Event)
         /\ s \o <<a, b>> = Append(Append(s, a), b)
         /\ Count(s \o <<a, b>>, K) = Count(s, K) + (IF a \in K THEN 1 ELSE 0)
                                                  + (IF b \in K THEN 1 ELSE 0)
<1>1. Append(s, a) \in Seq(Event) /\ s \o <<a, b>> = Append(Append(s, a), b) OBVIOUS
<1>2. Count(Append(s, a), K) = Count(s, K) + IF a \in K THEN 1 ELSE 0 BY CountAppend
<1>3. Count(Append(Append(s, a), b), K) = Count(Append(s, a), K) + IF b \in K THEN 1 ELSE 0
  BY <1>1, CountAppend
<1>4. Count(s, K) \in Nat BY CountType
<1>5. Count(s \o <<a, b>>, K) = Count(Append(Append(s, a), b), K) BY <1>1
<1> HIDE DEF Count
<1>6. Count(s \o <<a, b>>, K) = Count(s, K) + (IF a \in K THEN 1 ELSE 0)
                                          + (IF b \in K THEN 1 ELSE 0)
  BY <1>2, <1>3, <1>4, <1>5
<1> QED BY <1>1, <1>6

LEMMA CountNone ==
  ASSUME NEW s, NEW K, \A i \in DOMAIN s : s[i] \notin K
  PROVE  Count(s, K) = 0
<1>1. {i \in DOMAIN s : s[i] \in K} = {} OBVIOUS
<1> QED BY <1>1, FS_EmptySet DEF Count

LEMMA CountSingle ==
  ASSUME NEW s, NEW K, NEW n \in DOMAIN s, \A i \in DOMAIN s : s[i] \in K <=> i = n
  PROVE  Count(s, K) = 1
<1>1. {i \in DOMAIN s : s[i] \in K} = {n} OBVIOUS
<1> QED BY <1>1, FS_Singleton DEF Count

---------------------------------------------------------------------------
\* The invariant

Ends == {"streamCompleted", "streamFailed"}

\* The pieces among the first n lines.
Pieces(s, n) == Cardinality({i \in 1..n : s[i] \in {"text"}})

\* The usage held after n lines is their last report, if there was one.
HoldsReport(u, s, n) ==
  \/ /\ u = NoUsage
     /\ \A i \in 1..n : s[i] \notin Reports
  \/ \E m \in 1..n :
       /\ u = ReportOf(s, m) /\ s[m] \in Reports
       /\ \A i \in 1..n : i > m => s[i] \notin Reports

Displayed == shown = IF Streams /\ HasWriter THEN chunks ELSE 0

\* What the trace tells before the outcome of the stream is known, and what after it.
Undecided ==
  /\ Times("streamCompleted") = 0 /\ Times("streamFailed") = 0
  /\ \A i \in 1..Len(trace) : trace[i] \notin Ends
StreamTold ==
  /\ Times("streamCompleted") + Times("streamFailed") = Times("streamStarted")
  /\ Times("streamFailed") \in Nat
RequestOpen == Times("requestCompleted") = 0 /\ Times("requestFailed") = 0 /\ recorded = NoUsage

Fine ==
  /\ Times("streamFailed") = 0 /\ usage # NoUsage
  /\ Displayed
  /\ Streams => chunks = Count(sent, {"text"}) /\ usage = StreamUsage

ChatInv ==
  /\ TypeOK
  /\ pc # "done" => printed = 0
  /\ pc = "start" =>
       /\ trace = <<>> /\ status = "none" /\ recorded = NoUsage
       /\ sent = <<>> /\ handled = 0 /\ chunks = 0 /\ shown = 0 /\ usage = NoUsage
  /\ pc = "whole" =>
       /\ ~Streams /\ status = "none" /\ chunks = 0 /\ shown = 0 /\ usage = NoUsage
       /\ Undecided /\ Times("streamStarted") = 0 /\ RequestOpen
  /\ pc = "streaming" =>
       /\ Streams /\ status = "none"
       /\ Undecided /\ Times("streamStarted") = 1 /\ RequestOpen
       /\ chunks = Pieces(sent, handled) /\ Displayed /\ HoldsReport(usage, sent, handled)
  /\ pc = "answered" =>
       /\ StreamTold /\ RequestOpen /\ status # "none"
       /\ status = "ok" => Fine
  /\ pc = "recorded" => StreamTold /\ Fine /\ status = "ok" /\ recorded = usage
                        /\ Times("requestCompleted") = 0 /\ Times("requestFailed") = 0
  /\ pc = "returned" /\ status = "ok" => Fine
  /\ OneOutcome
  /\ ShownOnce

LEMMA ChatInitially == Init => ChatInv
<1> SUFFICES ASSUME Init PROVE ChatInv OBVIOUS
<1>1. TypeOK
  <2>1. noise \in BOOLEAN BY DEF Init
  <2> QED BY <2>1 DEF Init, TypeOK, Step, Usage, NoUsage
<1>2. \A e : Times(e) = 0 BY CountEmpty DEF Init, Times
<1>3. OneOutcome BY <1>2 DEF Init, OneOutcome
<1> QED BY <1>1, <1>3 DEF Init, ChatInv, ShownOnce

LEMMA JoinThird ==
  ASSUME NEW a \in Event, NEW b \in Event, NEW c \in Event
  PROVE  <<a, b>> \o <<c>> = <<a, b, c>>
<1> DEFINE s == <<a, b>> \o <<c>>
           t == <<a, b, c>>
<1>1. s \in Seq(Event) /\ t \in Seq(Event) /\ Len(s) = Len(t) OBVIOUS
<1>2. \A i \in 1..Len(s) : s[i] = t[i] OBVIOUS
<1> HIDE DEF s, t
<1>3. s = t BY <1>1, <1>2, SeqEqual
<1> QED BY <1>3 DEF s, t

LEMMA JoinFourth ==
  ASSUME NEW a \in Event, NEW b \in Event, NEW c \in Event, NEW d \in Event
  PROVE  <<a, b, c>> \o <<d>> = <<a, b, c, d>>
<1> DEFINE s == <<a, b, c>> \o <<d>>
           t == <<a, b, c, d>>
<1>1. s \in Seq(Event) /\ t \in Seq(Event) /\ Len(s) = Len(t) OBVIOUS
<1>2. \A i \in 1..Len(s) : s[i] = t[i] OBVIOUS
<1> HIDE DEF s, t
<1>3. s = t BY <1>1, <1>2, SeqEqual
<1> QED BY <1>3 DEF s, t

LEMMA Joins ==
  ASSUME NEW a \in Event, NEW b \in Event, NEW c \in Event, NEW d \in Event
  PROVE  /\ <<>> \o <<a>> = <<a>>
         /\ <<a>> \o <<b>> = <<a, b>>
         /\ <<a, b>> \o <<c>> = <<a, b, c>>
         /\ <<a, b, c>> \o <<d>> = <<a, b, c, d>>
         /\ \A s \in Seq(Event) : <<>> \o s = s /\ s \o <<>> = s
<1>1. \A s \in Seq(Event) : <<>> \o s = s /\ s \o <<>> = s OBVIOUS
<1>2. <<>> \o <<a>> = <<a>> BY <1>1
<1>3. \A s \in Seq(Event), e \in Event : s \o <<e>> = Append(s, e) OBVIOUS
<1>4. <<a>> \in Seq(Event) /\ <<a, b>> \in Seq(Event) /\ <<a, b, c>> \in Seq(Event) OBVIOUS
<1>5. /\ Append(<<a>>, b) = <<a, b>> /\ Append(<<a, b>>, c) = <<a, b, c>>
      /\ Append(<<a, b, c>>, d) = <<a, b, c, d>>
  <2>1. Append(<<a>>, b) = <<a, b>>
    <3> DEFINE s == Append(<<a>>, b)
               t == <<a, b>>
    <3>1. s \in Seq(Event) /\ t \in Seq(Event) /\ Len(s) = Len(t) OBVIOUS
    <3>2. \A i \in 1..Len(s) : s[i] = t[i] OBVIOUS
    <3> HIDE DEF s, t
    <3>3. s = t BY <3>1, <3>2, SeqEqual
    <3> QED BY <3>3 DEF s, t
  <2>2. Append(<<a, b>>, c) = <<a, b, c>>
    <3> DEFINE s == Append(<<a, b>>, c)
               t == <<a, b, c>>
    <3>1. s \in Seq(Event) /\ t \in Seq(Event) /\ Len(s) = Len(t) OBVIOUS
    <3>2. \A i \in 1..Len(s) : s[i] = t[i] OBVIOUS
    <3> HIDE DEF s, t
    <3>3. s = t BY <3>1, <3>2, SeqEqual
    <3> QED BY <3>3 DEF s, t
  <2>3. Append(<<a, b, c>>, d) = <<a, b, c, d>>
    <3> DEFINE s == Append(<<a, b, c>>, d)
               t == <<a, b, c, d>>
    <3>1. s \in Seq(Event) /\ t \in Seq(Event) /\ Len(s) = Len(t) OBVIOUS
    <3>2. \A i \in 1..Len(s) : s[i] = t[i] OBVIOUS
    <3> HIDE DEF s, t
    <3>3. s = t BY <3>1, <3>2, SeqEqual
    <3> QED BY <3>3 DEF s, t
  <2> QED BY <2>1, <2>2, <2>3
<1>6. /\ <<a>> \o <<b>> = <<a, b>> /\ <<a, b>> \o <<c>> = <<a, b, c>>
      /\ <<a, b, c>> \o <<d>> = <<a, b, c, d>>
  BY <1>3, <1>4, <1>5
<1> QED BY <1>1, <1>2, <1>6

\* What begins a request is in the trace.
LEMMA StartTrace ==
  ASSUME ChatInv, Start
  PROVE  /\ trace' \in Seq(Event) /\ Undecided'
         /\ Times("streamStarted")' = IF Streams THEN 1 ELSE 0
         /\ Times("requestCompleted")' = 0 /\ Times("requestFailed")' = 0
<1> DEFINE none == {"streamCompleted", "streamFailed", "requestCompleted", "requestFailed"}
<1>1. /\ trace = <<>>
      /\ trace' = trace \o ((IF options.context = "off" THEN <<>> ELSE <<"retrievalRequested", "contextBuilt">>)
                            \o <<"requestStarted">> \o IF Streams THEN <<"streamStarted">> ELSE <<>>)
  BY DEF ChatInv, Start, Log
<1>a. /\ "requestStarted" \in Event /\ "streamStarted" \in Event
      /\ "retrievalRequested" \in Event /\ "contextBuilt" \in Event
  BY DEF Event
<1>2. /\ trace' \in Seq(Event)
      /\ \A i \in DOMAIN trace' : trace'[i] \notin none
      /\ Streams => \E n \in DOMAIN trace' :
                      \A i \in DOMAIN trace' : trace'[i] \in {"streamStarted"} <=> i = n
      /\ ~Streams => \A i \in DOMAIN trace' : trace'[i] \notin {"streamStarted"}
  <2>1. CASE options.context = "off" /\ Streams
    <3>1. trace' = <<"requestStarted", "streamStarted">>
      <4>1. trace' = <<>> \o (<<>> \o <<"requestStarted">> \o <<"streamStarted">>)
        BY <1>1, <2>1
      <4>2. <<"requestStarted", "streamStarted">> \in Seq(Event) BY <1>a
      <4>3. <<>> \o <<"requestStarted">> = <<"requestStarted">> BY <1>a, Joins
      <4>4. <<"requestStarted">> \o <<"streamStarted">> = <<"requestStarted", "streamStarted">>
        BY <1>a, Joins
      <4>5. <<>> \o <<"requestStarted", "streamStarted">> = <<"requestStarted", "streamStarted">>
        BY <4>2
      <4> QED BY <4>1, <4>3, <4>4, <4>5
    <3>2. \A i \in DOMAIN trace' : trace'[i] \in {"streamStarted"} <=> i = 2 BY <3>1
    <3> QED BY <2>1, <3>1, <3>2 DEF Event
  <2>2. CASE options.context = "off" /\ ~Streams
    <3>1. trace' = <<"requestStarted">>
      <4>1. trace' = <<>> \o (<<>> \o <<"requestStarted">> \o <<>>)
        BY <1>1, <2>2
      <4>2. <<"requestStarted">> \in Seq(Event) BY <1>a
      <4> QED BY <1>a, <4>1, <4>2, Joins
    <3> QED BY <2>2, <3>1 DEF Event
  <2>3. CASE options.context # "off" /\ Streams
    <3>1. trace' = <<"retrievalRequested", "contextBuilt", "requestStarted", "streamStarted">>
      <4>1. trace' = <<>> \o (<<"retrievalRequested", "contextBuilt">> \o <<"requestStarted">> \o <<"streamStarted">>)
        BY <1>1, <2>3
      <4>2. <<"retrievalRequested", "contextBuilt", "requestStarted", "streamStarted">> \in Seq(Event)
        BY <1>a
      <4>3. <<"retrievalRequested", "contextBuilt">> \o <<"requestStarted">>
              = <<"retrievalRequested", "contextBuilt", "requestStarted">>
        BY <1>a, JoinThird
      <4>4. <<"retrievalRequested", "contextBuilt", "requestStarted">> \o <<"streamStarted">>
              = <<"retrievalRequested", "contextBuilt", "requestStarted", "streamStarted">>
        BY <1>a, JoinFourth
      <4>5. <<>> \o <<"retrievalRequested", "contextBuilt", "requestStarted", "streamStarted">>
              = <<"retrievalRequested", "contextBuilt", "requestStarted", "streamStarted">>
        BY <4>2
      <4> QED BY <4>1, <4>3, <4>4, <4>5
    <3>2. \A i \in DOMAIN trace' : trace'[i] \in {"streamStarted"} <=> i = 4 BY <3>1
    <3> QED BY <2>3, <3>1, <3>2 DEF Event
  <2>4. CASE options.context # "off" /\ ~Streams
    <3>1. trace' = <<"retrievalRequested", "contextBuilt", "requestStarted">>
      <4>1. trace' = <<>> \o (<<"retrievalRequested", "contextBuilt">> \o <<"requestStarted">> \o <<>>)
        BY <1>1, <2>4
      <4>2. <<"retrievalRequested", "contextBuilt", "requestStarted">> \in Seq(Event) BY <1>a
      <4>3. <<"retrievalRequested", "contextBuilt">> \o <<"requestStarted">>
              = <<"retrievalRequested", "contextBuilt", "requestStarted">>
        BY <1>a, JoinThird
      <4>4. /\ <<"retrievalRequested", "contextBuilt", "requestStarted">> \o <<>>
                 = <<"retrievalRequested", "contextBuilt", "requestStarted">>
            /\ <<>> \o <<"retrievalRequested", "contextBuilt", "requestStarted">>
                 = <<"retrievalRequested", "contextBuilt", "requestStarted">>
        BY <4>2
      <4> QED BY <4>1, <4>3, <4>4
    <3> QED BY <2>4, <3>1 DEF Event
  <2> QED BY <2>1, <2>2, <2>3, <2>4
<1>3. ASSUME NEW e \in none PROVE Times(e)' = 0
  <2>1. Count(trace', {e}) = 0 BY <1>2, CountNone
  <2> QED BY <2>1 DEF Times
<1>4. Times("streamStarted")' = IF Streams THEN 1 ELSE 0
  <2>1. CASE Streams BY <1>2, <2>1, CountSingle DEF Times
  <2>2. CASE ~Streams BY <1>2, <2>2, CountNone DEF Times
  <2> QED BY <2>1, <2>2
<1>5. \A i \in 1..Len(trace') : trace'[i] \notin Ends BY <1>2 DEF Ends
<1> QED BY <1>2, <1>3, <1>4, <1>5 DEF Undecided

---------------------------------------------------------------------------
\* The stream

LEMMA PieceCounted ==
  ASSUME NEW s, NEW n \in Nat
  PROVE  /\ Pieces(s, n) \in Nat /\ Pieces(s, 0) = 0
         /\ Pieces(s, n + 1) = Pieces(s, n) + IF s[n + 1] \in {"text"} THEN 1 ELSE 0
<1> DEFINE old == {i \in 1..n : s[i] \in {"text"}}
           new == {i \in 1..(n + 1) : s[i] \in {"text"}}
<1>1. IsFiniteSet(old) /\ Cardinality(old) \in Nat
  <2>1. IsFiniteSet(1..n) BY FS_Interval
  <2> QED BY <2>1, FS_Subset, FS_CardinalityType
<1>2. Pieces(s, 0) = 0
  <2>1. {i \in 1..0 : s[i] \in {"text"}} = {} OBVIOUS
  <2> QED BY <2>1, FS_EmptySet DEF Pieces
<1>3. CASE s[n + 1] \in {"text"}
  <2>1. new = old \cup {n + 1} /\ n + 1 \notin old BY <1>3
  <2>2. Cardinality(new) = Cardinality(old) + 1
    <3> HIDE DEF old, new
    <3> QED BY <1>1, <2>1, FS_AddElement
  <2> QED BY <1>1, <1>2, <1>3, <2>2 DEF Pieces
<1>4. CASE s[n + 1] \notin {"text"}
  <2>1. new = old BY <1>4
  <2>2. Cardinality(new) = Cardinality(old) BY <2>1
  <2> QED BY <1>1, <1>2, <1>4, <2>2 DEF Pieces
<1> QED BY <1>3, <1>4

\* All lines handled: the pieces are those of the whole stream.
LEMMA PiecesOfAll ==
  ASSUME TypeOK
  PROVE  Pieces(sent, Len(sent)) = Count(sent, {"text"})
<1>1. DOMAIN sent = 1..Len(sent) BY DEF TypeOK
<1> QED BY <1>1 DEF Pieces, Count

\* ... and the usage held, if any, is what the stream cost.
LEMMA ReportOfAll ==
  ASSUME TypeOK, HoldsReport(usage, sent, Len(sent))
  PROVE  /\ usage = NoUsage => StreamUsage = Estimate(Count(sent, {"text"}))
         /\ usage # NoUsage => StreamUsage = usage
<1> DEFINE reports == {i \in 1..Len(sent) : sent[i] \in Reports}
<1>0. Len(sent) \in Nat BY DEF TypeOK
<1>1. CASE usage = NoUsage /\ \A i \in 1..Len(sent) : sent[i] \notin Reports
  <2>1. reports = {} BY <1>1
  <2> QED BY <1>1, <2>1 DEF StreamUsage
<1>2. ASSUME NEW m \in 1..Len(sent),
             usage = ReportOf(sent, m), sent[m] \in Reports,
             \A i \in 1..Len(sent) : i > m => sent[i] \notin Reports
      PROVE  usage # NoUsage /\ StreamUsage = usage
  <2>1. m \in reports /\ \A j \in reports : j <= m BY <1>0, <1>2
  <2>2. (CHOOSE i \in reports : \A j \in reports : j <= i) = m
    <3> DEFINE last == CHOOSE i \in reports : \A j \in reports : j <= i
    <3>1. last \in reports /\ \A j \in reports : j <= last BY <2>1
    <3>2. last <= m /\ m <= last BY <2>1, <3>1
    <3>3. last \in Nat /\ m \in Nat BY <1>0, <2>1, <3>1
    <3> HIDE DEF last
    <3>4. last = m BY <3>2, <3>3
    <3> QED BY <3>4 DEF last
  <2>3. reports # {} BY <2>1
  <2>4. StreamUsage = ReportOf(sent, m) BY <2>2, <2>3 DEF StreamUsage
  <2> QED BY <1>2, <2>4 DEF ReportOf, PromptOnly, Reported, NoUsage
<1> QED BY <1>1, <1>2 DEF HoldsReport

\* A handled line moves the report held.
LEMMA ReportMoves ==
  ASSUME NEW s, NEW n \in Nat, NEW u, NEW v, HoldsReport(u, s, n),
         v = IF s[n + 1] \in Reports THEN ReportOf(s, n + 1) ELSE u
  PROVE  HoldsReport(v, s, n + 1)
<1>2. \A i \in 1..(n + 1) : i \in 1..n \/ i = n + 1 OBVIOUS
<1>3. CASE s[n + 1] \in Reports
  <2>1. n + 1 \in 1..(n + 1) /\ \A i \in 1..(n + 1) : ~(i > n + 1) OBVIOUS
  <2> QED BY <1>3, <2>1 DEF HoldsReport
<1>4. CASE s[n + 1] \notin Reports /\ u = NoUsage
           /\ \A i \in 1..n : s[i] \notin Reports
  BY <1>2, <1>4 DEF HoldsReport, NoUsage
<1>5. ASSUME s[n + 1] \notin Reports, NEW m \in 1..n,
             u = ReportOf(s, m), s[m] \in Reports,
             \A i \in 1..n : i > m => s[i] \notin Reports
      PROVE  HoldsReport(v, s, n + 1)
  <2>1. m \in 1..(n + 1) OBVIOUS
  <2>2. \A i \in 1..(n + 1) : i > m => s[i] \notin Reports BY <1>2, <1>5
  <2> QED BY <1>5, <2>1, <2>2 DEF HoldsReport
<1> QED BY <1>3, <1>4, <1>5 DEF HoldsReport

---------------------------------------------------------------------------
\* One lemma per action

\* What the properties say while the request goes on.
LEMMA Unfinished ==
  ASSUME pc' \notin {"returned", "done"}, Undecided', RequestOpen'
  PROVE  OneOutcome' /\ ShownOnce'
BY DEF Undecided, RequestOpen, OneOutcome, ShownOnce, Ends

LEMMA StepStart == ASSUME ChatInv, Start PROVE ChatInv'
<1>1. TypeOK' BY StartTrace DEF ChatInv, TypeOK, Start, Goto, Step
<1>2. /\ pc' = IF Streams THEN "streaming" ELSE "whole"
      /\ UNCHANGED <<options, sent, handled, noise, closed, chunks, shown, printed, usage, status, recorded>>
      /\ handled = 0 /\ chunks = 0 /\ shown = 0 /\ usage = NoUsage /\ status = "none"
      /\ recorded = NoUsage /\ printed = 0
  BY DEF ChatInv, Start, Goto
<1>3. Streams' = Streams /\ HasWriter' = HasWriter BY <1>2 DEF Streams, HasWriter
<1>4. Undecided' /\ RequestOpen' BY <1>2, StartTrace DEF RequestOpen
<1>5. OneOutcome' /\ ShownOnce' BY <1>2, <1>4, Unfinished
<1>6. Pieces(sent, 0) = 0 BY PieceCounted
<1>7. (Pieces(sent, handled))' = 0
  <2>1. Pieces(sent, handled)' = Pieces(sent, handled) BY <1>2 DEF Pieces
  <2> QED BY <1>2, <1>6, <2>1
<1>8. HoldsReport(usage, sent, handled)' BY <1>2 DEF HoldsReport
<1>9. Displayed' BY <1>2 DEF Displayed
<1> QED BY <1>1, <1>2, <1>3, <1>4, <1>5, <1>7, <1>8, <1>9, StartTrace DEF ChatInv

\* An action that leaves the trace alone.
LEMMA SameTrace ==
  ASSUME UNCHANGED trace
  PROVE  (\A e : Times(e)' = Times(e)) /\ Undecided' = Undecided
BY DEF Times, Undecided

LEMMA StepAnswerWhole == ASSUME ChatInv, AnswerWhole PROVE ChatInv'
<1>1. TypeOK' BY DEF ChatInv, TypeOK, AnswerWhole, Goto, Step, Usage, Reported, Estimate
<1>2. /\ pc = "whole" /\ pc' = "answered" /\ status' = "ok" /\ usage' # NoUsage
      /\ UNCHANGED <<options, sent, handled, noise, closed, shown, printed, trace, recorded>>
      /\ ~Streams /\ shown = 0 /\ printed = 0
      /\ Undecided /\ Times("streamStarted") = 0 /\ RequestOpen
  BY DEF ChatInv, AnswerWhole, Goto, Reported, Estimate, NoUsage
<1>3. ~Streams' BY <1>2 DEF Streams
<1>4. Undecided' /\ RequestOpen' /\ Times("streamStarted")' = 0
  BY <1>2, SameTrace DEF RequestOpen
<1>5. OneOutcome' /\ ShownOnce' BY <1>2, <1>4, Unfinished
<1>6. StreamTold' /\ Fine' BY <1>2, <1>3, <1>4 DEF StreamTold, Fine, Displayed, Undecided
<1> QED BY <1>1, <1>2, <1>4, <1>5, <1>6 DEF ChatInv

\* Why a provider cannot be asked is one of the statuses of a failure.
LEMMA ReadyOrWhy ==
  ASSUME TypeOK
  PROVE  options.ready # "yes" => options.ready \in {"unconfigured", "error"}
BY DEF TypeOK, Options, Ready

LEMMA StepRefuseWhole == ASSUME ChatInv, RefuseWhole PROVE ChatInv'
<1>0. status' \in {"unconfigured", "error"} BY ReadyOrWhy DEF ChatInv, RefuseWhole
<1>1. TypeOK' BY <1>0 DEF ChatInv, TypeOK, RefuseWhole, Goto, Step
<1>2. /\ pc = "whole" /\ pc' = "answered" /\ status' \in {"unconfigured", "error"}
      /\ UNCHANGED <<options, sent, handled, noise, closed, shown, printed, trace, recorded>>
      /\ printed = 0
      /\ Undecided /\ Times("streamStarted") = 0 /\ RequestOpen
  BY <1>0 DEF ChatInv, RefuseWhole, Goto
<1>4. Undecided' /\ RequestOpen' /\ Times("streamStarted")' = 0
  BY <1>2, SameTrace DEF RequestOpen
<1>5. OneOutcome' /\ ShownOnce' BY <1>2, <1>4, Unfinished
<1>6. StreamTold' BY <1>2, <1>4 DEF StreamTold, Undecided
<1> QED BY <1>1, <1>2, <1>4, <1>5, <1>6 DEF ChatInv

\* What holds while the stream goes on.
Streaming ==
  /\ pc = "streaming" /\ Streams /\ status = "none" /\ printed = 0
  /\ Undecided /\ Times("streamStarted") = 1 /\ RequestOpen
  /\ chunks = Pieces(sent, handled) /\ Displayed /\ HoldsReport(usage, sent, handled)

LEMMA StillStreaming ==
  ASSUME TypeOK', Streaming'
  PROVE  ChatInv'
<1>1. OneOutcome' /\ ShownOnce' BY Unfinished DEF Streaming
<1> QED BY <1>1 DEF ChatInv, Streaming

LEMMA StepSend == ASSUME ChatInv, NEW kind \in LineKind, Send(kind) PROVE ChatInv'
<1>0. TypeOK /\ Streaming BY DEF ChatInv, Send, Streaming
<1>1. /\ sent' = Append(sent, kind) /\ sent \in Seq(LineKind) /\ handled \in 0..Len(sent)
      /\ UNCHANGED <<options, pc, handled, noise, closed, chunks, shown, printed, usage, status, trace, recorded>>
  BY <1>0 DEF TypeOK, Send
<1>2. /\ sent' \in Seq(LineKind) /\ Len(sent') = Len(sent) + 1
      /\ \A i \in 1..handled : sent'[i] = sent[i]
  BY <1>1
<1>3. TypeOK' BY <1>0, <1>1, <1>2 DEF TypeOK
<1>4. Pieces(sent, handled)' = Pieces(sent, handled)
  <2>1. {i \in 1..handled : sent'[i] \in {"text"}} = {i \in 1..handled : sent[i] \in {"text"}}
    BY <1>2
  <2> QED BY <1>1, <2>1 DEF Pieces
<1>5. HoldsReport(usage, sent, handled)'
  <2>1. \A i \in 1..handled : ReportOf(sent', i) = ReportOf(sent, i) BY <1>2 DEF ReportOf
  <2> QED BY <1>0, <1>1, <1>2, <2>1 DEF HoldsReport, Streaming
<1>6. Displayed' /\ Streams' BY <1>0, <1>1 DEF Displayed, Streams, HasWriter, Streaming
<1>7. Streaming'
  BY <1>0, <1>1, <1>4, <1>5, <1>6, SameTrace DEF Streaming, RequestOpen
<1> QED BY <1>3, <1>7, StillStreaming

\* Nothing but the connection and what waits to be read changes.
LEMMA StepAside ==
  ASSUME ChatInv, pc = "streaming" \/ pc = "whole",
         UNCHANGED <<options, pc, sent, handled, chunks, shown, printed, usage, status, trace,
                     recorded>>,
         noise' \in BOOLEAN, closed' \in {"open", "ended", "broken"}
  PROVE  ChatInv'
<1>0. TypeOK /\ printed = 0 BY DEF ChatInv
<1>1. TypeOK' BY <1>0 DEF TypeOK
<1>2. Streams' = Streams /\ HasWriter' = HasWriter BY DEF Streams, HasWriter
<1>3. CASE pc = "streaming"
  <2>0. Streaming BY <1>0, <1>3 DEF ChatInv, Streaming
  <2>1. Pieces(sent, handled)' = Pieces(sent, handled) /\ HoldsReport(usage, sent, handled)'
    BY <2>0 DEF Pieces, HoldsReport, Streaming
  <2>2. Displayed' BY <1>2, <2>0 DEF Displayed, Streaming
  <2>3. Streaming' BY <1>2, <2>0, <2>1, <2>2, SameTrace DEF Streaming, RequestOpen
  <2> QED BY <1>1, <2>3, StillStreaming
<1>4. CASE pc = "whole"
  <2>1. /\ ~Streams /\ status = "none" /\ chunks = 0 /\ shown = 0 /\ usage = NoUsage
        /\ Undecided /\ Times("streamStarted") = 0 /\ RequestOpen
    BY <1>4 DEF ChatInv
  <2>2. Undecided' /\ RequestOpen' /\ Times("streamStarted")' = 0
    BY <2>1, SameTrace DEF RequestOpen
  <2>3. OneOutcome' /\ ShownOnce' BY <1>4, <2>2, Unfinished
  <2> QED BY <1>0, <1>1, <1>2, <1>4, <2>1, <2>2, <2>3 DEF ChatInv
<1> QED BY <1>3, <1>4

LEMMA StepClose == ASSUME ChatInv, NEW how \in {"ended", "broken"}, Close(how) PROVE ChatInv'
BY StepAside DEF Close, ChatInv, TypeOK

LEMMA StepSendNoise == ASSUME ChatInv, SendNoise PROVE ChatInv'
BY StepAside DEF SendNoise, ChatInv, TypeOK

LEMMA StepTimeOut == ASSUME ChatInv, TimeOut PROVE ChatInv'
BY StepAside DEF TimeOut, ChatInv, TypeOK

LEMMA StepSkipLine == ASSUME ChatInv, SkipLine PROVE ChatInv'
BY StepAside DEF SkipLine, ChatInv, TypeOK

LEMMA StepTakeUsage == ASSUME ChatInv, TakeUsage PROVE ChatInv'
<1>0. TypeOK /\ Streaming BY DEF ChatInv, TakeUsage, NextLine, Streaming
<1>1. /\ handled < Len(sent) /\ handled' = handled + 1 /\ sent[handled + 1] \in Reports
      /\ usage' = ReportOf(sent, handled + 1) /\ handled \in Nat /\ Len(sent) \in Nat
      /\ UNCHANGED <<options, pc, sent, noise, closed, chunks, shown, printed, status, trace, recorded>>
  BY <1>0 DEF TypeOK, TakeUsage, NextLine
<1>2. TypeOK' BY <1>0, <1>1 DEF TypeOK, Usage, ReportOf, PromptOnly, Reported
<1>3. HoldsReport(usage, sent, handled)'
  <2>1. usage' = IF sent[handled + 1] \in Reports THEN ReportOf(sent, handled + 1) ELSE usage
    BY <1>1
  <2>2. HoldsReport(usage', sent, handled + 1) BY <1>0, <1>1, <2>1, ReportMoves DEF Streaming
  <2> QED BY <1>1, <2>2
<1>4. Pieces(sent, handled)' = Pieces(sent, handled)
  <2>1. Pieces(sent, handled + 1) = Pieces(sent, handled)
    <3>1. sent[handled + 1] \notin {"text"} BY <1>1 DEF Reports
    <3>2. /\ Pieces(sent, handled) \in Nat
          /\ Pieces(sent, handled + 1)
               = Pieces(sent, handled) + IF sent[handled + 1] \in {"text"} THEN 1 ELSE 0
      BY <1>1, PieceCounted
    <3> QED BY <3>1, <3>2
  <2>2. Pieces(sent, handled)' = Pieces(sent, handled + 1) BY <1>1 DEF Pieces
  <2> QED BY <2>1, <2>2
<1>5. Displayed' /\ Streams' BY <1>0, <1>1 DEF Displayed, Streams, HasWriter, Streaming
<1>7. Streaming'
  BY <1>0, <1>1, <1>3, <1>4, <1>5, SameTrace DEF Streaming, RequestOpen
<1> QED BY <1>2, <1>7, StillStreaming

\* An event that is none of the ends, added to the trace.
LEMMA StillUndecided ==
  ASSUME TypeOK, Undecided, NEW e \in Event \ Ends, trace' = Append(trace, e)
  PROVE  \A i \in 1..Len(trace') : trace'[i] \notin Ends
<1>1. trace \in Seq(Event) BY DEF TypeOK
<1>2. /\ Len(trace') = Len(trace) + 1 /\ trace'[Len(trace) + 1] = e
      /\ \A i \in 1..Len(trace) : trace'[i] = trace[i]
  BY <1>1
<1>3. Len(trace) \in Nat BY <1>1
<1>4. \A i \in 1..Len(trace') : i \in 1..Len(trace) \/ i = Len(trace) + 1 BY <1>2, <1>3
<1> QED BY <1>2, <1>4 DEF Undecided

LEMMA StepTakePiece == ASSUME ChatInv, TakePiece PROVE ChatInv'
<1>0. TypeOK /\ Streaming BY DEF ChatInv, TakePiece, NextLine, Streaming
<1>1. /\ handled < Len(sent) /\ handled' = handled + 1 /\ sent[handled + 1] \in {"text"}
      /\ chunks' = chunks + 1 /\ shown' = shown + (IF HasWriter THEN 1 ELSE 0)
      /\ handled \in Nat /\ Len(sent) \in Nat /\ chunks \in Nat /\ shown \in Nat
      /\ UNCHANGED <<options, pc, sent, noise, closed, printed, usage, status, recorded>>
      /\ trace \in Seq(Event) /\ "delta" \in Event /\ Log(<<"delta">>)
  BY <1>0 DEF TypeOK, TakePiece, NextLine, Event
<1>t. /\ trace' \in Seq(Event) /\ trace' = Append(trace, "delta")
      /\ \A e : Times(e)' = Times(e) + IF "delta" = e THEN 1 ELSE 0
  BY <1>1, TimesOne
<1>2. TypeOK' BY <1>0, <1>1, <1>t DEF TypeOK
<1>3. HoldsReport(usage, sent, handled)'
  <2>1. usage' = IF sent[handled + 1] \in Reports THEN ReportOf(sent, handled + 1) ELSE usage
    BY <1>1 DEF Reports
  <2>2. HoldsReport(usage', sent, handled + 1) BY <1>0, <1>1, <2>1, ReportMoves DEF Streaming
  <2> QED BY <1>1, <2>2
<1>4. chunks' = Pieces(sent, handled)'
  <2>1. Pieces(sent, handled + 1) = Pieces(sent, handled) + 1 BY <1>1, PieceCounted
  <2>2. Pieces(sent, handled)' = Pieces(sent, handled + 1) BY <1>1 DEF Pieces
  <2> QED BY <1>0, <1>1, <2>1, <2>2 DEF Streaming
<1>5. Streams' = Streams /\ HasWriter' = HasWriter BY <1>1 DEF Streams, HasWriter
<1>6. Displayed' BY <1>0, <1>1, <1>5 DEF Displayed, Streaming
<1>7. \A i \in 1..Len(trace') : trace'[i] \notin Ends
  <2>1. "delta" \in Event \ Ends BY DEF Event, Ends
  <2> QED BY <1>0, <1>t, <2>1, StillUndecided DEF Streaming
<1>8. \A e : e # "delta" => Times(e)' = Times(e)
  <2>1. \A e : Times(e) \in Nat BY <1>1, CountType DEF Times
  <2> QED BY <1>t, <2>1
<1>9. Undecided' /\ RequestOpen' /\ Times("streamStarted")' = 1
  BY <1>0, <1>1, <1>7, <1>8 DEF Undecided, RequestOpen, Streaming
<1>10. Streaming' BY <1>0, <1>1, <1>3, <1>4, <1>5, <1>6, <1>9 DEF Streaming
<1> QED BY <1>2, <1>10, StillStreaming

---------------------------------------------------------------------------
\* The outcome

\* No piece follows the end of the stream.
PiecesFirst ==
  \A i, j \in 1..Len(trace) : trace[i] = "delta" /\ trace[j] \in Ends => i < j

\* An event that is no piece keeps it so.
LEMMA PiecesStayFirst ==
  ASSUME NEW s \in Seq(Event), NEW e \in Event \ {"delta"},
         \A i, j \in 1..Len(s) : s[i] = "delta" /\ s[j] \in Ends => i < j
  PROVE  \A i, j \in 1..Len(Append(s, e)) :
           Append(s, e)[i] = "delta" /\ Append(s, e)[j] \in Ends => i < j
<1> DEFINE t == Append(s, e)
<1>1. /\ Len(t) = Len(s) + 1 /\ t[Len(s) + 1] = e /\ Len(s) \in Nat
      /\ \A i \in 1..Len(s) : t[i] = s[i]
  OBVIOUS
<1> HIDE DEF t
<1>2. SUFFICES ASSUME NEW i \in 1..Len(t), NEW j \in 1..Len(t), t[i] = "delta", t[j] \in Ends
               PROVE  i < j
  BY DEF t
<1>3. i \in 1..Len(s) BY <1>1, <1>2
<1>4. CASE j = Len(s) + 1 BY <1>1, <1>3, <1>4
<1>5. CASE j \in 1..Len(s) BY <1>1, <1>2, <1>3, <1>5
<1> QED BY <1>1, <1>4, <1>5

\* The events that one step of the outcome adds.
LEMMA OutcomeOne ==
  ASSUME ChatInv, NEW a \in Event \ {"delta"}, Log(<<a>>)
  PROVE  /\ trace' \in Seq(Event) /\ PiecesFirst'
         /\ \A e : Times(e) \in Nat /\ Times(e)' = Times(e) + IF a = e THEN 1 ELSE 0
<1>1. trace \in Seq(Event) /\ PiecesFirst BY DEF ChatInv, TypeOK, OneOutcome, PiecesFirst, Ends
<1>2. /\ trace' \in Seq(Event) /\ trace' = Append(trace, a)
      /\ \A e : Times(e)' = Times(e) + IF a = e THEN 1 ELSE 0
  BY <1>1, TimesOne
<1>3. \A e : Times(e) \in Nat BY <1>1, CountType DEF Times
<1>4. PiecesFirst'
  <2>1. \A i, j \in 1..Len(Append(trace, a)) :
          Append(trace, a)[i] = "delta" /\ Append(trace, a)[j] \in Ends => i < j
    BY <1>1, PiecesStayFirst DEF PiecesFirst
  <2> QED BY <1>2, <2>1 DEF PiecesFirst
<1> QED BY <1>2, <1>3, <1>4

LEMMA StepFailStream == ASSUME ChatInv, FailStream PROVE ChatInv'
<1>0. TypeOK /\ Streaming BY DEF ChatInv, FailStream, Streaming
<1>1. /\ status' \in {"unconfigured", "error"} /\ chunks' = 0 /\ usage' = NoUsage
      /\ pc' = "answered" /\ Log(<<"streamFailed">>)
      /\ UNCHANGED <<options, sent, handled, noise, closed, shown, printed, recorded>>
  BY <1>0, ReadyOrWhy DEF FailStream, Goto
<1>2. "streamFailed" \in Event \ {"delta"} BY DEF Event
<1>3. /\ trace' \in Seq(Event) /\ PiecesFirst'
      /\ \A e : Times(e)' = Times(e) + IF "streamFailed" = e THEN 1 ELSE 0
  BY <1>1, <1>2, OutcomeOne
<1>4. TypeOK' BY <1>0, <1>1, <1>3 DEF TypeOK, Step, Usage, NoUsage
<1>5. /\ Times("streamFailed")' = 1 /\ Times("streamCompleted")' = 0
      /\ Times("streamStarted")' = 1
      /\ Times("requestCompleted")' = 0 /\ Times("requestFailed")' = 0
  BY <1>0, <1>3 DEF Streaming, Undecided, RequestOpen
<1>6. StreamTold' /\ RequestOpen'
  BY <1>0, <1>1, <1>5 DEF StreamTold, RequestOpen, Streaming
<1>7. OneOutcome' BY <1>1, <1>3, <1>5, <1>6 DEF OneOutcome, RequestOpen, PiecesFirst, Ends
<1> QED BY <1>0, <1>1, <1>4, <1>6, <1>7 DEF ChatInv, ShownOnce, Streaming

LEMMA StepEndStream == ASSUME ChatInv, EndStream PROVE ChatInv'
<1>0. TypeOK /\ Streaming BY DEF ChatInv, EndStream, Streaming
<1>1. /\ handled = Len(sent) /\ status' = "ok"
      /\ usage' = (IF usage = NoUsage THEN Estimate(chunks) ELSE usage)
      /\ pc' = "answered" /\ Log(<<"streamCompleted">>)
      /\ UNCHANGED <<options, sent, handled, noise, closed, chunks, shown, printed, recorded>>
  BY DEF EndStream, AllRead, Goto
<1>2. "streamCompleted" \in Event \ {"delta"} BY DEF Event
<1>3. /\ trace' \in Seq(Event) /\ PiecesFirst'
      /\ \A e : Times(e)' = Times(e) + IF "streamCompleted" = e THEN 1 ELSE 0
  BY <1>1, <1>2, OutcomeOne
<1>4. TypeOK' BY <1>0, <1>1, <1>3 DEF TypeOK, Step, Usage, NoUsage, Estimate
<1>5. /\ Times("streamFailed")' = 0 /\ Times("streamCompleted")' = 1
      /\ Times("streamStarted")' = 1
      /\ Times("requestCompleted")' = 0 /\ Times("requestFailed")' = 0
  BY <1>0, <1>3 DEF Streaming, Undecided, RequestOpen
<1>6. StreamTold' /\ RequestOpen'
  BY <1>0, <1>1, <1>5 DEF StreamTold, RequestOpen, Streaming
<1>7. OneOutcome' BY <1>1, <1>3, <1>5, <1>6 DEF OneOutcome, RequestOpen, PiecesFirst, Ends
<1>8. chunks = Count(sent, {"text"}) BY <1>0, <1>1, PiecesOfAll DEF Streaming
<1>9. usage' = StreamUsage /\ usage' # NoUsage
  <2>1. HoldsReport(usage, sent, Len(sent)) BY <1>0, <1>1 DEF Streaming
  <2> QED BY <1>0, <1>1, <1>8, <2>1, ReportOfAll DEF Estimate, NoUsage
<1>10. Fine'
  <2>1. StreamUsage' = StreamUsage /\ Streams' = Streams /\ HasWriter' = HasWriter
    BY <1>1 DEF StreamUsage, Streams, HasWriter
  <2>2. Count(sent, {"text"})' = Count(sent, {"text"}) BY <1>1 DEF Count
  <2>3. Displayed' BY <1>0, <1>1, <2>1 DEF Displayed, Streaming
  <2> QED BY <1>1, <1>5, <1>8, <1>9, <2>1, <2>2, <2>3 DEF Fine
<1> QED BY <1>0, <1>1, <1>4, <1>6, <1>7, <1>10 DEF ChatInv, ShownOnce, Streaming

\* What the steps after the answer leave alone.
LEMMA FineStays ==
  ASSUME Fine, UNCHANGED <<options, sent, chunks, shown, usage>>,
         Times("streamFailed")' = Times("streamFailed")
  PROVE  Fine' /\ StreamUsage' = StreamUsage /\ Streams' = Streams
<1>1. StreamUsage' = StreamUsage /\ Streams' = Streams /\ HasWriter' = HasWriter
  BY DEF StreamUsage, Streams, HasWriter
<1>2. Count(sent, {"text"})' = Count(sent, {"text"}) BY DEF Count
<1>3. Displayed' BY <1>1 DEF Displayed, Fine
<1> QED BY <1>1, <1>2, <1>3 DEF Fine

LEMMA StepRecordUsage == ASSUME ChatInv, RecordUsage PROVE ChatInv'
<1>1. /\ pc = "answered" /\ pc' = "recorded" /\ status = "ok" /\ recorded' = usage
      /\ UNCHANGED <<options, sent, handled, noise, closed, chunks, shown, printed, usage, status, trace>>
      /\ TypeOK /\ StreamTold /\ RequestOpen /\ Fine /\ PiecesFirst /\ printed = 0
  BY DEF ChatInv, RecordUsage, Goto, OneOutcome, PiecesFirst, Ends
<1>2. TypeOK' BY <1>1 DEF TypeOK, Step
<1>3. \A e : Times(e)' = Times(e) BY <1>1, SameTrace
<1>4. Fine' BY <1>1, <1>3, FineStays
<1>5. StreamTold' BY <1>1, <1>3 DEF StreamTold
<1>6. OneOutcome' BY <1>1, <1>3 DEF OneOutcome, PiecesFirst, Ends, RequestOpen, Fine
<1> QED BY <1>1, <1>2, <1>3, <1>4, <1>5, <1>6 DEF ChatInv, ShownOnce, RequestOpen

LEMMA StepLogFailed == ASSUME ChatInv, LogFailed PROVE ChatInv'
<1>1. /\ pc = "answered" /\ pc' = "returned" /\ status # "ok" /\ Log(<<"requestFailed">>)
      /\ UNCHANGED <<options, sent, handled, noise, closed, chunks, shown, printed, usage, status, recorded>>
      /\ TypeOK /\ StreamTold /\ RequestOpen /\ printed = 0
  BY DEF ChatInv, LogFailed, Goto
<1>2. "requestFailed" \in Event \ {"delta"} BY DEF Event
<1>3. /\ trace' \in Seq(Event) /\ PiecesFirst'
      /\ \A e : Times(e)' = Times(e) + IF "requestFailed" = e THEN 1 ELSE 0
      /\ \A e : Times(e) \in Nat
  BY <1>1, <1>2, OutcomeOne
<1>4. TypeOK' BY <1>1, <1>3 DEF TypeOK, Step
<1>5. /\ Times("requestFailed")' = 1 /\ Times("requestCompleted")' = 0
      /\ Times("streamCompleted")' = Times("streamCompleted")
      /\ Times("streamFailed")' = Times("streamFailed")
      /\ Times("streamStarted")' = Times("streamStarted")
  BY <1>1, <1>3 DEF RequestOpen
<1>6. OneOutcome' BY <1>1, <1>3, <1>5 DEF OneOutcome, PiecesFirst, Ends, RequestOpen, StreamTold
<1> QED BY <1>1, <1>4, <1>6 DEF ChatInv, ShownOnce

LEMMA StepLogCompleted == ASSUME ChatInv, LogCompleted PROVE ChatInv'
<1> DEFINE more == IF options.context = "found" THEN <<"contextSent">> ELSE <<>>
           two == trace \o <<"requestCompleted", "usageUpdated">>
<1>1. /\ pc = "recorded" /\ pc' = "returned" /\ status = "ok" /\ recorded = usage
      /\ Log(<<"requestCompleted", "usageUpdated">> \o more)
      /\ UNCHANGED <<options, sent, handled, noise, closed, chunks, shown, printed, usage, status, recorded>>
      /\ TypeOK /\ StreamTold /\ Fine /\ PiecesFirst /\ printed = 0
      /\ Times("requestCompleted") = 0 /\ Times("requestFailed") = 0
  BY DEF ChatInv, LogCompleted, Goto, OneOutcome, PiecesFirst, Ends
<1>2. /\ "requestCompleted" \in Event \ {"delta"} /\ "usageUpdated" \in Event \ {"delta"}
      /\ "contextSent" \in Event \ {"delta"} /\ trace \in Seq(Event)
  BY <1>1 DEF Event, TypeOK
<1>3. /\ two \in Seq(Event)
      /\ two = Append(Append(trace, "requestCompleted"), "usageUpdated")
      /\ \A K : Count(two, K) = Count(trace, K) + (IF "requestCompleted" \in K THEN 1 ELSE 0)
                                                + (IF "usageUpdated" \in K THEN 1 ELSE 0)
  BY <1>2, CountTwo
<1>4. \A i, j \in 1..Len(two) : two[i] = "delta" /\ two[j] \in Ends => i < j
  <2> DEFINE one == Append(trace, "requestCompleted")
  <2>1. one \in Seq(Event) BY <1>2
  <2>2. \A i, j \in 1..Len(one) : one[i] = "delta" /\ one[j] \in Ends => i < j
    BY <1>1, <1>2, PiecesStayFirst DEF PiecesFirst
  <2> HIDE DEF one
  <2>3. \A i, j \in 1..Len(Append(one, "usageUpdated")) :
          Append(one, "usageUpdated")[i] = "delta" /\ Append(one, "usageUpdated")[j] \in Ends => i < j
    BY <1>2, <2>1, <2>2, PiecesStayFirst
  <2> QED BY <1>3, <2>3 DEF one
<1>5. trace' = IF options.context = "found" THEN Append(two, "contextSent") ELSE two
  <2>1. trace' = trace \o (<<"requestCompleted", "usageUpdated">> \o more) BY <1>1 DEF Log
  <2>2. <<"requestCompleted", "usageUpdated">> \in Seq(Event) BY <1>2
  <2>3. CASE options.context = "found"
    <3>1. <<"contextSent">> \in Seq(Event) /\ more = <<"contextSent">> BY <1>2, <2>3
    <3>2. trace' = two \o <<"contextSent">> BY <1>2, <2>1, <2>2, <3>1
    <3> HIDE DEF two
    <3>3. two \o <<"contextSent">> = Append(two, "contextSent") BY <1>2, <1>3
    <3> QED BY <2>3, <3>2, <3>3
  <2>4. CASE options.context # "found"
    <3>1. <<"requestCompleted", "usageUpdated">> \o more = <<"requestCompleted", "usageUpdated">>
      BY <2>2, <2>4
    <3> QED BY <2>1, <2>4, <3>1
  <2> QED BY <2>3, <2>4
<1> HIDE DEF two
<1>6. /\ trace' \in Seq(Event) /\ PiecesFirst'
      /\ \A e : e # "contextSent" => Count(trace', {e}) = Count(two, {e})
  <2>1. CASE options.context = "found"
    <3>1. \A i, j \in 1..Len(Append(two, "contextSent")) :
            Append(two, "contextSent")[i] = "delta" /\ Append(two, "contextSent")[j] \in Ends => i < j
      BY <1>2, <1>3, <1>4, PiecesStayFirst
    <3>2. Append(two, "contextSent") \in Seq(Event) BY <1>2, <1>3
    <3>3. ASSUME NEW e, e # "contextSent" PROVE Count(trace', {e}) = Count(two, {e})
      <4>0. two \in Seq(Event) /\ "contextSent" \in Event BY <1>2, <1>3
      <4>1. Count(Append(two, "contextSent"), {e})
              = Count(two, {e}) + IF "contextSent" \in {e} THEN 1 ELSE 0
        BY <4>0, CountAppend
      <4>2. Count(two, {e}) \in Nat BY <1>3, CountType
      <4>3. "contextSent" \notin {e} BY <3>3
      <4>4. trace' = Append(two, "contextSent") BY <1>5, <2>1
      <4> QED BY <4>1, <4>2, <4>3, <4>4
    <3>4. PiecesFirst' BY <1>5, <2>1, <3>1 DEF PiecesFirst
    <3> QED BY <1>5, <2>1, <3>2, <3>3, <3>4
  <2>2. CASE options.context # "found" BY <1>3, <1>4, <1>5, <2>2 DEF PiecesFirst
  <2> QED BY <2>1, <2>2
<1>7. TypeOK' BY <1>1, <1>6 DEF TypeOK, Step
<1>8. /\ Times("requestFailed")' = 0 /\ Times("requestCompleted")' = 1
      /\ Times("streamCompleted")' = Times("streamCompleted")
      /\ Times("streamFailed")' = Times("streamFailed")
      /\ Times("streamStarted")' = Times("streamStarted")
  <2>1. \A e : Times(e) \in Nat BY <1>2, CountType DEF Times
  <2>2. \A e : e \notin {"contextSent", "usageUpdated"} =>
                 Times(e)' = Times(e) + IF e = "requestCompleted" THEN 1 ELSE 0
    <3> SUFFICES ASSUME NEW e, e \notin {"contextSent", "usageUpdated"}
                 PROVE  Times(e)' = Times(e) + IF e = "requestCompleted" THEN 1 ELSE 0
      OBVIOUS
    <3>1. Count(trace', {e}) = Count(two, {e}) BY <1>6
    <3>2. Count(two, {e}) = Count(trace, {e}) + (IF "requestCompleted" \in {e} THEN 1 ELSE 0)
                                              + (IF "usageUpdated" \in {e} THEN 1 ELSE 0)
      BY <1>3
    <3>3. "usageUpdated" \notin {e} /\ ("requestCompleted" \in {e} <=> e = "requestCompleted")
      OBVIOUS
    <3>4. Count(trace, {e}) \in Nat BY <2>1 DEF Times
    <3>5. Count(trace', {e}) = Count(trace, {e}) + IF e = "requestCompleted" THEN 1 ELSE 0
      <4> HIDE DEF Count
      <4> QED BY <3>1, <3>2, <3>3, <3>4
    <3> QED BY <3>5 DEF Times
  <2> QED BY <1>1, <2>1, <2>2
<1>9. Fine' /\ StreamUsage' = StreamUsage /\ Streams' = Streams BY <1>1, <1>8, FineStays
<1>10. OneOutcome'
  BY <1>1, <1>6, <1>8, <1>9 DEF OneOutcome, PiecesFirst, Ends, StreamTold, Fine
<1> QED BY <1>1, <1>7, <1>9, <1>10 DEF ChatInv, ShownOnce

LEMMA StepDisplay == ASSUME ChatInv, Display PROVE ChatInv'
<1>1. /\ pc = "returned" /\ pc' = "done"
      /\ printed' = printed + (IF CommandPrints \/ TurnPrints THEN 1 ELSE 0)
      /\ UNCHANGED <<options, sent, handled, noise, closed, chunks, shown, usage, status, trace, recorded>>
      /\ TypeOK /\ OneOutcome /\ printed = 0 /\ (status = "ok" => Fine)
  BY DEF ChatInv, Display, Goto
<1>2. TypeOK' BY <1>1 DEF TypeOK, Step
<1>3. \A e : Times(e)' = Times(e) BY <1>1, SameTrace
<1>4. StreamUsage' = StreamUsage /\ Streams' = Streams /\ HasWriter' = HasWriter
  BY <1>1 DEF StreamUsage, Streams, HasWriter
<1>5. OneOutcome' BY <1>1, <1>3, <1>4 DEF OneOutcome
<1>6. ShownOnce'
  <2>1. Count(sent, {"text"})' = Count(sent, {"text"}) BY <1>1 DEF Count
  <2>2. options.face \in Face BY <1>1 DEF TypeOK, Options
  <2>3. CASE status = "ok"
    <3>1. Displayed /\ (Streams => chunks = Count(sent, {"text"})) BY <1>1, <2>3 DEF Fine
    <3> QED BY <1>1, <1>4, <2>1, <2>2, <2>3, <3>1
        DEF ShownOnce, Displayed, CommandPrints, TurnPrints, HasWriter, Face
  <2>4. CASE status # "ok" BY <1>1, <2>4 DEF ShownOnce
  <2> QED BY <2>3, <2>4
<1> QED BY <1>1, <1>2, <1>5, <1>6 DEF ChatInv

LEMMA StepRaise == ASSUME ChatInv, Raise PROVE ChatInv'
<1>1. /\ pc' = "raised" /\ pc # "done"
      /\ UNCHANGED <<options, sent, handled, noise, closed, chunks, shown, printed, usage, status, trace, recorded>>
      /\ TypeOK /\ OneOutcome /\ printed = 0
  BY DEF ChatInv, Raise, Goto
<1>2. TypeOK' BY <1>1 DEF TypeOK, Step
<1>3. \A e : Times(e)' = Times(e) BY <1>1, SameTrace
<1>4. StreamUsage' = StreamUsage /\ Streams' = Streams BY <1>1 DEF StreamUsage, Streams
<1>5. OneOutcome' BY <1>1, <1>3, <1>4 DEF OneOutcome
<1> QED BY <1>1, <1>2, <1>5 DEF ChatInv, ShownOnce

---------------------------------------------------------------------------
LEMMA StepStutter == ASSUME ChatInv, UNCHANGED vars PROVE ChatInv'
<1>1. UNCHANGED <<options, pc, sent, handled, noise, closed, chunks, shown, printed, usage, status, trace, recorded>>
  BY DEF vars
<1>2. \A e : Times(e)' = Times(e) BY <1>1, SameTrace
<1>3. /\ Streams' = Streams /\ HasWriter' = HasWriter /\ StreamUsage' = StreamUsage
      /\ Pieces(sent, handled)' = Pieces(sent, handled)
      /\ HoldsReport(usage, sent, handled)' = HoldsReport(usage, sent, handled)
      /\ Count(sent, {"text"})' = Count(sent, {"text"})
  BY <1>1 DEF Streams, HasWriter, StreamUsage, Pieces, HoldsReport, Count
<1>4. Displayed' = Displayed /\ Undecided' = Undecided BY <1>1, <1>2, <1>3 DEF Displayed, Undecided
<1>5. OneOutcome' /\ ShownOnce' BY <1>1, <1>2, <1>3 DEF ChatInv, OneOutcome, ShownOnce
<1>6. TypeOK' BY <1>1 DEF ChatInv, TypeOK
<1>7. /\ StreamTold' = StreamTold /\ RequestOpen' = RequestOpen /\ Fine' = Fine
  BY <1>1, <1>2, <1>3, <1>4 DEF StreamTold, RequestOpen, Fine
<1> QED BY <1>1, <1>2, <1>3, <1>4, <1>5, <1>6, <1>7 DEF ChatInv

LEMMA ChatStep == ChatInv /\ [Next]_vars => ChatInv'
<1> SUFFICES ASSUME ChatInv, [Next]_vars PROVE ChatInv'
  OBVIOUS
<1>1. CASE Provider BY <1>1, StepSend, StepSendNoise, StepClose DEF Provider, Sends
<1>2. CASE Adapter
  BY <1>2, StepTakePiece, StepTakeUsage, StepSkipLine, StepFailStream, StepEndStream DEF Adapter
<1>3. CASE Chat
  BY <1>2, <1>3, StepStart, StepAnswerWhole, StepRefuseWhole, StepRecordUsage, StepLogCompleted,
     StepLogFailed, StepDisplay DEF Chat
<1>4. CASE Raise BY <1>4, StepRaise
<1>5. CASE UNCHANGED vars BY <1>5, StepStutter
<1>6. CASE TimeOut BY <1>6, StepTimeOut
<1> QED BY <1>1, <1>2, <1>3, <1>4, <1>5, <1>6 DEF Next

\* The components are of their types for streams of any length.
THEOREM TypeCorrect == Spec => []TypeOK
<1>1. ChatInv => TypeOK BY DEF ChatInv
<1> QED BY <1>1, ChatInitially, ChatStep, PTL DEF Spec

\* A request has one outcome in its trace and the usage record agrees with it and with the
\* last report of the stream, with counts or without, for streams of any length that end or
\* break anywhere (chat_once, _complete_streaming, stream_event_from_line).
THEOREM OutcomeIsOne == Spec => []OneOutcome
<1>1. ChatInv => OneOutcome BY DEF ChatInv
<1> QED BY <1>1, ChatInitially, ChatStep, PTL DEF Spec

\* The user sees an answer once, in pieces or as a whole, and all of it
\* (chat_once_command, _handle_message).
THEOREM AnswerIsShownOnce == Spec => []ShownOnce
<1>1. ChatInv => ShownOnce BY DEF ChatInv
<1> QED BY <1>1, ChatInitially, ChatStep, PTL DEF Spec
=============================================================================
