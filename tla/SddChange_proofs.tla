--------------------------- MODULE SddChange_proofs ---------------------------
(***************************************************************************)
(* Proofs about SddChange, for any processes, templates and phases.        *)
(***************************************************************************)
EXTENDS SddChange, FiniteSetTheorems, TLAPS

\* The templates and phases are those of the two sequences.
LEMMA PhaseFacts ==
  /\ Len(Phases) \in Nat /\ Len(Phases) > 1
  /\ Phases[1] \in Phase /\ Archive \in Phase
  /\ Phases[1] # Archive
  /\ \A phase \in Phase : /\ Index(phase) \in 1..Len(Phases) /\ Phases[Index(phase)] = phase
<1>1. /\ Phases \in Seq(STRING) /\ Len(Phases) > 1 /\ Len(Phases) \in Nat
      /\ DOMAIN Phases = 1..Len(Phases)
      /\ \A i, j \in DOMAIN Phases : Phases[i] = Phases[j] => i = j
  BY PhaseAssumption
<1>2. Phases[1] \in Phase /\ Archive \in Phase BY <1>1 DEF Phase, Archive
<1>3. Phases[1] # Archive BY <1>1 DEF Archive
<1>4. ASSUME NEW phase \in Phase
      PROVE  Index(phase) \in 1..Len(Phases) /\ Phases[Index(phase)] = phase
  <2>1. \E i \in DOMAIN Phases : Phases[i] = phase BY DEF Phase
  <2> QED BY <1>1, <2>1 DEF Index
<1> QED BY <1>1, <1>2, <1>3, <1>4

\* A new change is well-formed, and advancing keeps a change well-formed.
LEMMA NewType == New \in Metadata
BY PhaseFacts DEF New, Metadata

LEMMA AdvancedType ==
  ASSUME NEW m \in Metadata, NEW phase \in Phase
  PROVE  Advanced(m, phase) \in Metadata
<1>1. m.history \in Seq(Phase) BY DEF Metadata
<1>2. Append(m.history, phase) \in Seq(Phase) BY <1>1
<1> QED BY <1>2 DEF Advanced, Metadata

\* Type correctness.  A process that fills a template is at one of them.
TypeInv ==
  /\ TypeOK
  /\ \A p \in Proc : pc[p] = "fill" => position[p] <= Len(Templates)

LEMMA TemplateFacts ==
  /\ Len(Templates) \in Nat /\ DOMAIN Templates = 1..Len(Templates)
  /\ \A i \in 1..Len(Templates) : Templates[i] \in Template
BY TemplateAssumption

LEMMA TypeInit == Init => TypeInv
<1> SUFFICES ASSUME Init PROVE TypeInv
  OBVIOUS
<1>1. 1 \in 1..(Len(Templates) + 1) BY TemplateFacts
<1>2. position \in [Proc -> 1..(Len(Templates) + 1)] BY <1>1 DEF Init
<1>3. /\ pc \in [Proc -> Steps] /\ again \in [Proc -> BOOLEAN]
      /\ template \in [Template -> {"none", "blank", "full"}]
      /\ metadata \in Metadata \cup {NoFile, Torn}
      /\ overlap \in BOOLEAN /\ between \in BOOLEAN
      /\ commands \in Nat /\ crashes \in Nat /\ skips \in Nat
  BY DEF Init, Steps
<1>4. target \in [Proc -> Phase] /\ copy \in [Proc -> Metadata]
  BY PhaseFacts, NewType DEF Init
<1>5. \A p \in Proc : pc[p] # "fill" BY DEF Init
<1> QED BY <1>2, <1>3, <1>4, <1>5 DEF TypeInv, TypeOK

LEMMA TypeStep == TypeInv /\ [Next]_vars => TypeInv'
<1> SUFFICES ASSUME TypeInv, [Next]_vars PROVE TypeInv'
  OBVIOUS
<1> USE PhaseFacts, TemplateFacts DEF TypeInv, TypeOK, Goto, Steps, Begin
<1>1. CASE UNCHANGED vars
  BY <1>1 DEF vars, locals
<1>2. ASSUME NEW p \in Proc, StartCreate(p) PROVE TypeInv'
  BY <1>2 DEF StartCreate
<1>3. ASSUME NEW p \in Proc, CreateTemplate(p) PROVE TypeInv'
  <2> DEFINE f == Templates[position[p]]
  <2>1. position[p] \in 1..Len(Templates) /\ f \in Template BY <1>3 DEF CreateTemplate
  <2>2. /\ metadata' = metadata /\ target' = target /\ again' = again /\ copy' = copy
        /\ commands' = commands /\ crashes' = crashes /\ skips' = skips
        /\ overlap' = overlap /\ between' = between
    BY <1>3 DEF CreateTemplate
  <2>3. CASE template[f] = "none"
    <3>1. /\ template' = [template EXCEPT ![f] = "blank"] /\ pc' = [pc EXCEPT ![p] = "fill"]
          /\ position' = position
      BY <1>3, <2>3 DEF CreateTemplate
    <3> HIDE DEF f
    <3> QED BY <2>1, <2>2, <3>1
  <2>4. CASE template[f] # "none"
    <3>1. /\ template' = template /\ pc' = pc /\ pc[p] = "create"
          /\ position' = [position EXCEPT ![p] = position[p] + 1]
      BY <1>3, <2>4 DEF CreateTemplate
    <3>2. position[p] + 1 \in 1..(Len(Templates) + 1) BY <2>1
    <3> QED BY <2>2, <3>1, <3>2
  <2> QED BY <2>3, <2>4
<1>4. ASSUME NEW p \in Proc, FillTemplate(p) PROVE TypeInv'
  BY <1>4 DEF FillTemplate
<1>5. ASSUME NEW p \in Proc, CreateMetadata(p) PROVE TypeInv'
  BY <1>5, NewType DEF CreateMetadata
<1>6. ASSUME NEW p \in Proc, NEW phase \in Phase, StartAdvance(p, phase) PROVE TypeInv'
  BY <1>6 DEF StartAdvance
<1>7. ASSUME NEW p \in Proc, NEW phase \in Phase, NEW archiving \in BOOLEAN,
             StartForced(p, phase, archiving)
      PROVE  TypeInv'
  BY <1>7 DEF StartForced
<1>8. ASSUME NEW p \in Proc, ReadForAdvance(p) PROVE TypeInv'
  <2>1. metadata \in Metadata BY <1>8 DEF ReadForAdvance, Whole
  <2>2. Advanced(metadata, target[p]) \in Metadata BY <2>1, AdvancedType
  <2> QED BY <1>8, <2>2 DEF ReadForAdvance
<1>9. ASSUME NEW p \in Proc, ReadForArchive(p) PROVE TypeInv'
  <2>1. metadata \in Metadata BY <1>9 DEF ReadForArchive, Whole
  <2>2. [metadata EXCEPT !.archived = TRUE, !.phase = Archive] \in Metadata
    BY <2>1 DEF Metadata
  <2>3. between' \in BOOLEAN BY <1>9 DEF ReadForArchive
  <2> QED BY <1>9, <2>2, <2>3 DEF ReadForArchive
<1>10. ASSUME NEW p \in Proc, Reject(p) PROVE TypeInv'
  BY <1>10 DEF Reject
<1>11. ASSUME NEW p \in Proc, OpenMetadata(p) PROVE TypeInv'
  <2>1. overlap' \in BOOLEAN BY <1>11 DEF OpenMetadata
  <2> QED BY <1>11, <2>1 DEF OpenMetadata
<1>12. ASSUME NEW p \in Proc, WriteMetadata(p) PROVE TypeInv'
  <2>1. metadata' \in {copy[p], Torn} BY <1>12 DEF WriteMetadata, Overwritten
  <2> QED BY <1>12, <2>1 DEF WriteMetadata
<1>13. ASSUME NEW p \in Proc, Crash(p) PROVE TypeInv'
  BY <1>13 DEF Crash
<1> QED BY <1>1, <1>2, <1>3, <1>4, <1>5, <1>6, <1>7, <1>8, <1>9, <1>10, <1>11, <1>12,
           <1>13 DEF Next

\* The files of a change and its processes keep their types.
THEOREM TypeCorrect == Spec => []TypeOK
<1>1. TypeInv => TypeOK BY DEF TypeInv
<1> QED BY TypeInit, TypeStep, <1>1, PTL DEF Spec

---------------------------------------------------------------------------
\* One story.  It is told by metadata.json and by every copy about to be written; an
\* archive_change between its writes has written the last phase.
Tells(m, b) ==
  /\ m.archived <=> m.phase = Archive
  /\ m.history # << >> /\ m.history[1] = Phases[1]
  /\ Last(m.history) = m.phase \/ (m.archived /\ b)

Told ==
  /\ Whole(metadata) => Tells(metadata, between)
  /\ \A p \in Proc :
       /\ pc[p] \in {"create", "fill"} => ~again[p]
       /\ pc[p] \in {"open", "write"} => Tells(copy[p], between)
       /\ again[p] /\ pc[p] \in {"check", "read"} => target[p] = Archive
       /\ again[p] /\ pc[p] \in {"open", "write"} => copy[p].phase = Archive
       /\ pc[p] = "reread" => copy[p].phase = Archive

LEMMA ToldInit == Init => Told
BY DEF Init, Told, Whole

LEMMA NewTells == \A b \in BOOLEAN : Tells(New, b)
BY PhaseFacts DEF Tells, New, Last

LEMMA TellsOn == \A m, b, c : Tells(m, b) /\ (b => c) => Tells(m, c)
BY DEF Tells

\* An advance goes on with the story; the exception does not arise in it.
LEMMA AdvancedTells ==
  ASSUME NEW m \in Metadata, NEW b, NEW c, Tells(m, b), NEW phase \in Phase
  PROVE  Tells(Advanced(m, phase), c)
<1> DEFINE h == Append(m.history, phase)
<1>1. m.history \in Seq(Phase) /\ m.history # << >> /\ m.history[1] = Phases[1]
  BY DEF Metadata, Tells
<1>2. Len(m.history) \in Nat /\ Len(m.history) > 0
  BY <1>1
<1>3. /\ Len(h) = Len(m.history) + 1 /\ h[Len(h)] = phase
      /\ h[1] = m.history[1] /\ h # << >>
  BY <1>1, <1>2
<1>4. /\ Advanced(m, phase).history = h /\ Advanced(m, phase).phase = phase
      /\ (Advanced(m, phase).archived <=> phase = Archive)
  BY DEF Advanced
<1> HIDE DEF h
<1> QED BY <1>1, <1>3, <1>4 DEF Tells, Last

\* The second write of archive_change archives what it read.
Rearchived(m) == [m EXCEPT !.archived = TRUE, !.phase = Archive]

LEMMA RearchivedTells ==
  ASSUME NEW m \in Metadata, NEW b, NEW c, Tells(m, b), b => c,
         c \/ m.phase = Archive
  PROVE  Tells(Rearchived(m), c)
<1> DEFINE r == Rearchived(m)
<1>1. r.archived = TRUE /\ r.phase = Archive /\ r.history = m.history
  BY DEF Metadata, Rearchived
<1>2. m.history # << >> /\ m.history[1] = Phases[1]
  BY DEF Tells
<1>3. Last(m.history) = Archive \/ c
  BY DEF Tells
<1> HIDE DEF r
<1>4. Tells(r, c) BY <1>1, <1>2, <1>3 DEF Tells
<1> QED BY <1>4 DEF r

\* A process that goes on to write puts nothing else but its own copy at stake.
LEMMA ToldStep == TypeInv /\ Told /\ [Next]_vars => Told'
<1> SUFFICES ASSUME TypeInv, Told, [Next]_vars PROVE Told'
  OBVIOUS
<1>1. /\ pc \in [Proc -> Steps] /\ again \in [Proc -> BOOLEAN] /\ target \in [Proc -> Phase]
      /\ copy \in [Proc -> Metadata] /\ metadata \in Metadata \cup {NoFile, Torn}
      /\ between \in BOOLEAN
  BY DEF TypeInv, TypeOK
<1> USE DEF Goto, Steps, Begin
<1>3. CASE UNCHANGED vars
  BY <1>3 DEF vars, locals, Told, Whole
<1>4. ASSUME NEW p \in Proc, StartCreate(p) \/ CreateTemplate(p) \/ FillTemplate(p) PROVE Told'
  BY <1>1, <1>4 DEF StartCreate, CreateTemplate, FillTemplate, Told, Whole
<1>5. ASSUME NEW p \in Proc, CreateMetadata(p) PROVE Told'
  <2>1. Tells(New, between) BY <1>1, NewTells
  <2> QED BY <1>1, <1>5, <2>1 DEF CreateMetadata, Told, Whole
<1>6. ASSUME NEW p \in Proc, NEW phase \in Phase, StartAdvance(p, phase) PROVE Told'
  BY <1>1, <1>6 DEF StartAdvance, Told, Whole
<1>7. ASSUME NEW p \in Proc, NEW phase \in Phase, NEW archiving \in BOOLEAN,
             StartForced(p, phase, archiving)
      PROVE  Told'
  BY <1>1, <1>7 DEF StartForced, Told, Whole
<1>8. ASSUME NEW p \in Proc, ReadForAdvance(p) PROVE Told'
  <2>1. metadata \in Metadata /\ Tells(metadata, between)
    BY <1>1, <1>8 DEF ReadForAdvance, Whole, Told
  <2>2. Tells(Advanced(metadata, target[p]), between)
    <3>1. target[p] \in Phase BY <1>1
    <3> QED BY <2>1, <3>1, AdvancedTells
  <2>3. Advanced(metadata, target[p]).phase = target[p] BY DEF Advanced
  <2> QED BY <1>1, <1>8, <2>2, <2>3 DEF ReadForAdvance, Told, Whole
<1>9. ASSUME NEW p \in Proc, ReadForArchive(p) PROVE Told'
  <2>1. metadata \in Metadata /\ Tells(metadata, between)
    BY <1>1, <1>9 DEF ReadForArchive, Whole, Told
  <2>2. /\ between' = (between \/ metadata # copy[p]) /\ metadata' = metadata
        /\ copy' = [copy EXCEPT ![p] = Rearchived(metadata)] /\ target' = target
        /\ again' = [again EXCEPT ![p] = FALSE] /\ pc' = [pc EXCEPT ![p] = "open"]
        /\ copy[p].phase = Archive
    BY <1>9 DEF ReadForArchive, Rearchived, Told
  <2>3. between' \/ metadata.phase = Archive BY <2>2
  <2>4. between => between' BY <2>2
  <2>5. Tells(Rearchived(metadata), between') BY <2>1, <2>4, <2>3, RearchivedTells
  <2>6. Tells(metadata, between') BY <2>1, <2>4, TellsOn
  <2>7. Tells(metadata', between') BY <2>2, <2>6, Zenon
  <2>8. ASSUME NEW q \in Proc
        PROVE  /\ pc'[q] \in {"create", "fill"} => ~again'[q]
               /\ pc'[q] \in {"open", "write"} => Tells(copy'[q], between')
               /\ again'[q] /\ pc'[q] \in {"check", "read"} => target'[q] = Archive
               /\ again'[q] /\ pc'[q] \in {"open", "write"} => copy'[q].phase = Archive
               /\ pc'[q] = "reread" => copy'[q].phase = Archive
    <3>1. CASE q = p
      BY <1>1, <2>2, <2>5, <3>1
    <3>2. CASE q # p
      <4>1. /\ copy'[q] = copy[q] /\ pc'[q] = pc[q] /\ again'[q] = again[q]
            /\ target'[q] = target[q]
        BY <1>1, <2>2, <3>2
      <4>2. pc[q] \in {"open", "write"} => Tells(copy[q], between')
        <5>1. pc[q] \in {"open", "write"} => Tells(copy[q], between) BY DEF Told
        <5> QED BY <2>4, <5>1, TellsOn
      <4> QED BY <4>1, <4>2 DEF Told
    <3> QED BY <3>1, <3>2
  <2> QED BY <2>7, <2>8 DEF Told
<1>10. ASSUME NEW p \in Proc, Reject(p) \/ Crash(p) PROVE Told'
  BY <1>1, <1>10 DEF Reject, Crash, Told, Whole
<1>11. ASSUME NEW p \in Proc, OpenMetadata(p) PROVE Told'
  BY <1>1, <1>11 DEF OpenMetadata, Told, Whole
<1>12. ASSUME NEW p \in Proc, WriteMetadata(p) PROVE Told'
  <2>1. metadata' \in {copy[p], Torn} BY <1>12 DEF WriteMetadata, Overwritten
  <2>2. Tells(copy[p], between) BY <1>12 DEF WriteMetadata, Told
  <2>3. again[p] => copy[p].phase = Archive BY <1>12 DEF WriteMetadata, Told
  <2> QED BY <1>1, <1>12, <2>1, <2>2, <2>3 DEF WriteMetadata, Told, Whole
<1>13. Archive \in Phase BY PhaseFacts
<1> HIDE DEF Goto, Steps, Begin
<1>14. ASSUME NEW p \in Proc,
              \/ StartCreate(p) \/ CreateTemplate(p) \/ FillTemplate(p) \/ CreateMetadata(p)
              \/ \E phase \in Phase : StartAdvance(p, phase) \/ StartForced(p, phase, FALSE)
              \/ StartForced(p, Archive, TRUE)
              \/ ReadForAdvance(p) \/ ReadForArchive(p) \/ Reject(p)
              \/ OpenMetadata(p) \/ WriteMetadata(p) \/ Crash(p)
       PROVE  Told'
  BY <1>4, <1>5, <1>6, <1>7, <1>8, <1>9, <1>10, <1>11, <1>12, <1>13, <1>14
<1> QED BY <1>3, <1>14 DEF Next

\* Phase, archived flag and history of a change agree, whichever commands wrote them.
THEOREM StoryHolds == Spec => []OneStory
<1>1. Told => OneStory BY DEF Told, Tells, OneStory
<1> QED BY TypeInit, TypeStep, ToldInit, ToldStep, <1>1, PTL DEF Spec

---------------------------------------------------------------------------
\* Creation.  A process has all templates before the one it is at behind it, and it
\* opens metadata.json when all of them are there.
AllThere == \A f \in Template : template[f] # "none"

Prepared ==
  /\ metadata # NoFile => AllThere
  /\ \A p \in Proc : pc[p] \in {"open", "write"} => AllThere
  /\ \A p \in Proc : pc[p] \in {"create", "fill"} =>
       \A i \in 1..Len(Templates) : i < position[p] => template[Templates[i]] # "none"

LEMMA PreparedInit == Init => Prepared
<1> SUFFICES ASSUME Init PROVE Prepared
  OBVIOUS
<1>1. metadata = NoFile /\ \A p \in Proc : pc[p] = "idle" BY DEF Init
<1> QED BY <1>1 DEF Prepared

\* Templates do not disappear: what was there still is.
LEMMA PreparedStep == TypeInv /\ Prepared /\ [Next]_vars => Prepared'
<1> SUFFICES ASSUME TypeInv, Prepared, [Next]_vars PROVE Prepared'
  OBVIOUS
<1>1. /\ pc \in [Proc -> Steps] /\ template \in [Template -> {"none", "blank", "full"}]
      /\ position \in [Proc -> 1..(Len(Templates) + 1)]
  BY DEF TypeInv, TypeOK
<1>2. CASE UNCHANGED vars
  BY <1>2 DEF vars, locals, Prepared, AllThere
<1> USE DEF Goto, Begin
<1>3. ASSUME NEW p \in Proc, StartCreate(p) PROVE Prepared'
  <2>1. /\ pc' = [pc EXCEPT ![p] = "create"] /\ position' = [position EXCEPT ![p] = 1]
        /\ template' = template /\ metadata' = metadata
    BY <1>3 DEF StartCreate
  <2>2. \A i \in 1..Len(Templates) : ~(i < 1) BY TemplateFacts
  <2> QED BY <1>1, <2>1, <2>2 DEF Prepared, AllThere
<1>4. ASSUME NEW p \in Proc, CreateTemplate(p) PROVE Prepared'
  <2>1. /\ metadata' = metadata /\ pc[p] = "create"
        /\ position[p] \in 1..Len(Templates)
        /\ Templates[position[p]] \in Template
    BY <1>1, <1>4, TemplateFacts DEF CreateTemplate
  <2>2. CASE template[Templates[position[p]]] = "none"
    <3>1. /\ template' = [template EXCEPT ![Templates[position[p]]] = "blank"]
          /\ pc' = [pc EXCEPT ![p] = "fill"] /\ position' = position
      BY <1>4, <2>2 DEF CreateTemplate
    <3>2. \A f \in Template : template[f] # "none" => template'[f] # "none"
      BY <1>1, <2>1, <3>1
    <3> QED BY <1>1, <2>1, <3>1, <3>2, TemplateFacts DEF Prepared, AllThere
  <2>3. CASE template[Templates[position[p]]] # "none"
    <3>1. /\ template' = template /\ pc' = pc
          /\ position' = [position EXCEPT ![p] = position[p] + 1]
      BY <1>4, <2>3 DEF CreateTemplate
    <3>2. \A i \in 1..Len(Templates) : i < position[p] + 1 => i < position[p] \/ i = position[p]
      BY <2>1
    <3> QED BY <1>1, <2>1, <2>3, <3>1, <3>2 DEF Prepared, AllThere
  <2> QED BY <2>2, <2>3
<1>5. ASSUME NEW p \in Proc, FillTemplate(p) PROVE Prepared'
  <2>1. /\ metadata' = metadata /\ pc[p] = "fill" /\ pc' = [pc EXCEPT ![p] = "create"]
        /\ template' = [template EXCEPT ![Templates[position[p]]] = "full"]
        /\ position' = [position EXCEPT ![p] = position[p] + 1]
        /\ position[p] \in 1..Len(Templates)
        /\ Templates[position[p]] \in Template
    BY <1>1, <1>5, TemplateFacts DEF FillTemplate, TypeInv
  <2>2. /\ \A f \in Template : template[f] # "none" => template'[f] # "none"
        /\ template'[Templates[position[p]]] # "none"
    BY <1>1, <2>1
  <2>3. \A i \in 1..Len(Templates) : i < position[p] + 1 => i < position[p] \/ i = position[p]
    BY <2>1
  <2> QED BY <1>1, <2>1, <2>2, <2>3, TemplateFacts DEF Prepared, AllThere
<1>6. ASSUME NEW p \in Proc, CreateMetadata(p) PROVE Prepared'
  <2>1. /\ pc[p] = "create" /\ position[p] > Len(Templates)
        /\ pc' = [pc EXCEPT ![p] = IF metadata = NoFile THEN "open" ELSE "idle"]
        /\ template' = template /\ metadata' = metadata /\ position' = position
    BY <1>6 DEF CreateMetadata
  <2>2. \A i \in 1..Len(Templates) : i < position[p] BY <1>1, <2>1, TemplateFacts
  <2>3. \A i \in 1..Len(Templates) : template[Templates[i]] # "none"
    BY <2>1, <2>2 DEF Prepared
  <2>4. AllThere BY <2>3, TemplateFacts DEF AllThere, Template
  <2> QED BY <1>1, <2>1, <2>4 DEF Prepared, AllThere
<1>7. ASSUME NEW p \in Proc, ReadForAdvance(p) \/ ReadForArchive(p) PROVE Prepared'
  <2>1. /\ metadata # NoFile /\ metadata' = metadata /\ template' = template
        /\ pc' = [pc EXCEPT ![p] = "open"] /\ position' = position
    BY <1>7 DEF ReadForAdvance, ReadForArchive, Whole
  <2> QED BY <1>1, <2>1 DEF Prepared, AllThere
<1>8. ASSUME NEW p \in Proc, OpenMetadata(p) \/ WriteMetadata(p) PROVE Prepared'
  <2>1. /\ pc[p] \in {"open", "write"} /\ template' = template /\ position' = position
        /\ pc' \in [Proc -> Steps] /\ \A q \in Proc \ {p} : pc'[q] = pc[q]
        /\ pc'[p] \in {"write", "reread", "idle"}
    BY <1>1, <1>8 DEF OpenMetadata, WriteMetadata, Steps
  <2>2. AllThere BY <2>1 DEF Prepared
  <2> QED BY <2>1, <2>2 DEF Prepared, AllThere
<1>9. ASSUME NEW p \in Proc, Reject(p) \/ Crash(p) \/ (\E phase \in Phase : StartAdvance(p, phase))
             \/ (\E phase \in Phase, archiving \in BOOLEAN : StartForced(p, phase, archiving))
      PROVE  Prepared'
  <2>1. /\ template' = template /\ position' = position /\ metadata' = metadata
        /\ \A q \in Proc \ {p} : pc'[q] = pc[q]
        /\ pc'[p] \in {"idle", "check", "read"}
    BY <1>1, <1>9 DEF Reject, Crash, StartAdvance, StartForced
  <2> QED BY <2>1 DEF Prepared, AllThere
<1>10. Archive \in Phase BY PhaseFacts
<1> HIDE DEF Goto, Begin
<1>11. ASSUME Next PROVE Prepared'
  <2>1. PICK p \in Proc :
          \/ StartCreate(p) \/ CreateTemplate(p) \/ FillTemplate(p) \/ CreateMetadata(p)
          \/ \E phase \in Phase : StartAdvance(p, phase) \/ StartForced(p, phase, FALSE)
          \/ StartForced(p, Archive, TRUE)
          \/ ReadForAdvance(p) \/ ReadForArchive(p) \/ Reject(p)
          \/ OpenMetadata(p) \/ WriteMetadata(p) \/ Crash(p)
    BY <1>11 DEF Next
  <2> QED BY <1>3, <1>4, <1>5, <1>6, <1>7, <1>8, <1>9, <1>10, <2>1
<1> QED BY <1>2, <1>11

\* A change that has a metadata.json has all its template files, however its creation
\* was interrupted or raced.
THEOREM FilesFirst == Spec => []ListedHasFiles
<1>1. Prepared => ListedHasFiles BY DEF Prepared, AllThere, ListedHasFiles
<1> QED BY TypeInit, TypeStep, PreparedInit, PreparedStep, <1>1, PTL DEF Spec

---------------------------------------------------------------------------
\* Unreadable metadata.  Without an overlap there is one writer, who truncated the file
\* and has not yet written it; without a kill it will.
OneWriter ==
  ~overlap =>
    /\ \A p, q \in Proc : Writing(p) /\ Writing(q) => p = q
    /\ \A p \in Proc : Writing(p) => metadata = Torn
    /\ crashes = 0 /\ metadata = Torn => \E p \in Proc : Writing(p)

LEMMA OneWriterInit == Init => OneWriter
BY FileAssumption DEF Init, OneWriter, Writing

LEMMA OneWriterStep == TypeInv /\ OneWriter /\ [Next]_vars => OneWriter'
<1> SUFFICES ASSUME TypeInv, OneWriter, [Next]_vars, ~overlap' PROVE OneWriter'
  BY DEF OneWriter
<1>1. pc \in [Proc -> Steps] /\ copy \in [Proc -> Metadata] /\ crashes \in Nat
  BY DEF TypeInv, TypeOK
<1>2. CASE UNCHANGED vars
  BY <1>2 DEF vars, locals, OneWriter, Writing
\* Most steps leave the file and the writers alone.
<1>3. ASSUME NEW p \in Proc, metadata' = metadata, overlap' = overlap, crashes' = crashes,
             \A q \in Proc \ {p} : pc'[q] = pc[q], ~Writing(p), pc'[p] # "write"
      PROVE  OneWriter'
  BY <1>3 DEF OneWriter, Writing
<1> USE DEF Goto, Begin
<1>4. ASSUME NEW p \in Proc,
             \/ StartCreate(p) \/ CreateTemplate(p) \/ FillTemplate(p) \/ CreateMetadata(p)
             \/ ReadForAdvance(p) \/ ReadForArchive(p) \/ Reject(p)
             \/ \E phase \in Phase : StartAdvance(p, phase)
             \/ \E phase \in Phase, archiving \in BOOLEAN : StartForced(p, phase, archiving)
      PROVE  OneWriter'
  <2>1. metadata' = metadata /\ overlap' = overlap /\ crashes' = crashes
    BY <1>4 DEF StartCreate, CreateTemplate, FillTemplate, CreateMetadata, ReadForAdvance,
                ReadForArchive, Reject, StartAdvance, StartForced
  <2>2. /\ \A q \in Proc \ {p} : pc'[q] = pc[q]
        /\ pc[p] # "write" /\ pc'[p] # "write"
    BY <1>1, <1>4 DEF StartCreate, CreateTemplate, FillTemplate, CreateMetadata, ReadForAdvance,
                      ReadForArchive, Reject, StartAdvance, StartForced
  <2> QED BY <1>3, <2>1, <2>2 DEF Writing
<1>5. ASSUME NEW p \in Proc, OpenMetadata(p) PROVE OneWriter'
  <2>1. /\ metadata' = Torn /\ pc' = [pc EXCEPT ![p] = "write"] /\ crashes' = crashes
    BY <1>5 DEF OpenMetadata
  <2>2. \A q \in Proc \ {p} : ~Writing(q) BY <1>5 DEF OpenMetadata
  <2> QED BY <1>1, <2>1, <2>2 DEF OneWriter, Writing
<1>6. ASSUME NEW p \in Proc, WriteMetadata(p) PROVE OneWriter'
  <2>1. /\ metadata' \in Overwritten(metadata, copy[p]) /\ Writing(p)
        /\ \A q \in Proc \ {p} : pc'[q] = pc[q]
        /\ pc'[p] # "write" /\ overlap' = overlap
    BY <1>1, <1>6 DEF WriteMetadata, Writing
  <2>2. ~overlap BY <2>1
  <2>3. metadata = Torn BY <2>1, <2>2 DEF OneWriter
  <2>4. metadata' = copy[p] BY <2>1, <2>3 DEF Overwritten, Whole
  <2>5. metadata' # Torn BY <1>1, <2>4, FileAssumption
  <2>6. \A q \in Proc \ {p} : ~Writing(q) BY <2>1, <2>2 DEF OneWriter
  <2> QED BY <2>1, <2>5, <2>6 DEF OneWriter, Writing
<1>7. ASSUME NEW p \in Proc, Crash(p) PROVE OneWriter'
  <2>1. /\ metadata' = metadata /\ crashes' = crashes + 1 /\ overlap' = overlap
        /\ pc' = [pc EXCEPT ![p] = "idle"]
    BY <1>7 DEF Crash
  <2>2. crashes' # 0 BY <1>1, <2>1
  <2> QED BY <1>1, <2>1, <2>2 DEF OneWriter, Writing
<1>8. Archive \in Phase BY PhaseFacts
<1> HIDE DEF Goto, Begin
<1>9. ASSUME Next PROVE OneWriter'
  <2>1. PICK p \in Proc :
          \/ StartCreate(p) \/ CreateTemplate(p) \/ FillTemplate(p) \/ CreateMetadata(p)
          \/ \E phase \in Phase : StartAdvance(p, phase) \/ StartForced(p, phase, FALSE)
          \/ StartForced(p, Archive, TRUE)
          \/ ReadForAdvance(p) \/ ReadForArchive(p) \/ Reject(p)
          \/ OpenMetadata(p) \/ WriteMetadata(p) \/ Crash(p)
    BY <1>9 DEF Next
  <2> QED BY <1>4, <1>5, <1>6, <1>7, <1>8, <2>1
<1> QED BY <1>2, <1>9

\* metadata.json stays unreadable only because of a kill or of two writers at once.
THEOREM TornNeedsCause == Spec => []TornHasCause
<1>1. TypeInv /\ OneWriter => TornHasCause
  <2>1. TypeInv => crashes \in Nat BY DEF TypeInv, TypeOK
  <2> QED BY <2>1 DEF OneWriter, TornHasCause, Writing
<1> QED BY TypeInit, TypeStep, OneWriterInit, OneWriterStep, <1>1, PTL DEF Spec

---------------------------------------------------------------------------
\* Order.  A command that was forced and has not read the metadata yet still has its
\* skip to spend: what any metadata has spent and what is pending were all forced.
Pending == {p \in Proc : pc[p] = "read"}
Spent(m) == Cardinality(OutOfOrder(m.history))

Ordered ==
  /\ IsFiniteSet(Pending)
  /\ Cardinality(Pending) <= skips
  /\ Whole(metadata) => Spent(metadata) + Cardinality(Pending) <= skips
  /\ \A p \in Proc : pc[p] \in {"open", "write"} => Spent(copy[p]) + Cardinality(Pending) <= skips

LEMMA FiniteOutOfOrder ==
  \A history \in Seq(Phase) : /\ IsFiniteSet(OutOfOrder(history))
                              /\ Cardinality(OutOfOrder(history)) \in Nat
<1> SUFFICES ASSUME NEW history \in Seq(Phase)
             PROVE  IsFiniteSet(OutOfOrder(history)) /\ Cardinality(OutOfOrder(history)) \in Nat
  OBVIOUS
<1>1. Len(history) \in Nat OBVIOUS
<1>2. IsFiniteSet(2..Len(history)) BY <1>1, FS_Interval
<1>3. OutOfOrder(history) \subseteq 2..Len(history) BY DEF OutOfOrder
<1>4. IsFiniteSet(OutOfOrder(history)) BY <1>2, <1>3, FS_Subset
<1> QED BY <1>4, FS_CardinalityType

LEMMA SpentType == \A m \in Metadata : Spent(m) \in Nat
BY FiniteOutOfOrder DEF Spent, Metadata

\* Advancing spends one skip at most, and none when the phase is the next one of a
\* history that ends with the current phase.
LEMMA AdvancedSpends ==
  ASSUME NEW m \in Metadata, NEW phase \in Phase, m.history # << >>
  PROVE  /\ Spent(Advanced(m, phase)) <= Spent(m) + 1
         /\ Last(m.history) = m.phase /\ IsNext(m.phase, phase) =>
              Spent(Advanced(m, phase)) <= Spent(m)
<1> DEFINE h == m.history
           n == Len(m.history) + 1
           a == Append(m.history, phase)
<1>1. h \in Seq(Phase) /\ a \in Seq(Phase) /\ h # << >> BY DEF Metadata
<1>2. n \in Nat /\ n > 1 /\ Len(h) = n - 1 /\ Len(a) = n /\ a[n] = phase
  BY <1>1
<1>3. \A i \in 1..Len(h) : a[i] = h[i] BY <1>1
<1>4. Advanced(m, phase).history = a BY DEF Advanced
<1>5. a[n - 1] = Last(h) BY <1>1, <1>2, <1>3 DEF Last
<1>6. Index(a[n]) # Index(a[n - 1]) + 1 => OutOfOrder(a) \subseteq OutOfOrder(h) \cup {n}
  BY <1>1, <1>2, <1>3 DEF OutOfOrder
<1>7. Index(a[n]) = Index(a[n - 1]) + 1 => OutOfOrder(a) \subseteq OutOfOrder(h)
  BY <1>1, <1>2, <1>3 DEF OutOfOrder
<1>8. IsFiniteSet(OutOfOrder(h)) /\ Cardinality(OutOfOrder(h)) \in Nat
  BY <1>1, FiniteOutOfOrder
<1>9. IsFiniteSet(OutOfOrder(a)) /\ Cardinality(OutOfOrder(a)) \in Nat
  BY <1>1, FiniteOutOfOrder
<1>10. IsFiniteSet(OutOfOrder(h) \cup {n})
       /\ Cardinality(OutOfOrder(h) \cup {n}) \in Nat
       /\ Cardinality(OutOfOrder(h) \cup {n}) <= Cardinality(OutOfOrder(h)) + 1
  <2> DEFINE o == OutOfOrder(h)
  <2>1. /\ IsFiniteSet(o \cup {n})
        /\ Cardinality(o \cup {n}) = IF n \in o THEN Cardinality(o) ELSE Cardinality(o) + 1
    BY <1>8, FS_AddElement
  <2>2. Cardinality(o) \in Nat BY <1>8
  <2> HIDE DEF o
  <2>3. Cardinality(o \cup {n}) \in Nat /\ Cardinality(o \cup {n}) <= Cardinality(o) + 1
    BY <2>1, <2>2
  <2> QED BY <2>1, <2>3 DEF o
<1>11. Cardinality(OutOfOrder(a)) <= Cardinality(OutOfOrder(h) \cup {n})
  <2>1. OutOfOrder(a) \subseteq OutOfOrder(h) \cup {n} BY <1>6, <1>7
  <2> QED BY <2>1, <1>10, FS_Subset
<1>12. OutOfOrder(a) \subseteq OutOfOrder(h) =>
         Cardinality(OutOfOrder(a)) <= Cardinality(OutOfOrder(h))
  BY <1>8, FS_Subset
<1>13. Last(m.history) = m.phase /\ IsNext(m.phase, phase) =>
         Index(a[n]) = Index(a[n - 1]) + 1
  BY <1>2, <1>5 DEF IsNext
<1>14. Spent(Advanced(m, phase)) = Cardinality(OutOfOrder(a)) /\ Spent(m) = Cardinality(OutOfOrder(h))
  BY <1>4 DEF Spent
<1> HIDE DEF h, n, a
<1>15. Cardinality(OutOfOrder(a)) <= Cardinality(OutOfOrder(h)) + 1 BY <1>8, <1>9, <1>10, <1>11
<1> QED BY <1>7, <1>12, <1>13, <1>14, <1>15

\* No phase follows the last one, so only a history that ends with the current phase
\* advances in order.
LEMMA NextIsTold ==
  ASSUME NEW m \in Metadata, NEW b, Tells(m, b), NEW phase \in Phase, IsNext(m.phase, phase)
  PROVE  Last(m.history) = m.phase
<1>1. /\ Index(Archive) \in 1..Len(Phases) /\ Phases[Index(Archive)] = Archive
      /\ Index(phase) \in 1..Len(Phases)
  BY PhaseFacts
<1>2. Archive = Phases[Len(Phases)] BY DEF Archive
<1>3. Index(Archive) = Len(Phases)
  <2>1. \A i, j \in DOMAIN Phases : Phases[i] = Phases[j] => i = j BY PhaseAssumption
  <2>2. DOMAIN Phases = 1..Len(Phases) BY PhaseAssumption
  <2>3. Len(Phases) \in 1..Len(Phases) BY PhaseFacts
  <2> QED BY <1>1, <1>2, <2>1, <2>2, <2>3
<1>4. Index(phase) # Index(Archive) + 1 BY <1>1, <1>3, PhaseFacts
<1>5. m.phase # Archive BY <1>4 DEF IsNext
<1> QED BY <1>5 DEF Tells

LEMMA OrderedInit == Init => Ordered
<1> SUFFICES ASSUME Init PROVE Ordered
  OBVIOUS
<1>1. Pending = {} BY DEF Init, Pending
<1>2. metadata = NoFile /\ skips = 0 /\ \A p \in Proc : pc[p] = "idle" BY DEF Init
<1> QED BY <1>1, <1>2, FS_EmptySet DEF Ordered, Whole

\* No step spends more than is pending: a forced advance turns its pending skip into
\* the one step out of order that its copy may hold, and the others spend nothing.
LEMMA OrderedStep == TypeInv /\ Told /\ Ordered /\ [Next]_vars => Ordered'
<1> SUFFICES ASSUME TypeInv, Told, Ordered, [Next]_vars PROVE Ordered'
  OBVIOUS
<1>1. /\ pc \in [Proc -> Steps] /\ copy \in [Proc -> Metadata] /\ target \in [Proc -> Phase]
      /\ metadata \in Metadata \cup {NoFile, Torn} /\ skips \in Nat
  BY DEF TypeInv, TypeOK
<1>2. IsFiniteSet(Pending) /\ Cardinality(Pending) \in Nat
  BY FS_CardinalityType DEF Ordered
<1>3. CASE UNCHANGED vars
  <2>1. /\ Pending' = Pending /\ metadata' = metadata /\ skips' = skips /\ pc' = pc
        /\ copy' = copy
    BY <1>3 DEF vars, locals, Pending
  <2> QED BY <2>1 DEF Ordered, Whole, Spent
\* A process that does not come to read what it may skip.
<1>4. ASSUME NEW p \in Proc, \A q \in Proc \ {p} : pc'[q] = pc[q], pc'[p] # "read"
      PROVE  /\ IsFiniteSet(Pending') /\ Cardinality(Pending') \in Nat
             /\ Cardinality(Pending') <= Cardinality(Pending)
             /\ pc[p] = "read" => Cardinality(Pending') = Cardinality(Pending) - 1
  <2>1. Pending' = Pending \ {p} BY <1>4 DEF Pending
  <2>2. pc[p] = "read" <=> p \in Pending BY <1>4 DEF Pending
  <2>3. IsFiniteSet(Pending') /\ Cardinality(Pending') \in Nat
    BY <1>2, <2>1, FS_RemoveElement, FS_CardinalityType
  <2>4. Cardinality(Pending') = IF p \in Pending THEN Cardinality(Pending) - 1 ELSE Cardinality(Pending)
    BY <1>2, <2>1, FS_RemoveElement
  <2> QED BY <1>2, <2>2, <2>3, <2>4
<1>5. ASSUME NEW p \in Proc, \A q \in Proc \ {p} : pc'[q] = pc[q], pc'[p] # "read",
             skips' = skips, metadata' = metadata \/ metadata' = Torn,
             \A q \in Proc \ {p} : copy'[q] = copy[q],
             pc'[p] \in {"open", "write"} => Spent(copy'[p]) + Cardinality(Pending') <= skips
      PROVE  Ordered'
  <2>1. /\ IsFiniteSet(Pending') /\ Cardinality(Pending') \in Nat
        /\ Cardinality(Pending') <= Cardinality(Pending)
    BY <1>4, <1>5
  <2>2. Cardinality(Pending') <= skips' BY <1>1, <1>2, <1>5, <2>1 DEF Ordered
  <2>3. ASSUME Whole(metadata)' PROVE Spent(metadata') + Cardinality(Pending') <= skips'
    <3>1. metadata' = metadata /\ metadata \in Metadata /\ Whole(metadata)
      BY <1>1, <1>5, <2>3 DEF Whole
    <3>2. Spent(metadata) \in Nat BY <3>1, SpentType
    <3>3. Spent(metadata) + Cardinality(Pending) <= skips BY <3>1 DEF Ordered
    <3> QED BY <1>1, <1>2, <1>5, <2>1, <3>1, <3>2, <3>3
  <2>4. ASSUME NEW q \in Proc, pc'[q] \in {"open", "write"}
        PROVE  Spent(copy'[q]) + Cardinality(Pending') <= skips'
    <3>1. CASE q = p BY <1>5, <2>4, <3>1
    <3>2. CASE q # p
      <4>1. pc[q] \in {"open", "write"} /\ copy'[q] = copy[q] BY <1>5, <2>4, <3>2
      <4>2. Spent(copy[q]) + Cardinality(Pending) <= skips BY <4>1 DEF Ordered
      <4>3. Spent(copy[q]) \in Nat BY <1>1, SpentType
      <4> QED BY <1>1, <1>2, <1>5, <2>1, <4>1, <4>2, <4>3
    <3> QED BY <3>1, <3>2
  <2>5. Spent(metadata)' = Spent(metadata') /\ \A q \in Proc : Spent(copy[q])' = Spent(copy'[q])
    BY DEF Spent, OutOfOrder
  <2> QED BY <2>1, <2>2, <2>3, <2>4, <2>5 DEF Ordered
<1> USE DEF Goto, Begin
<1>6. ASSUME NEW p \in Proc,
             \/ StartCreate(p) \/ CreateTemplate(p) \/ FillTemplate(p) \/ Reject(p) \/ Crash(p)
             \/ \E phase \in Phase : StartAdvance(p, phase)
      PROVE  Ordered'
  <2>1. /\ metadata' = metadata /\ copy' = copy /\ skips' = skips
        /\ \A q \in Proc \ {p} : pc'[q] = pc[q]
        /\ pc'[p] \notin {"read", "open", "write"}
    BY <1>1, <1>6 DEF StartCreate, CreateTemplate, FillTemplate, Reject, Crash, StartAdvance
  <2> QED BY <1>5, <2>1
<1>7. ASSUME NEW p \in Proc, CreateMetadata(p) PROVE Ordered'
  <2>1. /\ metadata' = metadata /\ skips' = skips /\ copy' = [copy EXCEPT ![p] = New]
        /\ \A q \in Proc \ {p} : pc'[q] = pc[q]
        /\ pc'[p] \in {"open", "idle"}
    BY <1>1, <1>7 DEF CreateMetadata
  <2>2. OutOfOrder(New.history) = {} BY DEF OutOfOrder, New
  <2>3. Spent(New) = 0 BY <2>2, FS_EmptySet DEF Spent
  <2>4. copy'[p] = New /\ \A q \in Proc \ {p} : copy'[q] = copy[q] BY <1>1, <2>1
  <2>5. Cardinality(Pending') \in Nat /\ Cardinality(Pending') <= Cardinality(Pending)
    BY <1>4, <2>1
  <2>6. Spent(copy'[p]) + Cardinality(Pending') <= skips
    BY <1>1, <1>2, <2>3, <2>4, <2>5 DEF Ordered
  <2> QED BY <1>5, <2>1, <2>4, <2>6
<1>8. ASSUME NEW p \in Proc, NEW phase \in Phase, NEW archiving \in BOOLEAN,
             StartForced(p, phase, archiving)
      PROVE  Ordered'
  <2>1. /\ metadata' = metadata /\ copy' = copy /\ skips' = skips + 1
        /\ pc' = [pc EXCEPT ![p] = "read"] /\ pc[p] = "idle"
    BY <1>8 DEF StartForced
  <2>2. Pending' = Pending \cup {p} /\ p \notin Pending BY <1>1, <2>1 DEF Pending
  <2>3. IsFiniteSet(Pending') /\ Cardinality(Pending') = Cardinality(Pending) + 1
    BY <1>2, <2>2, FS_AddElement
  <2>4. ASSUME NEW m \in Metadata, Spent(m) + Cardinality(Pending) <= skips
        PROVE  Spent(m) + Cardinality(Pending') <= skips'
    BY <1>1, <1>2, <2>1, <2>3, <2>4, SpentType
  <2>5. Cardinality(Pending') <= skips' BY <1>1, <1>2, <2>1, <2>3 DEF Ordered
  <2>6. ASSUME Whole(metadata)' PROVE Spent(metadata') + Cardinality(Pending') <= skips'
    <3>1. metadata' = metadata /\ metadata \in Metadata /\ Whole(metadata)
      BY <1>1, <2>1, <2>6 DEF Whole
    <3> QED BY <2>4, <3>1 DEF Ordered
  <2>7. ASSUME NEW q \in Proc, pc'[q] \in {"open", "write"}
        PROVE  Spent(copy'[q]) + Cardinality(Pending') <= skips'
    <3>1. pc[q] \in {"open", "write"} /\ copy'[q] = copy[q] /\ copy[q] \in Metadata
      BY <1>1, <2>1, <2>7
    <3> QED BY <2>4, <3>1 DEF Ordered
  <2>8. Spent(metadata)' = Spent(metadata') /\ \A q \in Proc : Spent(copy[q])' = Spent(copy'[q])
    BY DEF Spent, OutOfOrder
  <2> QED BY <2>3, <2>5, <2>6, <2>7, <2>8 DEF Ordered
<1>9. ASSUME NEW p \in Proc, ReadForAdvance(p) PROVE Ordered'
  <2> DEFINE m == Advanced(metadata, target[p])
  <2>1. /\ metadata' = metadata /\ skips' = skips /\ copy' = [copy EXCEPT ![p] = m]
        /\ pc' = [pc EXCEPT ![p] = "open"] /\ Whole(metadata)
        /\ pc[p] = "read" \/ IsNext(metadata.phase, target[p])
    BY <1>9 DEF ReadForAdvance
  <2>2. metadata \in Metadata /\ Tells(metadata, between) /\ target[p] \in Phase
    BY <1>1, <2>1 DEF Whole, Told
  <2>3. Spent(metadata) + Cardinality(Pending) <= skips /\ Spent(metadata) \in Nat
    BY <2>1, <2>2, SpentType DEF Ordered
  <2>4. m \in Metadata BY <2>2, AdvancedType
  <2>5. Spent(m) \in Nat BY <2>4, SpentType
  <2>6. (\A q \in Proc \ {p} : pc'[q] = pc[q]) /\ pc'[p] # "read" BY <1>1, <2>1
  <2>7. /\ Cardinality(Pending') \in Nat
        /\ Cardinality(Pending') <= Cardinality(Pending)
        /\ pc[p] = "read" => Cardinality(Pending') = Cardinality(Pending) - 1
    BY <1>4, <2>6
  <2>8. metadata.history # << >> BY <2>2 DEF Tells
  <2>9. Spent(m) + Cardinality(Pending') <= skips
    <3>1. CASE pc[p] = "read"
      <4>1. Spent(m) <= Spent(metadata) + 1 BY <2>2, <2>8, AdvancedSpends
      <4> HIDE DEF m
      <4> QED BY <1>1, <1>2, <2>3, <2>5, <2>7, <3>1, <4>1
    <3>2. CASE IsNext(metadata.phase, target[p])
      <4>1. Last(metadata.history) = metadata.phase BY <2>2, <3>2, NextIsTold
      <4>2. Spent(m) <= Spent(metadata) BY <2>2, <2>8, <3>2, <4>1, AdvancedSpends
      <4> HIDE DEF m
      <4> QED BY <1>1, <1>2, <2>3, <2>5, <2>7, <4>2
    <3> QED BY <2>1, <3>1, <3>2
  <2> HIDE DEF m
  <2>10. copy'[p] = m /\ \A q \in Proc \ {p} : copy'[q] = copy[q] BY <1>1, <2>1
  <2> QED BY <1>5, <2>1, <2>6, <2>9, <2>10
<1>10. ASSUME NEW p \in Proc, ReadForArchive(p) PROVE Ordered'
  <2> DEFINE m == Rearchived(metadata)
  <2>1. /\ metadata' = metadata /\ skips' = skips /\ copy' = [copy EXCEPT ![p] = m]
        /\ pc' = [pc EXCEPT ![p] = "open"] /\ Whole(metadata)
    BY <1>10 DEF ReadForArchive, Rearchived
  <2>2. metadata \in Metadata BY <1>1, <2>1 DEF Whole
  <2>3. m.history = metadata.history BY <2>2 DEF Rearchived, Metadata
  <2>4. Spent(m) = Spent(metadata) /\ Spent(metadata) \in Nat BY <2>2, <2>3, SpentType DEF Spent
  <2>5. (\A q \in Proc \ {p} : pc'[q] = pc[q]) /\ pc'[p] # "read" BY <1>1, <2>1
  <2>6. Cardinality(Pending') \in Nat /\ Cardinality(Pending') <= Cardinality(Pending)
    BY <1>4, <2>5
  <2> HIDE DEF m
  <2>7. Spent(m) + Cardinality(Pending') <= skips
    BY <1>1, <1>2, <2>1, <2>4, <2>6 DEF Ordered
  <2>8. copy'[p] = m /\ \A q \in Proc \ {p} : copy'[q] = copy[q] BY <1>1, <2>1
  <2> QED BY <1>5, <2>1, <2>5, <2>7, <2>8
<1>11. ASSUME NEW p \in Proc, OpenMetadata(p) PROVE Ordered'
  <2>1. /\ metadata' = Torn /\ copy' = copy /\ skips' = skips /\ pc[p] = "open"
        /\ pc' = [pc EXCEPT ![p] = "write"]
    BY <1>11 DEF OpenMetadata
  <2>2. (\A q \in Proc \ {p} : pc'[q] = pc[q]) /\ pc'[p] # "read" BY <1>1, <2>1
  <2>3. Cardinality(Pending') \in Nat /\ Cardinality(Pending') <= Cardinality(Pending)
    BY <1>4, <2>2
  <2>4. Spent(copy[p]) + Cardinality(Pending) <= skips /\ Spent(copy[p]) \in Nat
    BY <1>1, <2>1, SpentType DEF Ordered
  <2>5. Spent(copy'[p]) + Cardinality(Pending') <= skips
    BY <1>1, <1>2, <2>1, <2>3, <2>4
  <2> QED BY <1>5, <2>1, <2>2, <2>5
<1>12. ASSUME NEW p \in Proc, WriteMetadata(p) PROVE Ordered'
  <2>1. /\ metadata' = copy[p] \/ metadata' = Torn
        /\ copy' = copy /\ skips' = skips /\ pc[p] = "write"
        /\ \A q \in Proc \ {p} : pc'[q] = pc[q]
        /\ pc'[p] \notin {"read", "open", "write"}
    BY <1>1, <1>12 DEF WriteMetadata, Overwritten
  <2>2. Spent(copy[p]) + Cardinality(Pending) <= skips BY <2>1 DEF Ordered
  <2>3. /\ IsFiniteSet(Pending') /\ Cardinality(Pending') \in Nat
        /\ Cardinality(Pending') <= Cardinality(Pending)
    BY <1>4, <2>1
  <2>4. ASSUME NEW q \in Proc, Spent(copy[q]) + Cardinality(Pending) <= skips
        PROVE  Spent(copy[q]) + Cardinality(Pending') <= skips'
    <3>1. Spent(copy[q]) \in Nat BY <1>1, SpentType
    <3> QED BY <1>1, <1>2, <2>1, <2>3, <2>4, <3>1
  <2>5. Cardinality(Pending') <= skips' BY <1>1, <1>2, <2>1, <2>3 DEF Ordered
  <2>6. ASSUME Whole(metadata)' PROVE Spent(metadata') + Cardinality(Pending') <= skips'
    <3>1. metadata' = copy[p] BY <2>1, <2>6 DEF Whole
    <3> QED BY <2>2, <2>4, <3>1
  <2>7. ASSUME NEW q \in Proc, pc'[q] \in {"open", "write"}
        PROVE  Spent(copy'[q]) + Cardinality(Pending') <= skips'
    <3>1. pc[q] \in {"open", "write"} BY <2>1, <2>7
    <3>2. Spent(copy[q]) + Cardinality(Pending) <= skips BY <3>1 DEF Ordered
    <3> QED BY <2>1, <2>4, <3>2
  <2>8. Spent(metadata)' = Spent(metadata') /\ \A q \in Proc : Spent(copy[q])' = Spent(copy'[q])
    BY DEF Spent, OutOfOrder
  <2> QED BY <2>3, <2>5, <2>6, <2>7, <2>8 DEF Ordered
<1>13. Archive \in Phase BY PhaseFacts
<1> HIDE DEF Goto, Begin
<1>14. ASSUME Next PROVE Ordered'
  <2>1. PICK p \in Proc :
          \/ StartCreate(p) \/ CreateTemplate(p) \/ FillTemplate(p) \/ CreateMetadata(p)
          \/ \E phase \in Phase : StartAdvance(p, phase) \/ StartForced(p, phase, FALSE)
          \/ StartForced(p, Archive, TRUE)
          \/ ReadForAdvance(p) \/ ReadForArchive(p) \/ Reject(p)
          \/ OpenMetadata(p) \/ WriteMetadata(p) \/ Crash(p)
    BY <1>14 DEF Next
  <2> QED BY <1>6, <1>7, <1>8, <1>9, <1>10, <1>11, <1>12, <1>13, <2>1
<1> QED BY <1>3, <1>14

\* The history of a change holds no more steps out of order than commands were forced,
\* also when several processes advance the change at once.
THEOREM OrderHolds == Spec => []OrderUnlessForced
<1>1. TypeInv /\ Ordered => OrderUnlessForced
  <2> SUFFICES ASSUME TypeInv, Ordered, Whole(metadata)
               PROVE  Cardinality(OutOfOrder(metadata.history)) <= skips
    BY DEF OrderUnlessForced
  <2>1. metadata \in Metadata /\ skips \in Nat BY DEF TypeInv, TypeOK, Whole
  <2>2. Spent(metadata) \in Nat BY <2>1, SpentType
  <2>3. Cardinality(Pending) \in Nat BY FS_CardinalityType DEF Ordered
  <2>4. Spent(metadata) + Cardinality(Pending) <= skips BY DEF Ordered
  <2> QED BY <2>1, <2>2, <2>3, <2>4 DEF Spent
<1> QED BY TypeInit, TypeStep, ToldInit, ToldStep, OrderedInit, OrderedStep, <1>1, PTL DEF Spec
=============================================================================
