---------------------------- MODULE Backup_proofs ----------------------------
(***************************************************************************)
(* Proofs about Backup, for any processes, files, contents and any number  *)
(* of archives that prune is to keep.                                      *)
(***************************************************************************)
EXTENDS Backup, FiniteSetTheorems, SequenceTheorems, TLAPS

\* A command that has chosen the archive it works on.
Adding(p) == pc[p] = "add"
Restoring(p) == pc[p] \in {"restore", "fill", "restored"}

\* The archive a process is writing is open; the one it restores was closed, and so were
\* those that its prune removes.
Holds(p) ==
  /\ Adding(p) \/ Restoring(p) => subject[p] \in DOMAIN archive
  /\ Adding(p) => Current(p).state = "open"
  /\ Restoring(p) => Current(p).state \in {"closed", "deleted"}
  /\ \A i \in doomed[p] : archive[i].state \in {"closed", "deleted"}
  /\ pc[p] = "fill" => More(p)
  /\ pc[p] = "restored" => ~More(p)

\* Two processes never write one archive.
ArchivesHeld ==
  /\ \A p \in Proc : Holds(p)
  /\ \A p, q \in Proc : Adding(p) /\ Adding(q) /\ subject[p] = subject[q] => p = q

\* A creation that nobody disturbed so far has an entry for every listed file before its
\* position, and the listed files are all still there.
CreationHeld ==
  \A p \in Proc : Adding(p) /\ ~disturbed[p] =>
    /\ \A f \in Current(p).listed : live[f] # NoFile
    /\ \A i \in DOMAIN Files : i < position[p] /\ Files[i] \in Current(p).listed =>
         Current(p).entry[Files[i]] # NoFile

\* A restore that nobody disturbed so far has restored the listed files before its
\* position and left the others; the one it is writing is in between.
RestoreHeld ==
  \A p \in Proc : Restoring(p) /\ ~disturbed[p] =>
    \A i \in DOMAIN Files :
      \/ pc[p] = "fill" /\ i = Place(p)
      \/ live[Files[i]] = IF Files[i] \in Current(p).listed /\ i < position[p]
                          THEN Current(p).entry[Files[i]] ELSE before[p][Files[i]]

\* The archives no prune is going to delete, and the younger ones of a set.
Safe == {i \in Present : \A p \in Proc : i \notin doomed[p]}
After(i, all) == {j \in all : j > i}

\* Whatever several prunes are going to delete has Keep younger ones that none of them
\* is going to delete.
DoomedHaveSuccessors ==
  \A p \in Proc : \A i \in doomed[p] : Cardinality(After(i, Safe)) >= Keep

BackupInv ==
  /\ TypeOK
  /\ ArchivesHeld
  /\ CreationHeld
  /\ RestoreHeld
  /\ DoomedHaveSuccessors
  /\ CleanArchiveComplete

---------------------------------------------------------------------------
\* Numbers, files and places

\* The order of the natural numbers is well-founded.
LEMMA NaturalsWellFounded == IsWellFoundedOn({ss \in Nat \X Nat : ss[1] < ss[2]}, Nat)
BY NatLessThanWellFounded DEF OpToRel

\* A set of natural numbers that is not empty has a least one.
LEMMA MinOfNaturals ==
  ASSUME NEW S \in SUBSET Nat, S # {}
  PROVE  Min(S) \in S /\ \A n \in S : Min(S) <= n
<1> DEFINE R == {ss \in Nat \X Nat : ss[1] < ss[2]}
<1>1. PICK m \in S : \A n \in S : ~ (<<n, m>> \in R)
  <2>1. IsWellFoundedOn(R, Nat) BY NaturalsWellFounded
  <2> HIDE DEF R
  <2> QED BY <2>1, WFMin
<1>2. ASSUME NEW n \in S PROVE m <= n
  <2>1. <<n, m>> \in Nat \X Nat OBVIOUS
  <2>2. ~ (n < m) BY <1>1, <2>1
  <2> QED BY <2>2
<1> QED BY <1>2 DEF Min

LEMMA FilesType ==
  /\ Len(Files) \in Nat /\ DOMAIN Files = 1..Len(Files)
  /\ \A i \in 1..Len(Files) : Files[i] \in File
  /\ \A f \in File : \E i \in 1..Len(Files) : f = Files[i]
  /\ \A i, j \in 1..Len(Files) : Files[i] = Files[j] => i = j
BY BackupAssumption, LenProperties DEF File, Range, IsInjective

\* The next file is the first of the listed files from the position on.
LEMMA PlaceFirst ==
  ASSUME TypeOK, NEW p \in Proc, More(p)
  PROVE  /\ Place(p) \in position[p]..Len(Files)
         /\ NextFile(p) \in Current(p).listed /\ NextFile(p) \in File
         /\ \A i \in position[p]..Len(Files) :
              Files[i] \in Current(p).listed => Place(p) <= i
<1>1. position[p] \in Nat /\ position[p] >= 1 BY FilesType DEF TypeOK
<1>2. Rest(p) \in SUBSET Nat /\ Rest(p) # {} BY <1>1, FilesType DEF Rest, More
<1>3. Place(p) \in Rest(p) /\ \A i \in Rest(p) : Place(p) <= i
  BY <1>2, MinOfNaturals DEF Place
<1> QED BY <1>1, <1>3, FilesType DEF Rest, NextFile

---------------------------------------------------------------------------
\* The type invariant

LEMMA TypeInitially == Init => TypeOK
BY FilesType DEF Init, TypeOK, Steps, Content

LEMMA ArchiveType ==
  ASSUME TypeOK, NEW i \in DOMAIN archive
  PROVE  archive[i] \in Archive /\ i \in 1..Len(archive) /\ Len(archive) \in Nat
BY LenProperties, ElementOfSeq DEF TypeOK

LEMMA ArchiveReplaced ==
  ASSUME archive \in Seq(Archive), NEW i \in DOMAIN archive, NEW a \in Archive
  PROVE  /\ [archive EXCEPT ![i] = a] \in Seq(Archive)
         /\ DOMAIN [archive EXCEPT ![i] = a] = DOMAIN archive
BY LenProperties, ExceptSeq

LEMMA TypeStep == TypeOK /\ ArchivesHeld /\ [Next]_vars => TypeOK'
<1> SUFFICES ASSUME TypeOK, ArchivesHeld, [Next]_vars PROVE TypeOK' OBVIOUS
<1> USE FilesType DEF TypeOK, Goto, Steps
<1>0. CASE UNCHANGED vars BY <1>0 DEF vars, locals
<1>1. ASSUME NEW p \in Proc, StartCreate(p) PROVE TypeOK'
  <2>1. [state |-> "open", listed |-> {f \in File : Allowed(f)},
         entry |-> [f \in File |-> NoFile], clean |-> TRUE] \in Archive
    BY DEF Archive, Content
  <2>2. archive' \in Seq(Archive) /\ DOMAIN archive \subseteq DOMAIN archive'
    BY <1>1, <2>1, AppendProperties, LenProperties DEF StartCreate
  <2>3. Len(archive) + 1 \in Nat BY LenProperties
  <2> QED BY <1>1, <2>2, <2>3 DEF StartCreate, Begin
<1>2. ASSUME NEW p \in Proc, AddFile(p) PROVE TypeOK'
  <2>1. subject[p] \in DOMAIN archive BY <1>2 DEF AddFile, ArchivesHeld, Holds, Adding
  <2>2. NextFile(p) \in File /\ Place(p) \in position[p]..Len(Files)
    BY <1>2, PlaceFirst DEF AddFile
  <2>3. Current(p) \in Archive BY <2>1, ArchiveType DEF Current
  <2>4. [Current(p) EXCEPT !.entry[NextFile(p)] = live[NextFile(p)]] \in Archive
    BY <2>2, <2>3 DEF Archive
  <2>5. archive' = [archive EXCEPT ![subject[p]] =
                     [Current(p) EXCEPT !.entry[NextFile(p)] = live[NextFile(p)]]]
    BY <1>2 DEF AddFile, Current
  <2>6. archive' \in Seq(Archive) /\ DOMAIN archive' = DOMAIN archive
    BY <2>1, <2>4, <2>5, ArchiveReplaced
  <2> QED BY <1>2, <2>2, <2>6 DEF AddFile
<1>3. ASSUME NEW p \in Proc, AddFails(p) \/ CloseArchive(p) PROVE TypeOK'
  <2>1. subject[p] \in DOMAIN archive
    BY <1>3 DEF AddFails, CloseArchive, ArchivesHeld, Holds, Adding
  <2>2. archive[subject[p]] \in Archive BY <2>1, ArchiveType
  <2>3. PICK clean \in BOOLEAN : Close(p, clean) BY <1>3 DEF AddFails, CloseArchive
  <2>4. [archive[subject[p]] EXCEPT !.state = "closed", !.clean = clean] \in Archive
    BY <2>2 DEF Archive
  <2>5. archive' = [archive EXCEPT ![subject[p]] =
                     [archive[subject[p]] EXCEPT !.state = "closed", !.clean = clean]]
    BY <2>3 DEF Close
  <2>6. archive' \in Seq(Archive) /\ DOMAIN archive' = DOMAIN archive
    BY <2>1, <2>4, <2>5, ArchiveReplaced
  <2> QED BY <1>3, <2>6 DEF AddFails, CloseArchive
<1>4. ASSUME NEW p \in Proc, NEW i \in DOMAIN archive, StartRestore(p, i) PROVE TypeOK'
  <2>1. i \in Nat BY LenProperties
  <2> QED BY <1>4, <2>1 DEF StartRestore, Begin
<1>5. ASSUME NEW p \in Proc, RestoreOpen(p) \/ RestoreFill(p) PROVE TypeOK'
  <2>1. subject[p] \in DOMAIN archive /\ More(p)
    BY <1>5 DEF RestoreOpen, RestoreFill, ArchivesHeld, Holds, Restoring
  <2>2. NextFile(p) \in File /\ Place(p) \in position[p]..Len(Files)
    BY <2>1, PlaceFirst
  <2>3. Current(p) \in Archive BY <2>1, ArchiveType DEF Current
  <2>4. Current(p).entry \in [File -> Content] BY <2>3 DEF Archive
  <2>5. Current(p).entry[NextFile(p)] \in Content /\ Blank \in Content
    BY <2>2, <2>4 DEF Content
  <2>6. live' \in [File -> Content] BY <1>5, <2>2, <2>5 DEF RestoreOpen, RestoreFill
  <2>7. position' \in [Proc -> 1..Len(Files) + 1]
    <3>1. Place(p) + 1 \in 1..Len(Files) + 1 BY <2>2
    <3> QED BY <1>5, <3>1 DEF RestoreOpen, RestoreFill
  <2>8. pc' \in [Proc -> Steps] BY <1>5 DEF RestoreOpen, RestoreFill, Steps
  <2>9. disturbed' \in [Proc -> BOOLEAN] BY <1>5 DEF RestoreOpen, RestoreFill, Touch
  <2>10. UNCHANGED <<archive, subject, doomed, commands, edits, crashes, before>>
    BY <1>5 DEF RestoreOpen, RestoreFill
  <2> QED BY <2>6, <2>7, <2>8, <2>9, <2>10
<1>6. ASSUME NEW p \in Proc, RestoreMissing(p) \/ FinishRestore(p) \/ FinishPrune(p)
      PROVE  TypeOK'
  BY <1>6 DEF RestoreMissing, FinishRestore, FinishPrune
<1>7. ASSUME NEW p \in Proc, StartPrune(p) PROVE TypeOK'
  BY <1>7 DEF StartPrune, Begin, Removable, Present
<1>8. ASSUME NEW p \in Proc, DeleteNext(p) PROVE TypeOK'
  <2> DEFINE i == Min(doomed[p])
  <2>1. doomed[p] \in SUBSET Nat /\ doomed[p] # {} BY <1>8, LenProperties DEF DeleteNext
  <2>2. i \in DOMAIN archive BY <2>1, MinOfNaturals
  <2> HIDE DEF i
  <2>3. archive[i] \in Archive BY <2>2, ArchiveType
  <2>4. [archive[i] EXCEPT !.state = "deleted"] \in Archive BY <2>3 DEF Archive
  <2>5. archive' = [archive EXCEPT ![i] = [archive[i] EXCEPT !.state = "deleted"]]
    BY <1>8 DEF DeleteNext, i
  <2>6. archive' \in Seq(Archive) /\ DOMAIN archive' = DOMAIN archive
    BY <2>2, <2>4, <2>5, ArchiveReplaced
  <2>7. doomed' = doomed \/ doomed' = [doomed EXCEPT ![p] = @ \ {i}]
    BY <1>8 DEF DeleteNext, i
  <2>8. doomed' \in [Proc -> SUBSET DOMAIN archive'] BY <2>6, <2>7
  <2>9. pc' \in [Proc -> Steps] BY <1>8 DEF DeleteNext
  <2> QED BY <1>8, <2>6, <2>8, <2>9 DEF DeleteNext
<1>9. ASSUME NEW p \in Proc, Crash(p) PROVE TypeOK'
  <2>1. CASE ~Adding(p) BY <1>9, <2>1 DEF Crash, Adding
  <2>2. CASE Adding(p)
    <3>1. subject[p] \in DOMAIN archive BY <2>2 DEF ArchivesHeld, Holds
    <3>2. Current(p) \in Archive BY <3>1, ArchiveType DEF Current
    <3>3. archive' = [archive EXCEPT ![subject[p]] = [Current(p) EXCEPT !.state = "broken"]]
      BY <1>9, <2>2 DEF Crash, Adding, Current
    <3>4. [Current(p) EXCEPT !.state = "broken"] \in Archive BY <3>2 DEF Archive
    <3>5. archive' \in Seq(Archive) /\ DOMAIN archive' = DOMAIN archive
      BY <3>1, <3>3, <3>4, ArchiveReplaced
    <3> QED BY <1>9, <3>5 DEF Crash
  <2> QED BY <2>1, <2>2
<1>10. ASSUME NEW f \in File, NEW version \in Version \cup {NoFile}, Edit(f, version)
       PROVE  TypeOK'
  BY <1>10 DEF Edit, locals, Content
<1> QED
  BY <1>0, <1>1, <1>2, <1>3, <1>4, <1>5, <1>6, <1>7, <1>8, <1>9, <1>10 DEF Next

---------------------------------------------------------------------------
\* What a step of a process leaves alone

StepOf(p) ==
  \/ StartCreate(p) \/ AddFile(p) \/ AddFails(p) \/ CloseArchive(p)
  \/ \E i \in DOMAIN archive : StartRestore(p, i)
  \/ RestoreOpen(p) \/ RestoreFill(p) \/ RestoreMissing(p) \/ FinishRestore(p)
  \/ StartPrune(p) \/ DeleteNext(p) \/ FinishPrune(p)
  \/ Crash(p)

OthersStay(p) ==
  \A q \in Proc \ {p} :
    /\ pc'[q] = pc[q] /\ subject'[q] = subject[q] /\ position'[q] = position[q]
    /\ doomed'[q] = doomed[q] /\ before'[q] = before[q]

\* An archive stays as it is, unless it is the one the process writes, of which the list
\* stays, or one that it deletes.
ArchivesStay(p) ==
  \A i \in DOMAIN archive :
    /\ i \in DOMAIN archive'
    /\ \/ archive'[i] = archive[i]
       \/ Adding(p) /\ i = subject[p] /\ archive'[i].listed = archive[i].listed
       \/ /\ pc[p] = "delete" /\ i \in doomed[p]
          /\ archive'[i] = [archive[i] EXCEPT !.state = "deleted"]

LEMMA Frame ==
  ASSUME TypeOK, NEW p \in Proc, StepOf(p)
  PROVE  OthersStay(p) /\ ArchivesStay(p)
<1> USE DEF Goto, Begin, OthersStay, ArchivesStay
<1>1. OthersStay(p)
  BY DEF TypeOK, StepOf, StartCreate, AddFile, AddFails, CloseArchive, StartRestore,
         RestoreOpen, RestoreFill, RestoreMissing, FinishRestore, StartPrune, DeleteNext,
         FinishPrune, Crash
<1>2. ArchivesStay(p)
  <2>1. CASE UNCHANGED archive BY <2>1
  <2>2. CASE StartCreate(p)
    BY <2>2, LenProperties DEF StartCreate, TypeOK
  <2>3. CASE AddFile(p) BY <2>3, ArchiveType DEF AddFile, Adding, Archive
  <2>4. CASE AddFails(p) \/ CloseArchive(p)
    <3>1. PICK clean \in BOOLEAN : Close(p, clean)
      BY <2>4 DEF AddFails, CloseArchive, TypeOK
    <3>2. Adding(p) BY <2>4 DEF AddFails, CloseArchive, Adding
    <3>3. ASSUME NEW i \in DOMAIN archive
          PROVE  /\ i \in DOMAIN archive'
                 /\ \/ archive'[i] = archive[i]
                    \/ i = subject[p] /\ archive'[i].listed = archive[i].listed
      BY <3>1, ArchiveType DEF Close, Archive
    <3> QED BY <3>2, <3>3
  <2>5. CASE DeleteNext(p)
    <3> DEFINE m == Min(doomed[p])
    <3>1. doomed[p] \in SUBSET Nat /\ doomed[p] # {}
      BY <2>5, LenProperties DEF DeleteNext, TypeOK
    <3>2. m \in doomed[p] BY <3>1, MinOfNaturals
    <3>3. archive' = [archive EXCEPT ![m].state = "deleted"] /\ pc[p] = "delete"
      BY <2>5 DEF DeleteNext
    <3> HIDE DEF m
    <3> QED BY <3>2, <3>3
  <2>6. CASE Crash(p) BY <2>6, ArchiveType DEF Crash, Adding, Archive
  <2>7. CASE \E i \in DOMAIN archive : StartRestore(p, i) BY <2>7, <2>1 DEF StartRestore
  <2>8. CASE RestoreOpen(p) \/ RestoreFill(p) \/ RestoreMissing(p) \/ FinishRestore(p)
             \/ StartPrune(p) \/ FinishPrune(p)
    BY <2>8, <2>1
    DEF RestoreOpen, RestoreFill, RestoreMissing, FinishRestore, StartPrune, FinishPrune
  <2> QED BY <2>2, <2>3, <2>4, <2>5, <2>6, <2>7, <2>8 DEF StepOf
<1> QED BY <1>1, <1>2

\* The archive another process works on, and what it has still to do with it.
LEMMA OtherArchive ==
  ASSUME TypeOK, ArchivesHeld, NEW p \in Proc, StepOf(p),
         NEW q \in Proc, q # p, Adding(q) \/ Restoring(q)
  PROVE  /\ subject'[q] = subject[q] /\ subject[q] \in DOMAIN archive
         /\ subject[q] \in DOMAIN archive'
         /\ Adding(q) => Current(q)' = Current(q)
         /\ \/ Current(q)' = Current(q)
            \/ Current(q)' = [Current(q) EXCEPT !.state = "deleted"]
         /\ Rest(q)' = Rest(q) /\ Current(q)'.listed = Current(q).listed
<1>1. OthersStay(p) /\ ArchivesStay(p) BY Frame
<1>2. Holds(p) /\ Holds(q) BY DEF ArchivesHeld
<1>3. /\ subject'[q] = subject[q] /\ position'[q] = position[q]
      /\ subject[q] \in DOMAIN archive /\ subject[q] \in DOMAIN archive'
  BY <1>1, <1>2 DEF OthersStay, ArchivesStay, Holds
<1>4. ~ (Adding(p) /\ subject[q] = subject[p])
  BY <1>2 DEF ArchivesHeld, Holds, Current, Restoring, Adding
<1>5. \/ Current(q)' = Current(q)
      \/ /\ Current(q)' = [Current(q) EXCEPT !.state = "deleted"]
         /\ subject[q] \in doomed[p]
  BY <1>1, <1>3, <1>4 DEF ArchivesStay, Current
<1>6. Adding(q) => Current(q)' = Current(q)
  BY <1>2, <1>5 DEF Holds, Current
<1>7. Current(q) \in Archive BY <1>3, ArchiveType DEF Current
<1>8. Current(q)'.listed = Current(q).listed BY <1>5, <1>7 DEF Archive
<1> QED BY <1>3, <1>5, <1>6, <1>8 DEF Rest

LEMMA OthersHold ==
  ASSUME TypeOK, ArchivesHeld, NEW p \in Proc, StepOf(p), NEW q \in Proc, q # p
  PROVE  Holds(q)'
<1>1. OthersStay(p) /\ ArchivesStay(p) BY Frame
<1>2. Holds(p) /\ Holds(q) BY DEF ArchivesHeld
<1>3. (Adding(q)' <=> Adding(q)) /\ (Restoring(q)' <=> Restoring(q)) /\ pc'[q] = pc[q]
  BY <1>1 DEF OthersStay, Adding, Restoring
<1>4. ASSUME NEW i \in doomed'[q] PROVE archive'[i].state \in {"closed", "deleted"}
  <2>1. i \in doomed[q] /\ i \in DOMAIN archive BY <1>1 DEF OthersStay, TypeOK
  <2>2. archive[i].state \in {"closed", "deleted"} BY <1>2, <2>1 DEF Holds
  <2>3. archive[i] \in Archive BY <2>1, ArchiveType
  <2>4. ~ (Adding(p) /\ i = subject[p]) BY <1>2, <2>2 DEF Holds, Current
  <2>5. archive'[i] = archive[i] \/ archive'[i] = [archive[i] EXCEPT !.state = "deleted"]
    BY <1>1, <2>1, <2>4 DEF ArchivesStay
  <2> QED BY <2>2, <2>3, <2>5 DEF Archive
<1>5. CASE Adding(q) \/ Restoring(q)
  <2>1. /\ subject'[q] \in DOMAIN archive'
        /\ Adding(q) => Current(q)' = Current(q)
        /\ \/ Current(q)' = Current(q)
           \/ Current(q)' = [Current(q) EXCEPT !.state = "deleted"]
        /\ More(q)' <=> More(q)
        /\ subject[q] \in DOMAIN archive
    BY <1>5, OtherArchive DEF More
  <2>2. Current(q) \in Archive BY <2>1, ArchiveType DEF Current
  <2>3. Restoring(q) => Current(q)'.state \in {"closed", "deleted"}
    BY <1>2, <2>1, <2>2 DEF Holds, Archive
  <2> QED BY <1>2, <1>3, <1>4, <2>1, <2>3 DEF Holds
<1>6. CASE ~ (Adding(q) \/ Restoring(q))
  BY <1>3, <1>4, <1>6 DEF Holds, Restoring
<1> QED BY <1>5, <1>6

LEMMA OwnHolds ==
  ASSUME TypeOK, ArchivesHeld, NEW p \in Proc, StepOf(p)
  PROVE  Holds(p)'
<1> USE DEF Goto, Begin
<1>h. Holds(p) BY DEF ArchivesHeld
<1>t. /\ pc \in [Proc -> Steps] /\ subject \in [Proc -> Nat]
      /\ doomed \in [Proc -> SUBSET DOMAIN archive]
  BY DEF TypeOK
<1>1. CASE StartCreate(p)
  <2>1. /\ Len(archive) \in Nat /\ DOMAIN archive = 1..Len(archive)
        /\ DOMAIN archive' = 1..Len(archive) + 1
        /\ archive'[Len(archive) + 1].state = "open"
        /\ \A i \in DOMAIN archive : archive'[i] = archive[i]
    BY <1>1, LenProperties DEF StartCreate, TypeOK
  <2>2. /\ pc'[p] = "add" /\ subject'[p] = Len(archive) + 1 /\ doomed'[p] = doomed[p]
    BY <1>1, <1>t DEF StartCreate
  <2>3. \A i \in doomed'[p] : archive'[i].state \in {"closed", "deleted"}
    BY <1>h, <1>t, <2>1, <2>2 DEF Holds
  <2> QED BY <2>1, <2>2, <2>3 DEF Holds, Adding, Restoring, Current
<1>2. CASE AddFile(p)
  <2>1. subject[p] \in DOMAIN archive /\ Adding(p) BY <1>h, <1>2 DEF Holds, AddFile, Adding
  <2>2. \A i \in DOMAIN archive : archive[i] \in Archive BY ArchiveType
  <2>3. /\ DOMAIN archive' = DOMAIN archive
        /\ \A i \in DOMAIN archive : archive'[i].state = archive[i].state
    BY <1>2, <2>1, <2>2 DEF AddFile, Archive
  <2>4. UNCHANGED <<pc, subject, doomed>> BY <1>2 DEF AddFile
  <2>5. \A i \in doomed'[p] : archive'[i].state \in {"closed", "deleted"}
    BY <1>h, <1>t, <2>3, <2>4 DEF Holds
  <2> QED BY <1>h, <2>1, <2>3, <2>4, <2>5 DEF Holds, Adding, Restoring, Current
<1>3. CASE AddFails(p) \/ CloseArchive(p)
  <2>1. PICK clean \in BOOLEAN : Close(p, clean)
    BY <1>3 DEF AddFails, CloseArchive, TypeOK
  <2>2. subject[p] \in DOMAIN archive
    BY <1>h, <1>3 DEF Holds, AddFails, CloseArchive, Adding
  <2>3. \A i \in DOMAIN archive : archive[i] \in Archive BY ArchiveType
  <2>4. \A i \in DOMAIN archive :
          archive'[i] = archive[i] \/ archive'[i].state = "closed"
    BY <2>1, <2>2, <2>3 DEF Close, Archive
  <2>5. pc'[p] = "idle" /\ doomed'[p] = doomed[p]
    BY <1>3, <1>t DEF AddFails, CloseArchive, Steps
  <2>6. \A i \in doomed'[p] : archive'[i].state \in {"closed", "deleted"}
    BY <1>h, <1>t, <2>4, <2>5 DEF Holds
  <2> QED BY <2>5, <2>6 DEF Holds, Adding, Restoring
<1>4. ASSUME NEW i \in DOMAIN archive, StartRestore(p, i) PROVE Holds(p)'
  BY <1>h, <1>t, <1>4 DEF StartRestore, Holds, Adding, Restoring, Current, Present
<1>5. CASE RestoreOpen(p) \/ RestoreMissing(p) \/ FinishRestore(p)
  <2>1. /\ UNCHANGED <<archive, subject, position, doomed>> /\ Restoring(p)
        /\ \/ pc'[p] = "fill" /\ More(p)
           \/ pc'[p] = "idle"
           \/ pc'[p] = "restored" /\ ~More(p)
    BY <1>5, <1>t DEF RestoreOpen, RestoreMissing, FinishRestore, Restoring, Steps
  <2>2. (More(p)' <=> More(p)) /\ Current(p)' = Current(p)
    BY <2>1 DEF More, Rest, Current
  <2> QED BY <1>h, <2>1, <2>2 DEF Holds, Adding, Restoring
<1>6. CASE RestoreFill(p)
  <2>1. /\ UNCHANGED <<archive, subject, doomed>> /\ Restoring(p) /\ pc'[p] = "restore"
    BY <1>6, <1>t DEF RestoreFill, Restoring, Steps
  <2> QED BY <1>h, <2>1 DEF Holds, Adding, Restoring, Current
<1>7. CASE StartPrune(p)
  <2>1. UNCHANGED archive /\ pc'[p] = "delete" /\ doomed'[p] \subseteq Present
    BY <1>7, <1>t DEF StartPrune, Removable, Steps
  <2>2. \A i \in Present : archive[i].state = "closed" BY <1>7 DEF StartPrune
  <2> QED BY <2>1, <2>2 DEF Holds, Adding, Restoring
<1>8. CASE DeleteNext(p)
  <2>1. pc'[p] \in {"idle", "delete"} /\ doomed'[p] \subseteq doomed[p] /\ pc[p] = "delete"
    BY <1>8, <1>t DEF DeleteNext
  <2>2. \A i \in doomed[p] : i \in DOMAIN archive /\ archive[i] \in Archive
    BY <1>t, ArchiveType
  <2> DEFINE m == Min(doomed[p])
  <2>a. archive' = [archive EXCEPT ![m].state = "deleted"] BY <1>8 DEF DeleteNext
  <2> HIDE DEF m
  <2>3. \A i \in doomed[p] : \/ archive'[i] = archive[i]
                             \/ archive'[i] = [archive[i] EXCEPT !.state = "deleted"]
    BY <2>2, <2>a
  <2>4. \A i \in doomed'[p] : archive'[i].state \in {"closed", "deleted"}
    <3>1. TAKE i \in doomed'[p]
    <3>2. i \in doomed[p] BY <2>1
    <3>3. CASE archive'[i] = archive[i] BY <1>h, <2>1, <3>2, <3>3 DEF Holds
    <3>4. CASE archive'[i] = [archive[i] EXCEPT !.state = "deleted"]
      BY <2>2, <3>2, <3>4 DEF Archive
    <3> QED BY <2>3, <3>2, <3>3, <3>4
  <2> QED BY <2>1, <2>4 DEF Holds, Adding, Restoring
<1>9. CASE FinishPrune(p)
  <2>1. UNCHANGED <<archive, doomed>> /\ pc'[p] = "idle"
    BY <1>9, <1>t DEF FinishPrune, Steps
  <2> QED BY <1>h, <2>1 DEF Holds, Adding, Restoring
<1>10. CASE Crash(p)
  <2>1. pc'[p] = "idle" /\ doomed'[p] = doomed[p] BY <1>10, <1>t DEF Crash, Steps
  <2>2. \A i \in doomed[p] : archive'[i] = archive[i]
    <3>1. CASE ~Adding(p) BY <1>10, <3>1 DEF Crash, Adding
    <3>2. CASE Adding(p)
      <4>1. subject[p] \notin doomed[p] BY <1>h, <3>2 DEF Holds, Current
      <4> QED BY <1>10, <1>t, <3>2, <4>1 DEF Crash, Adding
    <3> QED BY <3>1, <3>2
  <2> QED BY <1>h, <2>1, <2>2 DEF Holds, Adding, Restoring
<1> QED
  BY <1>1, <1>2, <1>3, <1>4, <1>5, <1>6, <1>7, <1>8, <1>9, <1>10 DEF StepOf

LEMMA HeldInitially == Init => ArchivesHeld
BY DEF Init, ArchivesHeld, Holds, Adding, Restoring

LEMMA HeldStep == TypeOK /\ ArchivesHeld /\ [Next]_vars => ArchivesHeld'
<1> SUFFICES ASSUME TypeOK, ArchivesHeld, [Next]_vars PROVE ArchivesHeld' OBVIOUS
<1>1. CASE UNCHANGED <<archive, locals>>
  BY <1>1 DEF locals, ArchivesHeld, Holds, Adding, Restoring, Current, More, Rest
<1>2. ASSUME NEW p \in Proc, StepOf(p) PROVE ArchivesHeld'
  <2>1. \A q \in Proc : Holds(q)' BY <1>2, OwnHolds, OthersHold
  <2>2. ASSUME NEW q \in Proc, q # p, Adding(q)', Adding(p)' PROVE subject'[q] # subject'[p]
    <3>1. Adding(q) /\ subject'[q] = subject[q] /\ subject[q] \in DOMAIN archive
      <4>1. Adding(q) BY <1>2, <2>2, Frame DEF OthersStay, Adding
      <4> QED BY <1>2, <2>2, <4>1, OtherArchive
    <3>2. CASE StartCreate(p)
      BY <3>1, <3>2, LenProperties DEF StartCreate, TypeOK
    <3>3. CASE ~StartCreate(p)
      <4>1. Adding(p) /\ subject'[p] = subject[p]
        BY <1>2, <2>2, <3>3
        DEF StepOf, AddFile, AddFails, CloseArchive, StartRestore, RestoreOpen,
            RestoreFill, RestoreMissing, FinishRestore, StartPrune, DeleteNext,
            FinishPrune, Crash, Goto, Adding, Steps, TypeOK
      <4> QED BY <2>2, <3>1, <4>1 DEF ArchivesHeld
    <3> QED BY <3>2, <3>3
  <2>3. ASSUME NEW q \in Proc, NEW r \in Proc, q # r, Adding(q)', Adding(r)'
        PROVE  subject'[q] # subject'[r]
    <3>1. CASE q = p \/ r = p BY <2>2, <2>3, <3>1
    <3>2. CASE q # p /\ r # p
      <4>1. /\ Adding(q) /\ Adding(r)
            /\ subject'[q] = subject[q] /\ subject'[r] = subject[r]
        BY <1>2, <2>3, <3>2, Frame DEF OthersStay, Adding
      <4> QED BY <2>3, <4>1 DEF ArchivesHeld
    <3> QED BY <3>1, <3>2
  <2> QED BY <2>1, <2>3 DEF ArchivesHeld
<1>3. ASSUME NEW f \in File, NEW version \in Version \cup {NoFile}, Edit(f, version)
      PROVE  ArchivesHeld'
  BY <1>1, <1>3 DEF Edit
<1> QED BY <1>1, <1>2, <1>3 DEF Next, StepOf, vars

---------------------------------------------------------------------------
\* Creations that nobody disturbs

\* A step of a process leaves the files as they are, or the others know.
LEMMA LiveOrTouched ==
  ASSUME TypeOK, NEW p \in Proc, StepOf(p), NEW q \in Proc, q # p, ~disturbed'[q]
  PROVE  live' = live /\ ~disturbed[q]
BY DEF StepOf, StartCreate, AddFile, AddFails, CloseArchive, StartRestore, RestoreOpen,
       RestoreFill, RestoreMissing, FinishRestore, StartPrune, DeleteNext, FinishPrune,
       Crash, Begin, Touch, TypeOK

LEMMA CreationStep ==
  TypeOK /\ ArchivesHeld /\ CreationHeld /\ [Next]_vars => CreationHeld'
<1> SUFFICES ASSUME TypeOK, ArchivesHeld, CreationHeld, [Next]_vars PROVE CreationHeld'
    OBVIOUS
<1>1. CASE UNCHANGED vars
  BY <1>1 DEF vars, locals, CreationHeld, Adding, Current
<1>2. ASSUME NEW p \in Proc, StepOf(p), NEW q \in Proc, Adding(q)', ~disturbed'[q]
      PROVE  /\ \A f \in Current(q)'.listed : live'[f] # NoFile
             /\ \A i \in DOMAIN Files : i < position'[q] /\ Files[i] \in Current(q)'.listed =>
                  Current(q)'.entry[Files[i]] # NoFile
  <2>1. CASE q # p
    <3>1. Adding(q) /\ position'[q] = position[q]
      BY <1>2, <2>1, Frame DEF OthersStay, Adding
    <3>2. live' = live /\ ~disturbed[q] BY <1>2, <2>1, LiveOrTouched
    <3>3. Current(q)' = Current(q) BY <1>2, <2>1, <3>1, OtherArchive
    <3> QED BY <3>1, <3>2, <3>3 DEF CreationHeld
  <2>2. CASE q = p /\ StartCreate(p)
    <3>1. /\ subject'[p] = Len(archive) + 1 /\ live' = live /\ position'[p] = 1
          /\ archive'[Len(archive) + 1].listed = {f \in File : Allowed(f)}
      BY <2>2, LenProperties DEF StartCreate, Begin, TypeOK
    <3>2. \A f \in Current(q)'.listed : live'[f] # NoFile
      BY <2>2, <3>1 DEF Current, Allowed
    <3>3. ~ \E i \in DOMAIN Files : i < position'[q] BY <2>2, <3>1, FilesType
    <3> QED BY <3>2, <3>3
  <2>3. CASE q = p /\ AddFile(p)
    <3>1. subject[p] \in DOMAIN archive /\ Adding(p) /\ ~disturbed[p] /\ More(p)
      BY <1>2, <2>3 DEF AddFile, ArchivesHeld, Holds, Adding
    <3>2. /\ Place(p) \in position[p]..Len(Files) /\ NextFile(p) \in File
          /\ \A i \in position[p]..Len(Files) :
               Files[i] \in Current(p).listed => Place(p) <= i
      BY <3>1, PlaceFirst
    <3>3. Current(p) \in Archive BY <3>1, ArchiveType DEF Current
    <3>4. /\ Current(p)' = [Current(p) EXCEPT !.entry[NextFile(p)] = live[NextFile(p)]]
          /\ position'[p] = Place(p) + 1 /\ live' = live /\ live[NextFile(p)] # NoFile
      BY <2>3, <3>1 DEF AddFile, Current, TypeOK
    <3>5. /\ Current(p)'.listed = Current(p).listed
          /\ Current(p)'.entry = [Current(p).entry EXCEPT ![NextFile(p)] = live[NextFile(p)]]
          /\ Current(p).entry \in [File -> Content]
      BY <3>3, <3>4 DEF Archive
    <3>6. ASSUME NEW i \in DOMAIN Files, i < position'[p], Files[i] \in Current(p)'.listed
          PROVE  Current(p)'.entry[Files[i]] # NoFile
      <4>1. Files[i] \in File /\ i \in Nat /\ position[p] \in Nat
        BY FilesType DEF TypeOK
      <4>2. CASE i < position[p]
        BY <3>1, <3>4, <3>5, <3>6, <4>1, <4>2 DEF CreationHeld
      <4>3. CASE ~ (i < position[p])
        <5>1. i \in position[p]..Len(Files) BY <4>1, <4>3, FilesType
        <5>2. i = Place(p) BY <3>2, <3>4, <3>5, <3>6, <4>1, <5>1
        <5> QED BY <3>2, <3>4, <3>5, <5>2 DEF NextFile
      <4> QED BY <4>2, <4>3
    <3> QED BY <2>3, <3>1, <3>4, <3>5, <3>6 DEF CreationHeld
  <2>4. ~StartCreate(p) /\ ~AddFile(p) => q # p
    BY <1>2
    DEF StepOf, AddFails, CloseArchive, StartRestore, RestoreOpen, RestoreFill,
        RestoreMissing, FinishRestore, StartPrune, DeleteNext, FinishPrune, Crash, Goto,
        Adding, Steps, TypeOK
  <2> QED BY <2>1, <2>2, <2>3, <2>4
<1>3. ASSUME NEW f \in File, NEW version \in Version \cup {NoFile}, Edit(f, version)
      PROVE  CreationHeld'
  BY <1>3 DEF Edit, CreationHeld
<1> QED
  <2>1. ASSUME NEW p \in Proc, StepOf(p) PROVE CreationHeld'
    BY <1>2, <2>1 DEF CreationHeld
  <2> QED BY <1>1, <1>3, <2>1 DEF Next, StepOf

LEMMA CompleteStep ==
  /\ TypeOK /\ ArchivesHeld /\ CreationHeld /\ CleanArchiveComplete /\ [Next]_vars
  => CleanArchiveComplete'
<1> SUFFICES ASSUME TypeOK, ArchivesHeld, CreationHeld, CleanArchiveComplete, [Next]_vars,
                    NEW i \in DOMAIN archive', archive'[i].state = "closed", archive'[i].clean,
                    NEW f \in archive'[i].listed
             PROVE  archive'[i].entry[f] # NoFile
    BY DEF CleanArchiveComplete
<1>1. CASE i \in DOMAIN archive /\ archive'[i] = archive[i]
  BY <1>1 DEF CleanArchiveComplete
<1>2. ASSUME NEW p \in Proc, StepOf(p), ~ (i \in DOMAIN archive /\ archive'[i] = archive[i])
      PROVE  archive'[i].entry[f] # NoFile
  <2>1. CASE StartCreate(p)
    <3>1. /\ i \in DOMAIN archive => archive'[i] = archive[i]
          /\ i \notin DOMAIN archive => archive'[i].state = "open"
      BY <2>1, LenProperties DEF StartCreate, TypeOK
    <3> QED BY <1>2, <3>1
  <2>2. CASE ~StartCreate(p)
    <3>1. i \in DOMAIN archive
      <4>1. DOMAIN archive' = DOMAIN archive
        BY <1>2, <2>2
        DEF StepOf, AddFile, AddFails, CloseArchive, Close, StartRestore, RestoreOpen,
            RestoreFill, RestoreMissing, FinishRestore, StartPrune, DeleteNext,
            FinishPrune, Crash, TypeOK
      <4> QED BY <4>1
    <3>2. archive[i] \in Archive BY <3>1, ArchiveType
    <3>3. Adding(p) /\ i = subject[p] /\ archive'[i].listed = archive[i].listed
      <4>1. archive'[i] # [archive[i] EXCEPT !.state = "deleted"] BY <3>2 DEF Archive
      <4> QED BY <1>2, <3>1, <4>1, Frame DEF ArchivesStay
    <3>4. archive[i].state = "open" BY <3>3 DEF ArchivesHeld, Holds, Current
    <3>5. CloseArchive(p) /\ archive'[i].entry = archive[i].entry /\ ~disturbed[p]
      <4>1. CASE AddFile(p)
        BY <3>1, <3>2, <3>3, <3>4, <4>1 DEF AddFile, Archive
      <4>2. CASE Crash(p)
        BY <3>1, <3>2, <3>3, <4>2 DEF Crash, Adding, Archive
      <4>3. CASE AddFails(p)
        BY <3>1, <3>2, <3>3, <4>3 DEF AddFails, Close, Archive
      <4>4. CASE CloseArchive(p)
        BY <3>1, <3>2, <3>3, <4>4 DEF CloseArchive, Close, Archive
      <4> QED
        BY <1>2, <2>2, <3>3, <4>1, <4>2, <4>3, <4>4
        DEF StepOf, StartRestore, RestoreOpen, RestoreFill, RestoreMissing, FinishRestore,
            StartPrune, DeleteNext, FinishPrune, Begin, Adding
    <3>6. ~More(p) BY <3>5 DEF CloseArchive
    <3>7. f \in File /\ f \in Current(p).listed BY <3>2, <3>3 DEF Archive, Current
    <3>8. PICK k \in 1..Len(Files) : f = Files[k] BY <3>7, FilesType
    <3>9. k < position[p]
      <4>1. position[p] \in Nat BY FilesType DEF TypeOK
      <4>2. k \notin Rest(p) BY <3>6 DEF More
      <4> QED BY <3>7, <3>8, <4>1, <4>2, FilesType DEF Rest
    <3>10. Current(p).entry[f] # NoFile
      BY <3>3, <3>5, <3>7, <3>8, <3>9, FilesType DEF CreationHeld
    <3> QED BY <3>3, <3>5, <3>10 DEF Current
  <2> QED BY <2>1, <2>2
<1> QED BY <1>1, <1>2 DEF Next, StepOf, vars, locals, Edit

---------------------------------------------------------------------------
\* Restores that nobody disturbs

Restored(p, i) ==
  \/ pc[p] = "fill" /\ i = Place(p)
  \/ live[Files[i]] = IF Files[i] \in Current(p).listed /\ i < position[p]
                      THEN Current(p).entry[Files[i]] ELSE before[p][Files[i]]

LEMMA RestoreStep ==
  TypeOK /\ ArchivesHeld /\ RestoreHeld /\ [Next]_vars => RestoreHeld'
<1> SUFFICES ASSUME TypeOK, ArchivesHeld, RestoreHeld, [Next]_vars PROVE RestoreHeld'
    OBVIOUS
<1>h. ASSUME NEW p \in Proc, Restoring(p), ~disturbed[p], NEW i \in DOMAIN Files
      PROVE  Restored(p, i)
  BY <1>h DEF RestoreHeld, Restored
<1>g. (\A p \in Proc, i \in DOMAIN Files :
         Restoring(p)' /\ ~disturbed'[p] => Restored(p, i)') => RestoreHeld'
  BY DEF RestoreHeld, Restored
<1>1. CASE UNCHANGED vars
  BY <1>1 DEF vars, locals, RestoreHeld, Restoring, Current, Place, Rest
<1>2. ASSUME NEW p \in Proc, StepOf(p), NEW q \in Proc, NEW i \in DOMAIN Files,
             Restoring(q)', ~disturbed'[q]
      PROVE  Restored(q, i)'
  <2>1. CASE q # p
    <3>1. /\ Restoring(q) /\ position'[q] = position[q] /\ before'[q] = before[q]
          /\ pc'[q] = pc[q]
      BY <1>2, <2>1, Frame DEF OthersStay, Restoring
    <3>2. live' = live /\ ~disturbed[q] BY <1>2, <2>1, LiveOrTouched
    <3>3. /\ subject[q] \in DOMAIN archive
          /\ \/ Current(q)' = Current(q)
             \/ Current(q)' = [Current(q) EXCEPT !.state = "deleted"]
          /\ Rest(q)' = Rest(q)
      BY <1>2, <2>1, <3>1, OtherArchive
    <3>4. Current(q) \in Archive BY <3>3, ArchiveType DEF Current
    <3>5. /\ Current(q)'.listed = Current(q).listed /\ Current(q)'.entry = Current(q).entry
          /\ Place(q)' = Place(q)
      BY <3>3, <3>4 DEF Archive, Place
    <3>6. Restored(q, i) BY <1>h, <3>1, <3>2
    <3> QED BY <3>1, <3>2, <3>5, <3>6 DEF Restored
  <2>2. CASE q = p /\ \E a \in DOMAIN archive : StartRestore(p, a)
    <3>1. live' = live /\ before'[p] = live /\ position'[p] = 1
      BY <2>2 DEF StartRestore, Begin, TypeOK
    <3>2. ~ (i < 1) BY FilesType
    <3> QED BY <2>2, <3>1, <3>2 DEF Restored
  <2>3. CASE q = p /\ RestoreOpen(p)
    <3>1. /\ UNCHANGED <<archive, subject, position, before>> /\ pc'[p] = "fill"
          /\ pc[p] = "restore" /\ ~disturbed[p] /\ More(p)
          /\ live' = [live EXCEPT ![NextFile(p)] = Blank]
      BY <1>2, <2>3 DEF RestoreOpen, Goto, Touch, TypeOK
    <3>2. Place(p)' = Place(p) /\ Current(p)' = Current(p)
      BY <3>1 DEF Place, Rest, Current
    <3>3. CASE i = Place(p) BY <2>3, <3>1, <3>2, <3>3 DEF Restored
    <3>4. CASE i # Place(p)
      <4>1. Place(p) \in 1..Len(Files) BY <3>1, PlaceFirst, FilesType DEF TypeOK
      <4>2. Files[i] # NextFile(p) BY <3>4, <4>1, FilesType DEF NextFile
      <4>3. Files[i] \in File BY FilesType
      <4>4. live'[Files[i]] = live[Files[i]] BY <3>1, <4>2, <4>3 DEF TypeOK
      <4>5. Restored(p, i) BY <1>h, <3>1 DEF Restoring
      <4> QED BY <2>3, <3>1, <3>2, <4>4, <4>5 DEF Restored
    <3> QED BY <3>3, <3>4
  <2>4. CASE q = p /\ RestoreFill(p)
    <3>1. /\ UNCHANGED <<archive, subject, before>> /\ pc[p] = "fill" /\ ~disturbed[p]
          /\ position'[p] = Place(p) + 1
          /\ live' = [live EXCEPT ![NextFile(p)] = Current(p).entry[NextFile(p)]]
      BY <1>2, <2>4 DEF RestoreFill, Touch, TypeOK
    <3>2. More(p) BY <3>1 DEF ArchivesHeld, Holds
    <3>3. /\ Place(p) \in position[p]..Len(Files) /\ NextFile(p) \in File
          /\ NextFile(p) \in Current(p).listed
          /\ \A k \in position[p]..Len(Files) :
               Files[k] \in Current(p).listed => Place(p) <= k
      BY <3>2, PlaceFirst
    <3>4. Current(p)' = Current(p) BY <3>1 DEF Current
    <3>5. i \in 1..Len(Files) /\ Files[i] \in File /\ position[p] \in Nat /\ position[p] >= 1
      BY FilesType DEF TypeOK
    <3>6. CASE i = Place(p)
      <4>1. live'[Files[i]] = Current(p).entry[Files[i]]
        BY <3>1, <3>3, <3>6 DEF NextFile, TypeOK
      <4>2. Files[i] \in Current(p).listed /\ i < position'[p]
        BY <3>1, <3>3, <3>5, <3>6 DEF NextFile
      <4> QED BY <2>4, <3>4, <4>1, <4>2 DEF Restored
    <3>7. CASE i # Place(p)
      <4>1. Files[i] # NextFile(p) BY <3>3, <3>5, <3>7, FilesType DEF NextFile
      <4>2. live'[Files[i]] = live[Files[i]] BY <3>1, <3>5, <4>1 DEF TypeOK
      <4>3. Restored(p, i) BY <1>h, <3>1 DEF Restoring
      <4>4. Files[i] \in Current(p).listed => (i < position[p] <=> i < position'[p])
        BY <3>1, <3>3, <3>5, <3>7
      <4> QED BY <2>4, <3>1, <3>4, <3>7, <4>2, <4>3, <4>4 DEF Restored
    <3> QED BY <3>6, <3>7
  <2>5. CASE q = p /\ FinishRestore(p)
    <3>1. UNCHANGED <<live, archive, subject, position, before, disturbed>> /\ pc[p] = "restore"
      BY <2>5 DEF FinishRestore
    <3>2. Restored(p, i) BY <1>2, <1>h, <2>5, <3>1 DEF Restoring
    <3> QED BY <2>5, <3>1, <3>2 DEF Restored, Current
  <2>6. \/ q # p \/ RestoreOpen(p) \/ RestoreFill(p) \/ FinishRestore(p)
        \/ \E a \in DOMAIN archive : StartRestore(p, a)
    BY <1>2
    DEF StepOf, StartCreate, AddFile, AddFails, CloseArchive, RestoreMissing,
        StartPrune, DeleteNext, FinishPrune, Crash, Goto, Restoring, Steps, TypeOK
  <2> QED BY <2>1, <2>2, <2>3, <2>4, <2>5, <2>6
<1>3. ASSUME NEW f \in File, NEW version \in Version \cup {NoFile}, Edit(f, version)
      PROVE  RestoreHeld'
  BY <1>3 DEF Edit, RestoreHeld
<1> QED
  <2>1. ASSUME NEW p \in Proc, StepOf(p) PROVE RestoreHeld' BY <1>2, <1>g, <2>1
  <2> QED BY <1>1, <1>3, <2>1 DEF Next, StepOf

---------------------------------------------------------------------------
\* What prunes leave

\* A set of places that is not empty has a last one.
LEMMA LastOfPlaces ==
  ASSUME NEW N \in Nat, NEW S \in SUBSET (1..N), S # {}
  PROVE  \E m \in S : \A n \in S : n <= m
<1> DEFINE D == {N - n : n \in S}
<1>1. D \in SUBSET Nat /\ D # {}
  <2>1. \A n \in S : N - n \in Nat OBVIOUS
  <2> QED BY <2>1
<1>2. Min(D) \in D /\ \A d \in D : Min(D) <= d
  <2> HIDE DEF D
  <2> QED BY <1>1, MinOfNaturals
<1>3. PICK m \in S : Min(D) = N - m BY <1>2
<1>4. ASSUME NEW n \in S PROVE n <= m
  <2>1. N - n \in D OBVIOUS
  <2>2. N - m <= N - n BY <1>2, <1>3, <2>1
  <2> QED BY <2>2
<1> QED BY <1>4

\* More places hold at least as many.
LEMMA AtLeast ==
  ASSUME NEW N \in Nat, NEW S \in SUBSET (1..N), NEW T \in SUBSET S,
         Cardinality(T) >= Keep
  PROVE  Cardinality(S) >= Keep
<1>1. IsFiniteSet(S)
  <2>1. IsFiniteSet(1..N) BY FS_Interval
  <2> QED BY <2>1, FS_Subset
<1>2. Cardinality(T) <= Cardinality(S) /\ IsFiniteSet(T) BY <1>1, FS_Subset
<1>3. Cardinality(S) \in Nat /\ Cardinality(T) \in Nat /\ Keep \in Nat
  BY <1>1, <1>2, FS_CardinalityType, BackupAssumption
<1> QED BY <1>2, <1>3

\* Of the places after one that has Keep after it, Keep are not removable.
LEMMA NewestStay ==
  ASSUME NEW N \in Nat, NEW P \in SUBSET (1..N), NEW i \in 1..N,
         Cardinality(After(i, P)) >= Keep
  PROVE  Cardinality(After(i, P \ Removable(P))) >= Keep
<1> DEFINE S == After(i, P) \cap Removable(P)
<1>1. CASE S = {}
  <2>1. After(i, P \ Removable(P)) = After(i, P) BY <1>1 DEF After
  <2> QED BY <2>1
<1>2. CASE S # {}
  <2>1. S \in SUBSET (1..N) BY DEF After
  <2>2. PICK m \in S : \A n \in S : n <= m
    <3> HIDE DEF S
    <3> QED BY <1>2, <2>1, LastOfPlaces
  <2>3. Cardinality(After(m, P)) >= Keep BY DEF Removable, After
  <2>4. After(m, P) \subseteq After(i, P \ Removable(P))
    <3>1. ASSUME NEW j \in After(m, P) PROVE j \in P /\ j > i /\ j \notin Removable(P)
      <4>1. j \in P /\ j > m /\ m > i /\ m \in 1..N /\ j \in 1..N BY <3>1, <2>1 DEF After
      <4>2. j \in After(i, P) BY <4>1 DEF After
      <4>3. ~ (j <= m) BY <4>1
      <4> QED BY <2>2, <4>1, <4>2, <4>3
    <3> QED BY <3>1 DEF After
  <2>5. After(i, P \ Removable(P)) \in SUBSET (1..N) BY DEF After
  <2> QED BY <2>3, <2>4, <2>5, AtLeast
<1> QED BY <1>1, <1>2

LEMMA PresentType ==
  ASSUME TypeOK
  PROVE  /\ Len(archive) \in Nat /\ Present \in SUBSET (1..Len(archive))
         /\ Safe \in SUBSET Present /\ DOMAIN archive = 1..Len(archive)
BY LenProperties DEF TypeOK, Present, Safe

LEMMA DoomedStep ==
  TypeOK /\ ArchivesHeld /\ DoomedHaveSuccessors /\ TypeOK' /\ [Next]_vars
  => DoomedHaveSuccessors'
<1> SUFFICES ASSUME TypeOK, ArchivesHeld, DoomedHaveSuccessors, TypeOK', [Next]_vars,
                    NEW q \in Proc, NEW i \in doomed'[q]
             PROVE  Cardinality(After(i, Safe)') >= Keep
    BY DEF DoomedHaveSuccessors, After
<1>1. ASSUME i \in doomed[q], Safe \subseteq Safe' PROVE Cardinality(After(i, Safe)') >= Keep
  <2>1. Cardinality(After(i, Safe)) >= Keep BY <1>1 DEF DoomedHaveSuccessors
  <2>2. After(i, Safe) \subseteq After(i, Safe)' BY <1>1 DEF After
  <2>3. After(i, Safe)' \in SUBSET (1..Len(archive')) /\ Len(archive') \in Nat
    BY LenProperties DEF After, Safe, Present, TypeOK
  <2> QED BY <2>1, <2>2, <2>3, AtLeast
<1>2. CASE UNCHANGED <<archive, doomed>>
  <2>1. Safe' = Safe BY <1>2 DEF Safe, Present
  <2> QED BY <1>1, <1>2, <2>1
<1>3. ASSUME NEW p \in Proc, StartCreate(p) PROVE Cardinality(After(i, Safe)') >= Keep
  <2>1. \A j \in DOMAIN archive : j \in DOMAIN archive' /\ archive'[j] = archive[j]
    BY <1>3, LenProperties DEF StartCreate, TypeOK
  <2>2. doomed' = doomed BY <1>3 DEF StartCreate
  <2>3. Safe \subseteq Safe' BY <2>1, <2>2 DEF Safe, Present
  <2> QED BY <1>1, <2>2, <2>3
<1>4. ASSUME NEW p \in Proc,
             AddFile(p) \/ AddFails(p) \/ CloseArchive(p) \/ Crash(p)
      PROVE  Cardinality(After(i, Safe)') >= Keep
  <2>1. (doomed' = doomed /\ StepOf(p) /\ pc[p] # "delete") \/ UNCHANGED <<archive, doomed>>
    BY <1>4 DEF StepOf, AddFile, AddFails, CloseArchive, Crash
  <2>2. CASE UNCHANGED <<archive, doomed>> BY <1>2, <2>2
  <2>3. CASE doomed' = doomed /\ StepOf(p) /\ pc[p] # "delete"
    <3>1. ASSUME NEW j \in Present PROVE j \in Present'
      <4>1. archive[j] \in Archive /\ j \in DOMAIN archive BY ArchiveType DEF Present
      <4>2. /\ j \in DOMAIN archive'
            /\ archive'[j] = archive[j] \/ (Adding(p) /\ j = subject[p])
        BY <2>3, <4>1, Frame DEF ArchivesStay
      <4>3. Adding(p) /\ j = subject[p] => archive'[j].state # "deleted"
        <5>1. CASE AddFile(p)
          BY <4>1, <5>1 DEF AddFile, Archive, Present
        <5>2. CASE AddFails(p) \/ CloseArchive(p)
          <6>1. PICK clean \in BOOLEAN : Close(p, clean)
            BY <5>2 DEF AddFails, CloseArchive, TypeOK
          <6> QED BY <4>1, <6>1 DEF Close, Archive
        <5>3. CASE Crash(p) BY <4>1, <5>3 DEF Crash, Adding, Archive
        <5> QED BY <1>4, <5>1, <5>2, <5>3
      <4> QED BY <4>1, <4>2, <4>3 DEF Present
    <3>2. Safe \subseteq Safe' BY <2>3, <3>1 DEF Safe
    <3> QED BY <1>1, <2>3, <3>2
  <2> QED BY <2>1, <2>2, <2>3
<1>5. ASSUME NEW p \in Proc, DeleteNext(p) PROVE Cardinality(After(i, Safe)') >= Keep
  <2> DEFINE m == Min(doomed[p])
  <2>1. m \in doomed[p]
    <3>1. doomed[p] \in SUBSET Nat /\ doomed[p] # {}
      BY <1>5, LenProperties DEF DeleteNext, TypeOK
    <3> QED BY <3>1, MinOfNaturals
  <2>2. /\ archive' = [archive EXCEPT ![m].state = "deleted"]
        /\ \A r \in Proc : doomed'[r] \subseteq doomed[r]
    <3>1. archive' = [archive EXCEPT ![m].state = "deleted"] BY <1>5 DEF DeleteNext
    <3>2. doomed' = [doomed EXCEPT ![p] = @ \ {m}] \/ doomed' = doomed BY <1>5 DEF DeleteNext
    <3>3. doomed \in [Proc -> SUBSET DOMAIN archive] BY DEF TypeOK
    <3> HIDE DEF m
    <3>4. \A r \in Proc : doomed'[r] \subseteq doomed[r] BY <3>2, <3>3
    <3> QED BY <3>1, <3>4
  <2> HIDE DEF m
  <2>3. m \notin Safe BY <2>1 DEF Safe
  <2>4. Safe \subseteq Safe' BY <2>2, <2>3 DEF Safe, Present
  <2> QED BY <1>1, <2>2, <2>4
<1>6. ASSUME NEW p \in Proc, StartPrune(p) PROVE Cardinality(After(i, Safe)') >= Keep
  <2>1. /\ archive' = archive /\ doomed'[p] = Removable(Present)
        /\ \A r \in Proc \ {p} : doomed'[r] = doomed[r]
        /\ p \in DOMAIN doomed
    BY <1>6 DEF StartPrune, TypeOK
  <2>2. Present' = Present BY <2>1 DEF Present
  <2>3. ASSUME NEW r \in Proc, NEW j \in doomed[r] PROVE Cardinality(After(j, Present)) >= Keep
    <3>1. Cardinality(After(j, Safe)) >= Keep BY DEF DoomedHaveSuccessors
    <3>2. After(j, Safe) \subseteq After(j, Present) BY DEF After, Safe
    <3>3. After(j, Present) \in SUBSET (1..Len(archive)) /\ Len(archive) \in Nat
      BY PresentType DEF After
    <3> QED BY <3>1, <3>2, <3>3, AtLeast
  <2>4. Safe' = Present \ Removable(Present)
    <3>1. \A r \in Proc : doomed'[r] \cap Present \subseteq Removable(Present)
      BY <2>1, <2>3 DEF Removable, After
    <3> QED BY <2>1, <2>2, <3>1 DEF Safe
  <2>5. Cardinality(After(i, Present)) >= Keep /\ i \in 1..Len(archive)
    <3>1. CASE q = p BY <2>1, <3>1, PresentType DEF Removable, After
    <3>2. CASE q # p BY <2>1, <2>3, <3>2, PresentType DEF TypeOK
    <3> QED BY <3>1, <3>2
  <2>6. Cardinality(After(i, Present \ Removable(Present))) >= Keep
    BY <2>5, PresentType, NewestStay
  <2> QED BY <2>4, <2>6 DEF After
<1> QED
  <2>1. ASSUME NEW p \in Proc,
               \/ \E a \in DOMAIN archive : StartRestore(p, a)
               \/ RestoreOpen(p) \/ RestoreFill(p) \/ RestoreMissing(p)
               \/ FinishRestore(p) \/ FinishPrune(p)
        PROVE  UNCHANGED <<archive, doomed>>
    BY <2>1 DEF StartRestore, RestoreOpen, RestoreFill, RestoreMissing, FinishRestore,
                FinishPrune
  <2>2. ASSUME NEW f \in File, NEW version \in Version \cup {NoFile}, Edit(f, version)
        PROVE  UNCHANGED <<archive, doomed>>
    BY <2>2 DEF Edit, locals
  <2> QED BY <1>2, <1>3, <1>4, <1>5, <1>6, <2>1, <2>2 DEF Next, vars, locals

---------------------------------------------------------------------------
\* The theorems

LEMMA BackupInvariant == Spec => []BackupInv
<1>1. Init => BackupInv
  <2>1. Init => CreationHeld /\ RestoreHeld /\ DoomedHaveSuccessors /\ CleanArchiveComplete
    BY DEF Init, CreationHeld, RestoreHeld, DoomedHaveSuccessors, CleanArchiveComplete,
           Adding, Restoring
  <2> QED BY <2>1, TypeInitially, HeldInitially DEF BackupInv
<1>2. BackupInv /\ [Next]_vars => BackupInv'
  <2>1. BackupInv /\ [Next]_vars => TypeOK' BY TypeStep DEF BackupInv
  <2> QED
    BY <2>1, HeldStep, CreationStep, RestoreStep, DoomedStep, CompleteStep DEF BackupInv
<1> QED BY <1>1, <1>2, PTL DEF Spec

\* Every variable keeps its type, whatever creates, restores, prunes and kills interleave.
THEOREM BackupTypeSafe == Spec => []TypeOK
<1>1. BackupInv => TypeOK BY DEF BackupInv
<1> QED BY <1>1, BackupInvariant, PTL

\* An archive whose creation nobody disturbed has an entry for every file its metadata
\* lists, for any number of files and processes (create).
THEOREM ArchivesComplete == Spec => []CleanArchiveComplete
<1>1. BackupInv => CleanArchiveComplete BY DEF BackupInv
<1> QED BY <1>1, BackupInvariant, PTL

\* A restore that nobody disturbed ends with every listed file as archived and every other
\* file as it was, whatever other processes write, prune or delete meanwhile (restore).
THEOREM RestoresFaithful == Spec => []RestoreFaithful
<1>1. BackupInv => RestoreFaithful
  <2> SUFFICES ASSUME BackupInv, NEW p \in Proc, pc[p] = "restored", ~disturbed[p],
                      NEW f \in File
               PROVE  live[f] = IF f \in Current(p).listed THEN Current(p).entry[f]
                                ELSE before[p][f]
      BY DEF RestoreFaithful
  <2>1. PICK i \in 1..Len(Files) : f = Files[i] BY FilesType
  <2>2. Restoring(p) /\ ~More(p)
    BY DEF BackupInv, ArchivesHeld, Holds, Restoring
  <2>3. live[f] = IF f \in Current(p).listed /\ i < position[p]
                  THEN Current(p).entry[f] ELSE before[p][f]
    BY <2>1, <2>2, FilesType DEF BackupInv, RestoreHeld
  <2>4. f \in Current(p).listed => i < position[p]
    <3>1. position[p] \in Nat /\ Len(Files) \in Nat BY FilesType DEF BackupInv, TypeOK
    <3> QED BY <2>1, <2>2, <3>1 DEF More, Rest
  <2> QED BY <2>3, <2>4
<1> QED BY <1>1, BackupInvariant, PTL

\* An archive is deleted only when it is readable and Keep newer ones stay, for any number
\* of prunes that run at once (prune).
THEOREM NewestKept == Spec => PruneKeepsNewest
<1> DEFINE Kept == \A i \in Present : archive'[i].state = "deleted" =>
             /\ archive[i].state = "closed"
             /\ Cardinality({j \in DOMAIN archive : j > i /\ archive'[j].state # "deleted"}) >= Keep
<1>1. BackupInv /\ [Next]_vars => [Kept]_archive
  <2> SUFFICES ASSUME BackupInv, [Next]_vars, archive' # archive,
                      NEW i \in Present, archive'[i].state = "deleted"
               PROVE  /\ archive[i].state = "closed"
                      /\ Cardinality({j \in DOMAIN archive :
                                        j > i /\ archive'[j].state # "deleted"}) >= Keep
      OBVIOUS
  <2> USE DEF BackupInv
  <2>1. PICK p \in Proc : StepOf(p)
    BY DEF Next, StepOf, vars, Edit
  <2>2. /\ \A j \in Present : archive[j] \in Archive /\ j \in DOMAIN archive
        /\ archive[i].state # "deleted"
    BY ArchiveType DEF Present
  <2>3. ASSUME NEW j \in Present, archive'[j].state = "deleted" PROVE j \in doomed[p]
    <3>1. CASE Adding(p) /\ j = subject[p]
      <4>1. CASE AddFile(p)
        BY <2>2, <2>3, <3>1, <4>1 DEF AddFile, Archive, Present
      <4>2. CASE AddFails(p) \/ CloseArchive(p)
        <5>1. PICK clean \in BOOLEAN : Close(p, clean)
          BY <4>2 DEF AddFails, CloseArchive, TypeOK
        <5> QED BY <2>2, <2>3, <3>1, <5>1 DEF Close, Archive
      <4>3. CASE Crash(p) BY <2>2, <2>3, <3>1, <4>3 DEF Crash, Adding, Archive
      <4> QED
        BY <2>1, <3>1, <4>1, <4>2, <4>3
        DEF StepOf, StartCreate, StartRestore, RestoreOpen, RestoreFill, RestoreMissing,
            FinishRestore, StartPrune, DeleteNext, FinishPrune, Begin, Adding
    <3>2. CASE ~ (Adding(p) /\ j = subject[p])
      <4>1. archive'[j] # archive[j] BY <2>3 DEF Present
      <4> QED BY <2>1, <2>2, <3>2, <4>1, Frame DEF ArchivesStay
    <3> QED BY <3>1, <3>2
  <2>4. archive[i].state = "closed"
    BY <2>2, <2>3 DEF ArchivesHeld, Holds
  <2>5. Cardinality(After(i, Safe)) >= Keep BY <2>3 DEF DoomedHaveSuccessors
  <2> DEFINE Left == {j \in DOMAIN archive : j > i /\ archive'[j].state # "deleted"}
  <2>6. After(i, Safe) \subseteq Left BY <2>2, <2>3 DEF After, Safe
  <2>7. Left \in SUBSET (1..Len(archive)) /\ Len(archive) \in Nat BY PresentType
  <2>8. Cardinality(Left) >= Keep
    <3> HIDE DEF Left
    <3> QED BY <2>5, <2>6, <2>7, AtLeast
  <2> QED BY <2>4, <2>8
<1> QED BY <1>1, BackupInvariant, PTL DEF Spec, PruneKeepsNewest
=============================================================================
