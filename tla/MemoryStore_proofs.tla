-------------------------- MODULE MemoryStore_proofs --------------------------
(***************************************************************************)
(* Proofs about MemoryStore, for any processes, ids, texts and old rows.   *)
(***************************************************************************)
EXTENDS MemoryStore, TLAPS

\* Setting or removing one memory leaves a table of memories.
LEMMA RowsExcept ==
  ASSUME NEW table \in Rows, NEW i \in Id, NEW text \in Text \cup {Gone}
  PROVE  [table EXCEPT ![i] = text] \in Rows
BY DEF Rows

LEMMA EmptyType == Empty \in Rows
BY DEF Empty, Rows

\* What a write does to the tables, to the index and to the store's opinion of it.
LEMMA WriteType ==
  ASSUME TypeOK, NEW p \in Proc, NEW i \in Id, NEW text \in Text \cup {Gone}, Write(p, i, text)
  PROVE  TypeOK'
<1>1. rows' \in Rows /\ expected' \in Rows
  BY RowsExcept DEF Write, TypeOK
<1>2. fts' \in Rows \cup {NoTable}
  <2>1. CASE HasIndex(p)
    <3>1. fts \in Rows BY <2>1 DEF HasIndex, TypeOK
    <3>2. fts' = [fts EXCEPT ![i] = text] BY <2>1 DEF Write, Reindex
    <3> QED BY <3>1, <3>2, RowsExcept
  <2>2. CASE ~HasIndex(p)
    BY <2>2 DEF Write, Reindex, TypeOK
  <2> QED BY <2>1, <2>2
<1>3. available' \in [Proc -> BOOLEAN] /\ degraded' \in BOOLEAN
  BY DEF Write, CheckIndex, HasIndex, TypeOK
<1>4. writes' \in Nat BY DEF Write, TypeOK
<1> QED BY <1>1, <1>2, <1>3, <1>4 DEF Write, TypeOK

\* Building the index, or giving it up, keeps the types of what it changes.
LEMMA IndexType ==
  ASSUME TypeOK, rows' \in Rows, NEW p \in Proc, EnsureFts(p)
  PROVE  /\ fts' \in Rows \cup {NoTable} /\ available' \in [Proc -> BOOLEAN]
         /\ timeouts' \in Nat /\ degraded' \in BOOLEAN
<1>1. fts' \in Rows \cup {NoTable} BY DEF EnsureFts, TypeOK
<1>2. available' \in [Proc -> BOOLEAN] BY DEF EnsureFts, TypeOK
<1>3. timeouts' \in Nat BY DEF EnsureFts, TypeOK
<1>4. degraded' \in BOOLEAN BY DEF EnsureFts, TypeOK
<1> QED BY <1>1, <1>2, <1>3, <1>4

LEMMA TypeInit == Init => TypeOK
<1> SUFFICES ASSUME Init PROVE TypeOK OBVIOUS
<1>1. rows \in Rows /\ expected \in Rows /\ schema \in {"none", "old", "new"}
  BY MemoryAssumption, EmptyType DEF Init
<1>2. held \in [Proc -> Rows] /\ available \in [Proc -> BOOLEAN] /\ pc \in [Proc -> Steps]
  BY EmptyType DEF Init, Steps
<1> QED BY <1>1, <1>2 DEF Init, TypeOK

LEMMA TypeStep == TypeOK /\ [Next]_vars => TypeOK'
<1> SUFFICES ASSUME TypeOK, [Next]_vars PROVE TypeOK'
  OBVIOUS
<1> USE DEF Goto, Steps
<1>1. CASE UNCHANGED vars
  BY <1>1 DEF vars, tables, bounds, history, TypeOK
<1>2. ASSUME NEW p \in Proc, Open(p) \/ Inspect(p) \/ Select(p) \/ DropIndex(p) PROVE TypeOK'
  <2>1. CASE Open(p) BY <2>1 DEF Open, tables, history, TypeOK
  <2>2. CASE Inspect(p)
    <3>1. contended' \in BOOLEAN BY <2>2 DEF Inspect
    <3>2. pc' \in [Proc -> Steps] BY <2>2 DEF Inspect, TypeOK
    <3> QED BY <2>2, <3>1, <3>2 DEF Inspect, tables, bounds, TypeOK
  <2>3. CASE Select(p) \/ DropIndex(p)
    BY <2>3 DEF Select, DropIndex, tables, bounds, history, TypeOK
  <2> QED BY <1>2, <2>1, <2>2, <2>3
<1>3. ASSUME NEW p \in Proc, Rename(p) \/ Create(p) \/ EnsureSchema(p) PROVE TypeOK'
  <2>1. CASE Rename(p) \/ Create(p)
    BY <2>1, EmptyType DEF Rename, Create, bounds, history, TypeOK
  <2>2. CASE EnsureSchema(p)
    <3>1. rows' \in Rows BY <2>2 DEF EnsureSchema, TypeOK
    <3> QED BY <2>2, <3>1, IndexType DEF EnsureSchema, TypeOK
  <2> QED BY <1>3, <2>1, <2>2
<1>4. ASSUME NEW p \in Proc, Copy(p) PROVE TypeOK'
  <2>1. rows' \in Rows
    BY <1>4 DEF Copy, TypeOK, Rows
  <2> QED BY <1>4, <2>1, IndexType DEF Copy, TypeOK
<1>5. ASSUME NEW p \in Proc, Conflict(p) \/ Crash(p) \/ Close(p) PROVE TypeOK'
  BY <1>5 DEF Conflict, Crash, Close, Abort, tables, bounds, history, TypeOK
<1>6. ASSUME NEW p \in Proc, NEW i \in Id, NEW text \in Text, AddMemory(p, i, text) PROVE TypeOK'
  BY <1>6, WriteType DEF AddMemory
<1>7. ASSUME NEW p \in Proc, NEW i \in Id, DeleteMemory(p, i) PROVE TypeOK'
  BY <1>7, WriteType DEF DeleteMemory
<1>8. ASSUME NEW p \in Proc, Search(p) \/ SearchLocked(p) PROVE TypeOK'
  <2>1. available' \in [Proc -> BOOLEAN] /\ degraded' \in BOOLEAN
    BY <1>8 DEF Search, SearchLocked, CheckIndex, HasIndex, TypeOK
  <2> QED BY <1>8, <2>1 DEF Search, SearchLocked, tables, bounds, TypeOK
<1> QED BY <1>1, <1>2, <1>3, <1>4, <1>5, <1>6, <1>7, <1>8 DEF Next

\* Tables, index and stores keep their types, whatever a migration runs into.
THEOREM TypeCorrect == Spec => []TypeOK
BY TypeInit, TypeStep, PTL DEF Spec

---------------------------------------------------------------------------
\* Nothing makes a table of the old schema, so it is there only before a migration
\* got as far as renaming it, untouched.
OldUntouched ==
  schema = "old" =>
    /\ legacy = NoTable
    /\ rows = expected
    /\ \A p \in Proc : pc[p] \notin {"ensure", "ready", "create", "copy"}

LEMMA OldUntouchedInit == Init => OldUntouched
BY DEF Init, OldUntouched

LEMMA OldUntouchedStep == TypeOK /\ OldUntouched /\ [Next]_vars => OldUntouched'
<1> SUFFICES ASSUME TypeOK, OldUntouched, [Next]_vars PROVE OldUntouched'
  OBVIOUS
<1>1. pc \in [Proc -> Steps] BY DEF TypeOK
<1> USE DEF Goto, Steps, OldUntouched
<1>2. CASE UNCHANGED vars
  BY <1>2 DEF vars, tables, bounds, history
<1>3. ASSUME NEW p \in Proc, Open(p) \/ Inspect(p) \/ Select(p) \/ DropIndex(p) PROVE OldUntouched'
  BY <1>1, <1>3 DEF Open, Inspect, Select, DropIndex, tables, bounds, history
<1>4. ASSUME NEW p \in Proc, Rename(p) \/ Create(p) \/ EnsureSchema(p) \/ Copy(p) PROVE OldUntouched'
  BY <1>1, <1>4 DEF Rename, Create, EnsureSchema, Copy, bounds, history
<1>5. ASSUME NEW p \in Proc, Conflict(p) \/ Crash(p) \/ Close(p) PROVE OldUntouched'
  BY <1>1, <1>5 DEF Conflict, Crash, Close, Abort, tables, bounds, history
<1>6. ASSUME NEW p \in Proc, NEW i \in Id, NEW text, Write(p, i, text) PROVE OldUntouched'
  BY <1>6 DEF Write
<1>7. ASSUME NEW p \in Proc, Search(p) \/ SearchLocked(p) PROVE OldUntouched'
  BY <1>7 DEF Search, SearchLocked, tables, bounds
<1> QED BY <1>2, <1>3, <1>4, <1>5, <1>6, <1>7 DEF Next, AddMemory, DeleteMemory

---------------------------------------------------------------------------
\* The progress of the one migration there is while nobody opens the store beside it:
\* what it holds, what is in which table, and that no store is open.
Alone ==
  ~contended => \A p \in Proc : Migrating(p) =>
    /\ \A q \in Proc \ {p} : ~Migrating(q) /\ pc[q] \notin {"ensure", "ready"}
    /\ pc[p] \in {"select", "dropIndex", "rename"} => schema = "old"
    /\ pc[p] \in {"dropIndex", "rename"} => held[p] = expected
    /\ pc[p] \in {"rename", "create", "copy"} => fts = NoTable
    /\ pc[p] \in {"create", "copy"} =>
         /\ legacy = expected /\ held[p] = expected /\ rows = Empty
         /\ schema = IF pc[p] = "create" THEN "none" ELSE "new"

LEMMA AloneInit == Init => Alone
BY DEF Init, Alone, Migrating

LEMMA AloneStep == TypeOK /\ OldUntouched /\ Alone /\ [Next]_vars => Alone'
<1> SUFFICES ASSUME TypeOK, OldUntouched, Alone, [Next]_vars, ~contended' PROVE Alone'
  BY DEF Alone
<1>1. pc \in [Proc -> Steps] /\ held \in [Proc -> Rows] BY DEF TypeOK
<1> USE DEF Goto, Steps, Migrating
<1>2. CASE UNCHANGED vars
  BY <1>2 DEF vars, tables, bounds, history, Alone
<1>3. ASSUME NEW p \in Proc, Open(p) PROVE Alone'
  BY <1>1, <1>3 DEF Open, tables, history, Alone
<1>4. ASSUME NEW p \in Proc, Inspect(p) PROVE Alone'
  <2>1. \A q \in Proc \ {p} : ~Migrating(q) BY <1>4 DEF Inspect
  <2>2. pc' = [pc EXCEPT ![p] = IF schema = "old" THEN "select" ELSE "ensure"]
        /\ UNCHANGED <<tables, held>>
    BY <1>4 DEF Inspect
  <2> QED BY <1>1, <2>1, <2>2 DEF tables, Alone, OldUntouched
<1>5. ASSUME NEW p \in Proc, Select(p) \/ DropIndex(p) PROVE Alone'
  BY <1>1, <1>5 DEF Select, DropIndex, tables, bounds, history, Alone, OldUntouched
<1>6. ASSUME NEW p \in Proc, Rename(p) \/ Create(p) PROVE Alone'
  BY <1>1, <1>6 DEF Rename, Create, bounds, history, Alone, OldUntouched
<1>7. ASSUME NEW p \in Proc, Copy(p) PROVE Alone'
  <2>1. ~contended /\ Migrating(p) BY <1>7 DEF Copy, history
  <2>2. \A q \in Proc : ~Migrating(q)'
    BY <1>1, <1>7, <2>1 DEF Copy, Alone
  <2> QED BY <2>2 DEF Alone
<1>8. ASSUME NEW p \in Proc, EnsureSchema(p) PROVE Alone'
  <2>1. ~contended /\ pc[p] = "ensure" /\ pc' = [pc EXCEPT ![p] = "ready"]
    BY <1>8 DEF EnsureSchema, history
  <2>2. \A q \in Proc : ~Migrating(q)' BY <1>1, <2>1 DEF Alone
  <2> QED BY <2>2 DEF Alone
<1>9. ASSUME NEW p \in Proc, Conflict(p) \/ Crash(p) \/ Close(p) PROVE Alone'
  BY <1>1, <1>9 DEF Conflict, Crash, Close, Abort, tables, bounds, history, Alone
<1>10. ASSUME NEW p \in Proc, NEW i \in Id, NEW text, Write(p, i, text) PROVE Alone'
  <2>1. ~contended /\ pc[p] = "ready" /\ pc' = pc BY <1>10 DEF Write
  <2>2. \A q \in Proc : ~Migrating(q)' BY <1>1, <2>1 DEF Alone
  <2> QED BY <2>2 DEF Alone
<1>11. ASSUME NEW p \in Proc, Search(p) \/ SearchLocked(p) PROVE Alone'
  BY <1>11 DEF Search, SearchLocked, tables, bounds, Alone
<1> QED BY <1>2, <1>3, <1>4, <1>5, <1>6, <1>7, <1>8, <1>9, <1>10, <1>11
        DEF Next, AddMemory, DeleteMemory

---------------------------------------------------------------------------
\* The rows a migration copies into the empty table are all it held.
LEMMA CopiedRows ==
  ASSUME TypeOK, Alone, NEW p \in Proc, Copy(p), ~contended
  PROVE  rows' = expected
<1>1. held[p] = expected /\ rows = Empty
  BY DEF Copy, Alone, Migrating
<1>2. rows' = [i \in Id |-> IF held[p][i] # Gone THEN held[p][i] ELSE rows[i]]
  BY DEF Copy
<1>3. rows' = [i \in Id |-> expected[i]]
  BY <1>1, <1>2 DEF Empty
<1>4. expected \in [Id -> Text \cup {Gone}]
  BY DEF TypeOK, Rows
<1> QED BY <1>3, <1>4

LEMMA KeptStep == TypeOK /\ OldUntouched /\ Alone /\ NoMemoryLost /\ [Next]_vars => NoMemoryLost'
<1> SUFFICES ASSUME TypeOK, OldUntouched, Alone, NoMemoryLost, [Next]_vars, ~contended'
             PROVE  NoMemoryLost'
  BY DEF NoMemoryLost
<1>1. ASSUME UNCHANGED <<rows, legacy, expected>>, ~contended PROVE NoMemoryLost'
  BY <1>1 DEF NoMemoryLost
<1>2. CASE UNCHANGED vars
  BY <1>1, <1>2 DEF vars, tables, history
<1>3. ASSUME NEW p \in Proc, Open(p) \/ Inspect(p) \/ Select(p) \/ DropIndex(p) PROVE NoMemoryLost'
  BY <1>1, <1>3 DEF Open, Inspect, Select, DropIndex, tables, history
<1>4. ASSUME NEW p \in Proc, Rename(p) PROVE NoMemoryLost'
  <2>1. ~contended /\ Migrating(p) /\ pc[p] = "rename"
    BY <1>4 DEF Rename, history, Migrating
  <2>2. rows = expected BY <2>1 DEF Alone, OldUntouched
  <2>3. legacy' = expected /\ expected' = expected /\ expected # NoTable
    BY <1>4, <2>2, MemoryAssumption DEF Rename, history, TypeOK
  <2> QED BY <2>3 DEF NoMemoryLost
<1>5. ASSUME NEW p \in Proc, Copy(p) PROVE NoMemoryLost'
  <2>1. ~contended /\ expected' = expected BY <1>5 DEF Copy, history
  <2>2. rows' = expected BY <1>5, <2>1, CopiedRows
  <2> QED BY <2>1, <2>2 DEF NoMemoryLost
<1>6. ASSUME NEW p \in Proc, Create(p) \/ EnsureSchema(p) PROVE NoMemoryLost'
  BY <1>1, <1>6 DEF Create, EnsureSchema, history
<1>7. ASSUME NEW p \in Proc, Conflict(p) \/ Crash(p) \/ Close(p) PROVE NoMemoryLost'
  BY <1>1, <1>7 DEF Conflict, Crash, Close, Abort, tables, history
<1>8. ASSUME NEW p \in Proc, NEW i \in Id, NEW text, Write(p, i, text) PROVE NoMemoryLost'
  <2>1. /\ rows' = [rows EXCEPT ![i] = text] /\ expected' = [expected EXCEPT ![i] = text]
        /\ UNCHANGED <<legacy, contended>>
    BY <1>8 DEF Write
  <2>2. rows \in [Id -> Text \cup {Gone}] /\ expected \in [Id -> Text \cup {Gone}]
    BY DEF TypeOK, Rows
  <2> QED BY <2>1, <2>2 DEF NoMemoryLost
<1>9. ASSUME NEW p \in Proc, Search(p) \/ SearchLocked(p) PROVE NoMemoryLost'
  BY <1>1, <1>9 DEF Search, SearchLocked, tables
<1> QED BY <1>2, <1>3, <1>4, <1>5, <1>6, <1>7, <1>8, <1>9 DEF Next, AddMemory, DeleteMemory

\* Wherever a migration is interrupted, every memory is still in one of two tables, as
\* long as no other store is opened while the migration is under way.
THEOREM NothingLost == Spec => []NoMemoryLost
<1>1. Init => NoMemoryLost BY DEF Init, NoMemoryLost
<1> QED BY TypeInit, TypeStep, OldUntouchedInit, OldUntouchedStep, AloneInit, AloneStep,
           KeptStep, <1>1, PTL DEF Spec

---------------------------------------------------------------------------
\* Without a crash the memories are in their table whenever no migration is between
\* its renaming and its copying; a lone migration meets no conflict there.
Full ==
  ~contended /\ crashes = 0 /\ (\A p \in Proc : pc[p] \notin {"create", "copy"}) => rows = expected

LEMMA NoConflict ==
  ASSUME TypeOK, Alone, ~contended, NEW p \in Proc, Conflict(p)
  PROVE  pc[p] \notin {"create", "copy"}
<1>1. pc[p] = "create" => schema = "none"
  BY DEF Alone, Migrating
<1>2. pc[p] = "copy" => /\ schema = "new" /\ legacy \in Rows /\ \A i \in Id : rows[i] = Gone
  BY DEF Alone, Migrating, Empty, TypeOK
<1> QED BY <1>1, <1>2, MemoryAssumption DEF Conflict

LEMMA FullStep == TypeOK /\ OldUntouched /\ Alone /\ Full /\ [Next]_vars => Full'
<1> SUFFICES ASSUME TypeOK, OldUntouched, Alone, Full, [Next]_vars, ~contended', crashes' = 0,
                    \A p \in Proc : pc'[p] \notin {"create", "copy"}
             PROVE  rows' = expected'
  BY DEF Full
<1>1. pc \in [Proc -> Steps] /\ crashes \in Nat BY DEF TypeOK
<1>2. ASSUME UNCHANGED <<rows, expected>>, ~contended, crashes = 0,
             \A p \in Proc : pc[p] \notin {"create", "copy"}
      PROVE  rows' = expected'
  BY <1>2 DEF Full
<1> USE DEF Goto
<1>3. CASE UNCHANGED vars
  BY <1>2, <1>3 DEF vars, tables, bounds, history
<1>4. ASSUME NEW p \in Proc, Open(p) \/ Inspect(p) \/ Select(p) \/ DropIndex(p) PROVE rows' = expected'
  BY <1>1, <1>2, <1>4 DEF Open, Inspect, Select, DropIndex, tables, bounds, history
<1>5. ASSUME NEW p \in Proc, Rename(p) \/ Create(p) PROVE FALSE
  BY <1>1, <1>5 DEF Rename, Create
<1>6. ASSUME NEW p \in Proc, Copy(p) PROVE rows' = expected'
  BY <1>6, CopiedRows DEF Copy, history
<1>7. ASSUME NEW p \in Proc, EnsureSchema(p) \/ Close(p) \/ Search(p) \/ SearchLocked(p)
      PROVE  rows' = expected'
  BY <1>1, <1>2, <1>7 DEF EnsureSchema, Close, Search, SearchLocked, tables, bounds, history
<1>8. ASSUME NEW p \in Proc, Conflict(p) PROVE rows' = expected'
  <2>1. ~contended /\ crashes = 0 /\ UNCHANGED <<rows, expected>>
    BY <1>8 DEF Conflict, Abort, tables
  <2>2. pc[p] \notin {"create", "copy"} BY <1>8, <2>1, NoConflict
  <2> QED BY <1>1, <1>2, <1>8, <2>1, <2>2 DEF Conflict, Abort
<1>9. ASSUME NEW p \in Proc, Crash(p) PROVE FALSE
  BY <1>1, <1>9 DEF Crash
<1>10. ASSUME NEW p \in Proc, NEW i \in Id, NEW text, Write(p, i, text) PROVE rows' = expected'
  <2>1. rows = expected BY <1>10 DEF Write, Full
  <2> QED BY <1>10, <2>1 DEF Write
<1> QED BY <1>3, <1>4, <1>5, <1>6, <1>7, <1>8, <1>9, <1>10 DEF Next, AddMemory, DeleteMemory

\* A store that is open after migrations nothing interrupted has all memories.
THEOREM EverythingReadable == Spec => []AllReadable
<1>1. Init => Full BY DEF Init, Full
<1>2. Alone /\ Full => AllReadable
  BY DEF Alone, Full, AllReadable, Migrating
<1> QED BY TypeInit, TypeStep, OldUntouchedInit, OldUntouchedStep, AloneInit, AloneStep,
           FullStep, <1>1, <1>2, PTL DEF Spec

---------------------------------------------------------------------------
\* The index.  A store that is open uses the index unless one has given it up.
Indexed ==
  /\ IndexMatches
  /\ ~degraded => \A p \in Proc : pc[p] = "ready" => available[p]

LEMMA IndexedStep == TypeOK /\ OldUntouched /\ Alone /\ Indexed /\ [Next]_vars => Indexed'
<1> SUFFICES ASSUME TypeOK, OldUntouched, Alone, Indexed, [Next]_vars PROVE Indexed'
  OBVIOUS
<1>1. /\ pc \in [Proc -> Steps] /\ available \in [Proc -> BOOLEAN]
      /\ rows \in [Id -> Text \cup {Gone}] /\ (fts # NoTable => fts \in [Id -> Text \cup {Gone}])
  BY DEF TypeOK, Rows
<1> USE DEF Goto, Steps, Indexed, IndexMatches
<1>2. CASE UNCHANGED vars
  BY <1>2 DEF vars, tables, bounds, history
<1>3. ASSUME NEW p \in Proc, Open(p) \/ Inspect(p) PROVE Indexed'
  BY <1>1, <1>3 DEF Open, Inspect, tables, bounds, history
<1>4. ASSUME NEW p \in Proc, Select(p) \/ DropIndex(p) \/ Rename(p) PROVE Indexed'
  BY <1>1, <1>4 DEF Select, DropIndex, Rename, tables, bounds, history
<1>5. ASSUME NEW p \in Proc, Create(p) PROVE Indexed'
  <2>1. ~contended => fts = NoTable BY <1>5 DEF Create, Alone, Migrating
  <2> QED BY <1>1, <1>5, <2>1 DEF Create, history
<1>6. ASSUME NEW p \in Proc, Copy(p) \/ EnsureSchema(p) PROVE Indexed'
  BY <1>1, <1>6 DEF Copy, EnsureSchema, EnsureFts
<1>7. ASSUME NEW p \in Proc, Conflict(p) \/ Crash(p) \/ Close(p) PROVE Indexed'
  BY <1>1, <1>7 DEF Conflict, Crash, Close, Abort, tables, bounds, history
<1>8. ASSUME NEW p \in Proc, NEW i \in Id, NEW text, Write(p, i, text) PROVE Indexed'
  <2>1. /\ pc[p] = "ready" /\ schema = "new" /\ UNCHANGED <<schema, pc, contended>>
        /\ rows' = [rows EXCEPT ![i] = text] /\ Reindex(p, i, text) /\ CheckIndex(p)
    BY <1>8 DEF Write
  <2>2. ASSUME ~degraded' PROVE ~degraded /\ HasIndex(p)
    BY <2>1, <2>2 DEF CheckIndex
  <2>3. ~degraded' => fts' = [fts EXCEPT ![i] = text] /\ fts # NoTable
    BY <2>1, <2>2 DEF Reindex, HasIndex
  <2>4. ~degraded' => available' = [available EXCEPT ![p] = TRUE]
    BY <2>1, <2>2 DEF CheckIndex
  <2>5. IndexMatches' BY <2>1, <2>2, <2>3
  <2> QED BY <1>1, <2>1, <2>2, <2>4, <2>5
<1>9. ASSUME NEW p \in Proc, Search(p) \/ SearchLocked(p) PROVE Indexed'
  <2>1. degraded' BY <1>9 DEF Search, SearchLocked, CheckIndex
  <2> QED BY <2>1
<1> QED BY <1>2, <1>3, <1>4, <1>5, <1>6, <1>7, <1>8, <1>9 DEF Next, AddMemory, DeleteMemory

\* As long as every store uses the index, it holds the memories and nothing else.
THEOREM IndexFollows == Spec => []IndexMatches
<1>1. Init => Indexed BY DEF Init, Indexed, IndexMatches
<1>2. Indexed => IndexMatches BY DEF Indexed
<1> QED BY TypeInit, TypeStep, OldUntouchedInit, OldUntouchedStep, AloneInit, AloneStep,
           IndexedStep, <1>1, <1>2, PTL DEF Spec

\* Only two steps make a store ready, and both leave an index of exactly its rows or a
\* store that does without the index.
LEMMA ReadyIndexed ==
  ASSUME TypeOK, [Next]_vars, NEW p \in Proc, pc[p] # "ready", pc'[p] = "ready"
  PROVE  fts' = rows' \/ ~available'[p]
<1>1. pc \in [Proc -> Steps] /\ available \in [Proc -> BOOLEAN] BY DEF TypeOK
<1> USE <1>1 DEF Goto
<1>2. ASSUME NEW q \in Proc, Open(q) \/ Inspect(q) \/ Select(q) \/ DropIndex(q) PROVE FALSE
  BY <1>2 DEF Open, Inspect, Select, DropIndex
<1>3. ASSUME NEW q \in Proc, Rename(q) \/ Create(q) PROVE FALSE
  BY <1>3 DEF Rename, Create
<1>4. ASSUME NEW q \in Proc, Copy(q) \/ EnsureSchema(q)
      PROVE  fts' = rows' \/ ~available'[p]
  BY <1>4 DEF Copy, EnsureSchema, EnsureFts
<1>5. ASSUME NEW q \in Proc, Conflict(q) \/ Crash(q) \/ Close(q) PROVE FALSE
  BY <1>5 DEF Conflict, Crash, Close, Abort
<1>6. ASSUME NEW q \in Proc, NEW i \in Id, NEW text, Write(q, i, text) PROVE FALSE
  BY <1>6 DEF Write
<1>7. ASSUME NEW q \in Proc, Search(q) \/ SearchLocked(q) PROVE FALSE
  BY <1>7 DEF Search, SearchLocked
<1> QED BY <1>2, <1>3, <1>4, <1>5, <1>6, <1>7 DEF Next, AddMemory, DeleteMemory, vars

\* A store that has just been opened finds every memory of its table, whatever
\* happened before.
THEOREM OpeningRepairs == Spec => OpenFindsAll
<1>1. ASSUME TypeOK, [Next]_vars, NEW p \in Proc, pc[p] # "ready", pc'[p] = "ready"
      PROVE  Found(p)' = {i \in Id : rows'[i] # Gone}
  <2>1. fts' = rows' \/ ~available'[p] BY <1>1, ReadyIndexed
  <2> QED BY <2>1 DEF Found, HasIndex
<1>2. TypeOK /\ [Next]_vars =>
        [\A p \in Proc : (pc[p] # "ready" /\ pc'[p] = "ready") =>
           Found(p)' = {i \in Id : rows'[i] # Gone}]_vars
  BY <1>1
<1> QED BY TypeInit, TypeStep, <1>2, PTL DEF Spec, OpenFindsAll
=============================================================================
