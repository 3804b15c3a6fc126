---------------------------- MODULE MemoryStore ----------------------------
(***************************************************************************)
(* Technical memory over .agentos/memory.db: opening a store (with the     *)
(* migration of a table of the old schema), adding, deleting and searching.*)
(*                                                                         *)
(* Python's sqlite3 opens a transaction at the first INSERT, UPDATE or     *)
(* DELETE; DDL before it commits by itself.  So the DROP, RENAME and CREATE*)
(* of the migration are each committed alone, while the copied rows, the   *)
(* DROP of memories_legacy and the rebuilt index commit together at the    *)
(* end of _ensure_schema: each is one action here.  Several processes open *)
(* the same file; a store instance stays open in the MCP server and in the *)
(* services of a chat.                                                     *)
(***************************************************************************)
EXTENDS Naturals, FiniteSets

CONSTANTS
  Proc,        \* processes that open the store
  Id, Text,    \* memory ids and what a memory says
  Gone,        \* no row with this id
  NoTable,     \* no such table
  OldRows,     \* the rows of the old table the project starts with
  MaxWrites,   \* bound: memories added or deleted
  MaxOpens,    \* bound: stores opened
  MaxCrashes,  \* bound: processes killed or failed while opening
  MaxTimeouts  \* bound: searches that find the database locked, stores without FTS5

Rows == [Id -> Text \cup {Gone}]
Empty == [i \in Id |-> Gone]

ASSUME MemoryAssumption ==
  /\ Gone \notin Text /\ NoTable \notin Rows
  /\ OldRows \in Rows
  /\ {MaxWrites, MaxOpens, MaxCrashes, MaxTimeouts} \subseteq Nat

VARIABLES
  schema,    \* of the table memories: none, old or new
  rows,      \* memories
  legacy,    \* memories_legacy
  fts,       \* memories_fts: the indexed text of each memory
  pc,        \* where each process is
  held,      \* legacy_rows of a migration
  available, \* _fts_available of a process's store
  writes, opens, crashes, timeouts,
  expected,  \* history: the memories added and not deleted
  contended, \* history: somebody opened the store while another migrated it
  degraded   \* history: a store gave up its full-text index

tables == <<schema, rows, legacy, fts>>
bounds == <<writes, opens, crashes, timeouts>>
history == <<expected, contended, degraded>>
vars == <<tables, pc, held, available, bounds, history>>

Migrating(p) == pc[p] \in {"select", "dropIndex", "rename", "create", "copy"}
Steps == {"idle", "inspect", "select", "dropIndex", "rename", "create", "copy",
          "ensure", "ready"}

Goto(p, next) == pc' = [pc EXCEPT ![p] = next]

---------------------------------------------------------------------------
\* A project without a database, or one with a table of the old schema.
Init ==
  /\ \/ schema = "none" /\ rows = Empty
     \/ schema = "old" /\ rows = OldRows
  /\ legacy = NoTable
  /\ fts = NoTable
  /\ pc = [p \in Proc |-> "idle"]
  /\ held = [p \in Proc |-> Empty]
  /\ available = [p \in Proc |-> FALSE]
  /\ writes = 0 /\ opens = 0 /\ crashes = 0 /\ timeouts = 0
  /\ expected = rows
  /\ contended = FALSE
  /\ degraded = FALSE

\* A statement raises, or the process is killed, before the store is ready.
Abort(p) ==
  /\ Goto(p, "idle")
  /\ UNCHANGED <<tables, held, available, writes, opens, timeouts, expected,
                 contended, degraded>>

---------------------------------------------------------------------------
\* MemoryStore(root): _ensure_schema

Open(p) ==
  /\ pc[p] = "idle"
  /\ opens < MaxOpens
  /\ opens' = opens + 1
  /\ Goto(p, "inspect")
  /\ available' = [available EXCEPT ![p] = FALSE]
  /\ UNCHANGED <<tables, held, writes, crashes, timeouts, history>>

\* _migrate_legacy_memories looks at the columns of the table, if there is one.
Inspect(p) ==
  /\ pc[p] = "inspect"
  /\ Goto(p, IF schema = "old" THEN "select" ELSE "ensure")
  /\ contended' = (contended \/ \E q \in Proc \ {p} : Migrating(q))
  /\ UNCHANGED <<tables, held, available, bounds, expected, degraded>>

Select(p) ==
  /\ pc[p] = "select"
  /\ schema # "none"
  /\ held' = [held EXCEPT ![p] = rows]
  /\ Goto(p, "dropIndex")
  /\ UNCHANGED <<tables, available, bounds, history>>

DropIndex(p) ==
  /\ pc[p] = "dropIndex"
  /\ fts' = NoTable
  /\ Goto(p, "rename")
  /\ UNCHANGED <<schema, rows, legacy, held, available, bounds, history>>

Rename(p) ==
  /\ pc[p] = "rename"
  /\ schema # "none" /\ legacy = NoTable
  /\ legacy' = rows
  /\ schema' = "none"
  /\ rows' = Empty
  /\ Goto(p, "create")
  /\ UNCHANGED <<fts, held, available, bounds, history>>

Create(p) ==
  /\ pc[p] = "create"
  /\ schema = "none"
  /\ schema' = "new"
  /\ Goto(p, "copy")
  /\ UNCHANGED <<rows, legacy, fts, held, available, bounds, history>>

\* _ensure_fts: the index is created and built anew, or, where SQLite has no FTS5, the
\* error is swallowed and the store opens without an index.
EnsureFts(p) ==
  \/ /\ fts' = rows'
     /\ available' = [available EXCEPT ![p] = TRUE]
     /\ UNCHANGED <<timeouts, degraded>>
  \/ /\ timeouts < MaxTimeouts
     /\ timeouts' = timeouts + 1
     /\ available' = [available EXCEPT ![p] = FALSE]
     /\ degraded' = TRUE
     /\ UNCHANGED fts

\* Mutant of Copy: the old table is dropped and its rows are not copied.
CopyNothing(p) ==
  /\ pc[p] = "copy"
  /\ legacy # NoTable
  /\ legacy' = NoTable
  /\ fts' = rows
  /\ available' = [available EXCEPT ![p] = TRUE]
  /\ Goto(p, "ready")
  /\ UNCHANGED <<schema, rows, held, bounds, history>>

\* Mutant of Copy: the index is left as the migration dropped it.
CopyUnindexed(p) ==
  /\ pc[p] = "copy"
  /\ schema = "new" /\ legacy # NoTable
  /\ \A i \in Id : held[p][i] # Gone => rows[i] = Gone
  /\ rows' = [i \in Id |-> IF held[p][i] # Gone THEN held[p][i] ELSE rows[i]]
  /\ legacy' = NoTable
  /\ fts' = Empty
  /\ available' = [available EXCEPT ![p] = TRUE]
  /\ Goto(p, "ready")
  /\ UNCHANGED <<schema, held, bounds, history>>

\* The rows selected before are inserted (an id that is there already violates the
\* primary key), memories_legacy is dropped and the index is built, all at once.
Copy(p) ==
  /\ pc[p] = "copy"
  /\ schema = "new" /\ legacy # NoTable
  /\ \A i \in Id : held[p][i] # Gone => rows[i] = Gone
  /\ rows' = [i \in Id |-> IF held[p][i] # Gone THEN held[p][i] ELSE rows[i]]
  /\ legacy' = NoTable
  /\ EnsureFts(p)
  /\ Goto(p, "ready")
  /\ UNCHANGED <<schema, held, writes, opens, crashes, expected, contended>>

\* Without a migration: the table is created if there is none, then its index.
EnsureSchema(p) ==
  /\ pc[p] = "ensure"
  /\ schema' = IF schema = "none" THEN "new" ELSE schema
  /\ UNCHANGED rows
  /\ EnsureFts(p)
  /\ Goto(p, "ready")
  /\ UNCHANGED <<legacy, held, writes, opens, crashes, expected, contended>>

\* A statement of the migration meets a table another process renamed, created or
\* filled in between; its sqlite3 error ends the command.
Conflict(p) ==
  /\ \/ pc[p] = "select" /\ schema = "none"
     \/ pc[p] = "rename" /\ (schema = "none" \/ legacy # NoTable)
     \/ pc[p] = "create" /\ schema # "none"
     \/ pc[p] = "copy" /\ (schema # "new" \/ legacy = NoTable
                           \/ \E i \in Id : held[p][i] # Gone /\ rows[i] # Gone)
  /\ Abort(p)
  /\ UNCHANGED crashes

\* The process is killed, or waits for the lock longer than it is ready to.
Crash(p) ==
  /\ pc[p] \notin {"idle", "ready"}
  /\ crashes < MaxCrashes
  /\ crashes' = crashes + 1
  /\ Abort(p)

Close(p) ==
  /\ pc[p] = "ready"
  /\ Goto(p, "idle")
  /\ UNCHANGED <<tables, held, available, bounds, history>>

---------------------------------------------------------------------------
\* An open store.

\* _has_fts: a store whose index is missing gives it up for good.
HasIndex(p) == available[p] /\ fts # NoTable

CheckIndex(p) ==
  /\ available' = [available EXCEPT ![p] = HasIndex(p)]
  /\ degraded' = (degraded \/ (available[p] /\ ~HasIndex(p)))

\* Mutant of Reindex: a memory whose text changes keeps its old entry.
ReindexNew(p, i, text) ==
  fts' = IF HasIndex(p) /\ (fts[i] = Gone \/ text = Gone) THEN [fts EXCEPT ![i] = text]
         ELSE fts

\* _index_memory, and the deletion of an entry.
Reindex(p, i, text) == fts' = IF HasIndex(p) THEN [fts EXCEPT ![i] = text] ELSE fts

Write(p, i, text) ==
  /\ pc[p] = "ready"
  /\ schema = "new"
  /\ writes < MaxWrites
  /\ writes' = writes + 1
  /\ rows' = [rows EXCEPT ![i] = text]
  /\ expected' = [expected EXCEPT ![i] = text]
  /\ Reindex(p, i, text)
  /\ CheckIndex(p)
  /\ UNCHANGED <<schema, legacy, pc, held, opens, crashes, timeouts, contended>>

\* add_memory inserts, or replaces the memory with that id (as import_json does).
AddMemory(p, i, text) == Write(p, i, text)

DeleteMemory(p, i) == rows[i] # Gone /\ Write(p, i, Gone)

\* search changes nothing but the store's opinion of its index.
Search(p) ==
  /\ pc[p] = "ready"
  /\ available[p] /\ ~HasIndex(p)
  /\ CheckIndex(p)
  /\ UNCHANGED <<tables, pc, held, bounds, expected, contended>>

\* The probe of the index finds the database locked by a writer.
SearchLocked(p) ==
  /\ pc[p] = "ready"
  /\ available[p]
  /\ timeouts < MaxTimeouts
  /\ timeouts' = timeouts + 1
  /\ available' = [available EXCEPT ![p] = FALSE]
  /\ degraded' = TRUE
  /\ UNCHANGED <<tables, pc, held, writes, opens, crashes, expected, contended>>

Next == \E p \in Proc :
  \/ Open(p) \/ Inspect(p) \/ Select(p) \/ DropIndex(p) \/ Rename(p) \/ Create(p)
  \/ Copy(p) \/ EnsureSchema(p) \/ Conflict(p) \/ Crash(p) \/ Close(p)
  \/ \E i \in Id, text \in Text : AddMemory(p, i, text)
  \/ \E i \in Id : DeleteMemory(p, i)
  \/ Search(p) \/ SearchLocked(p)

Spec == Init /\ [][Next]_vars

---------------------------------------------------------------------------
\* The type invariant.
TypeOK ==
  /\ schema \in {"none", "old", "new"}
  /\ rows \in Rows
  /\ legacy \in Rows \cup {NoTable}
  /\ fts \in Rows \cup {NoTable}
  /\ pc \in [Proc -> Steps]
  /\ held \in [Proc -> Rows]
  /\ available \in [Proc -> BOOLEAN]
  /\ writes \in Nat /\ opens \in Nat /\ crashes \in Nat /\ timeouts \in Nat
  /\ expected \in Rows
  /\ contended \in BOOLEAN /\ degraded \in BOOLEAN

\* No memory disappears: whatever step a migration is interrupted at, each memory
\* added and not deleted is in memories or still in memories_legacy, provided nobody
\* opened the store while it was migrated (_migrate_legacy_memories).
NoMemoryLost ==
  ~contended =>
    \A i \in Id : expected[i] # Gone =>
      expected[i] = rows[i] \/ (legacy # NoTable /\ expected[i] = legacy[i])

\* With no crash either, an open store has all of them in memories.
AllReadable ==
  ~contended /\ crashes = 0 /\ (\E p \in Proc : pc[p] = "ready") => rows = expected

\* The index holds exactly the memories, each with its current text, as long as no
\* store instance gave the index up (it then adds memories the others do not find) and
\* no migration ran beside another store (_index_memory, _has_fts, _rebuild_fts).
IndexMatches == ~degraded /\ ~contended /\ fts # NoTable /\ schema = "new" => fts = rows

\* What a store finds when it searches for everything: the index joined with the table,
\* or the table alone.
Found(p) == {i \in Id : rows[i] # Gone /\ (HasIndex(p) => fts[i] = rows[i])}

\* A store that has just been opened finds every memory of its table, however many
\* unindexed ones earlier instances left behind: opening rebuilds the index, or does
\* without one (_ensure_fts, search).  Rows left in memories_legacy are not found.
OpenFindsAll ==
  [][\A p \in Proc : (pc[p] # "ready" /\ pc'[p] = "ready") =>
       Found(p)' = {i \in Id : rows'[i] # Gone}]_vars
============================================================================
