------------------------------- MODULE Brain -------------------------------
(***************************************************************************)
(* .agentos/brain/index.db: documents, one per path, their chunks, and the *)
(* full-text index of the chunks.  A document is ingested again when its   *)
(* file has changed.                                                       *)
(*                                                                         *)
(* sqlite3 opens a transaction at the first INSERT or DELETE: the SELECT   *)
(* that looks for the document of a path is not part of it.  All chunks of *)
(* one version of a file are written in one transaction, so that a pair of *)
(* document id and version stands for them.                                *)
(***************************************************************************)
EXTENDS Naturals, ProjectFiles

CONSTANTS
  Doc,       \* paths of Markdown and text files
  DocId,     \* ids, each generated once
  NoDoc,     \* no row
  MaxSaves   \* bound: changes of the files

Chunk == [id : DocId, version : Nat]
Row == [id : DocId, hash : Nat]

ASSUME BrainAssumption ==
  /\ Doc # {} /\ MaxSaves \in Nat
  /\ NoDoc \notin DocId /\ NoDoc \notin Row

VARIABLES
  file,       \* the version of each file
  documents,  \* the row of each path: its id and the hash of the version
  chunks, index,
  fts,        \* FTS5 is there, chosen once and for all
  brainPc,    \* where each process is
  doc,        \* the path it ingests
  version,    \* the version it read
  found,      \* the id of the row it found
  used,       \* history: ids generated
  newest,     \* history: of each path, the newest version an ingestion that ended had read
  crossed     \* history: two ingestions of one path overlapped

brainVars == <<file, documents, chunks, index, fts, brainPc, doc, version, found,
               used, newest, crossed>>

BrainStep == {"idle", "check", "select", "write", "failed"}

BrainGoto(p, step) == brainPc' = [brainPc EXCEPT ![p] = step]
Ingesting(p) == brainPc[p] \in {"select", "write"}
Stored == {documents[d] : d \in {e \in Doc : documents[e] # NoDoc}}
Indexed(table) == {c \in table : \E r \in Stored : r.id = c.id}

---------------------------------------------------------------------------
BrainInit ==
  /\ file = [d \in Doc |-> 1]
  /\ documents = [d \in Doc |-> NoDoc]
  /\ chunks = {} /\ index = {}
  /\ fts \in BOOLEAN
  /\ brainPc = [p \in Proc |-> "idle"]
  /\ doc = [p \in Proc |-> CHOOSE d \in Doc : TRUE]
  /\ version = [p \in Proc |-> 1]
  /\ found = [p \in Proc |-> NoDoc]
  /\ used = {}
  /\ newest = [d \in Doc |-> 0]
  /\ crossed = [d \in Doc |-> FALSE]

\* The user saves a file.
SaveFile(d) ==
  /\ file[d] <= MaxSaves
  /\ file' = [file EXCEPT ![d] = @ + 1]
  /\ UNCHANGED <<documents, chunks, index, fts, brainPc, doc, version, found, used,
                 newest, crossed>>

\* Opening the store makes the index anew from the chunks whose document there is.
Rebuilt == IF fts THEN Indexed(chunks) ELSE {}

StartIngest(p, d) ==
  /\ brainPc[p] \in {"idle", "failed"}
  /\ index' = Rebuilt
  /\ doc' = [doc EXCEPT ![p] = d]
  /\ BrainGoto(p, "check")
  /\ UNCHANGED <<file, documents, chunks, fts, version, found, used, newest, crossed>>

\* The policies are asked, then the file is read; a blocked path raises PermissionError.
CheckPath(p, allowed) ==
  /\ brainPc[p] = "check"
  /\ version' = [version EXCEPT ![p] = file[doc[p]]]
  /\ BrainGoto(p, IF allowed THEN "select" ELSE "failed")
  /\ crossed' = IF allowed /\ \E q \in Proc \ {p} : Ingesting(q) /\ doc[q] = doc[p]
                THEN [crossed EXCEPT ![doc[p]] = TRUE] ELSE crossed
  /\ UNCHANGED <<file, documents, chunks, index, fts, doc, found, used, newest>>

\* The id of the path's row, or a new one.
SelectDocument(p, id) ==
  /\ brainPc[p] = "select"
  /\ LET row == documents[doc[p]] IN
       IF row = NoDoc THEN id \notin used /\ used' = used \cup {id}
       ELSE id = row.id /\ UNCHANGED used
  /\ found' = [found EXCEPT ![p] = id]
  /\ BrainGoto(p, "write")
  /\ UNCHANGED <<file, documents, chunks, index, fts, doc, version, newest, crossed>>

\* Whether the id that was found before the transaction is the path's id now.
Agrees(p) == documents[doc[p]] # NoDoc => documents[doc[p]].id = found[p]

Without(table, id) == {c \in table : c.id # id}

\* Mutant of WriteDocument: the new chunks are not indexed.
WriteDocumentUnindexed(p) ==
  /\ brainPc[p] = "write" /\ Agrees(p)
  /\ documents' = [documents EXCEPT ![doc[p]] = [id |-> found[p], hash |-> version[p]]]
  /\ LET new == [id |-> found[p], version |-> version[p]] IN
     /\ chunks' = Without(chunks, found[p]) \cup {new}
     /\ index' = IF fts THEN Without(index, found[p]) ELSE index
  /\ newest' = [newest EXCEPT ![doc[p]] = IF version[p] > @ THEN version[p] ELSE @]
  /\ BrainGoto(p, "idle")
  /\ UNCHANGED <<file, fts, doc, version, found, used, crossed>>

\* The row is inserted or updated, its chunks are replaced in both tables.
WriteDocument(p) ==
  /\ brainPc[p] = "write" /\ Agrees(p)
  /\ documents' = [documents EXCEPT ![doc[p]] = [id |-> found[p], hash |-> version[p]]]
  /\ LET new == [id |-> found[p], version |-> version[p]] IN
     /\ chunks' = Without(chunks, found[p]) \cup {new}
     /\ index' = IF fts THEN Without(index, found[p]) \cup {new} ELSE index
  /\ newest' = [newest EXCEPT ![doc[p]] = IF version[p] > @ THEN version[p] ELSE @]
  /\ BrainGoto(p, "idle")
  /\ UNCHANGED <<file, fts, doc, version, found, used, crossed>>

\* Another process has inserted the row under another id, which ON CONFLICT(path) keeps:
\* with FTS the missing document raises TypeError inside the transaction, without it only
\* after the commit of the new hash and of chunks that belong to no document.
WriteForeign(p) ==
  /\ brainPc[p] = "write" /\ ~Agrees(p)
  /\ IF fts THEN UNCHANGED <<documents, chunks>>
     ELSE /\ documents' = [documents EXCEPT ![doc[p]].hash = version[p]]
          /\ chunks' = chunks \cup {[id |-> found[p], version |-> version[p]]}
  /\ BrainGoto(p, "failed")
  /\ UNCHANGED <<file, index, fts, doc, version, found, used, newest, crossed>>

\* A search opens the store; what it finds are the chunks of Hits.
SearchBrain ==
  /\ index' = Rebuilt
  /\ UNCHANGED <<file, documents, chunks, fts, brainPc, doc, version, found, used,
                 newest, crossed>>

\* The chunks a search can return: the join of index, chunks and documents, or of the
\* last two.
Hits == Indexed(IF fts THEN index \cap chunks ELSE chunks)

KillBrain(p) ==
  /\ BrainGoto(p, "idle")
  /\ UNCHANGED <<file, documents, chunks, index, fts, doc, version, found, used,
                 newest, crossed>>

BrainWork(p) == (\E id \in DocId : SelectDocument(p, id)) \/ WriteDocument(p) \/ WriteForeign(p)

BrainNext ==
  \/ \E p \in Proc :
       \/ BrainWork(p) \/ KillBrain(p)
       \/ \E d \in Doc : StartIngest(p, d)
       \/ \E allowed \in BOOLEAN : CheckPath(p, allowed)
  \/ SearchBrain \/ \E d \in Doc : SaveFile(d)

BrainSpec == BrainInit /\ [][BrainNext]_brainVars

---------------------------------------------------------------------------
\* The type invariant.
BrainTypeOK ==
  /\ file \in [Doc -> Nat]
  /\ documents \in [Doc -> Row \cup {NoDoc}]
  /\ chunks \in SUBSET Chunk /\ index \in SUBSET Chunk
  /\ fts \in BOOLEAN
  /\ brainPc \in [Proc -> BrainStep]
  /\ doc \in [Proc -> Doc]
  /\ version \in [Proc -> Nat]
  /\ found \in [Proc -> DocId \cup {NoDoc}]
  /\ used \in SUBSET DocId
  /\ newest \in [Doc -> Nat]
  /\ crossed \in [Doc -> BOOLEAN]

\* A search finds of every document exactly the chunks of the version that its hash names,
\* also when two first ingestions of a file choose different ids, unless there is no FTS5
\* and they overlapped; the index never misses or keeps a chunk; and the version is the
\* newest that any ingestion read, unless two of that file overlapped (ingest_document,
\* _replace_chunks, _rebuild_fts, search).
SearchFindsDocuments ==
  \A d \in Doc :
    LET row == documents[d]
        hits == {c \in Hits : row # NoDoc /\ c.id = row.id}
    IN row # NoDoc /\ (fts \/ ~crossed[d]) =>
         /\ hits = {[id |-> row.id, version |-> row.hash]}
         /\ crossed[d] \/ row.hash = newest[d]
=============================================================================
