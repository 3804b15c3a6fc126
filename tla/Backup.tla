------------------------------- MODULE Backup -------------------------------
(***************************************************************************)
(* BackupManager: `backup create`, `backup restore` and `backup prune` over*)
(* .agentos/backups/*.zip, while other commands change the files that are  *)
(* backed up.                                                              *)
(*                                                                         *)
(* create decides on the list of files first, writes the archive under its *)
(* final name and adds one file after another, reading each when its turn  *)
(* comes.  An archive is not a zip file before it is closed; an exception  *)
(* closes it with the files added so far, a kill leaves it unreadable.     *)
(***************************************************************************)
EXTENDS Naturals, FiniteSetsExt, SequencesExt

CONSTANTS
  Proc,        \* processes
  Files,       \* the candidate files, in the order they are collected
  Sensitive,   \* files the policies block
  Version,     \* what a file may hold
  NoFile,      \* no such file, or no entry in the archive
  Blank,       \* a file opened for writing and not yet written
  Keep,        \* the argument of prune
  MaxArchives, \* bound: backups created
  MaxCommands, \* bound: commands started
  MaxEdits,    \* bound: changes other commands make to the files
  MaxCrashes   \* bound: processes killed

File == Range(Files)
Content == Version \cup {NoFile, Blank}

ASSUME BackupAssumption ==
  /\ Files \in Seq(File) /\ IsInjective(Files)
  /\ Sensitive \subseteq File
  /\ {NoFile, Blank} \cap Version = {} /\ NoFile # Blank
  /\ {Keep, MaxArchives, MaxCommands, MaxEdits, MaxCrashes} \subseteq Nat

VARIABLES
  live,      \* the files of the project
  archive,   \* the archives ever created, oldest first
  pc,        \* where each process is
  subject,   \* the archive its command is about
  position,  \* the candidate of that archive it looks at next
  doomed,    \* the archives its prune is going to delete
  commands, edits, crashes,
  before,    \* history: the files when p's restore began
  disturbed  \* history: a file was changed by others during p's command

locals == <<pc, subject, position, doomed>>
vars == <<live, archive, locals, commands, edits, crashes, before, disturbed>>

\* state: open (being written), closed (a zip file), broken or deleted;
\* listed: "files" of metadata.json, which are in the order of Files;
\* entry: what was added for each file; clean: history, nobody disturbed the creation and
\* it could open every file.
Archive == [state : {"open", "closed", "broken", "deleted"},
            listed : SUBSET File, entry : [File -> Content], clean : BOOLEAN]

Steps == {"idle", "add", "restore", "fill", "restored", "delete"}

Goto(p, step) == pc' = [pc EXCEPT ![p] = step]
Present == {i \in DOMAIN archive : archive[i].state # "deleted"}
Touch(p) == disturbed' = [q \in Proc |-> disturbed[q] \/ q # p]

---------------------------------------------------------------------------
Init ==
  /\ live \in [File -> Version \cup {NoFile}]
  /\ archive = << >>
  /\ pc = [p \in Proc |-> "idle"]
  /\ subject = [p \in Proc |-> 1]
  /\ position = [p \in Proc |-> 1]
  /\ doomed = [p \in Proc |-> {}]
  /\ commands = 0 /\ edits = 0 /\ crashes = 0
  /\ before = [p \in Proc |-> live]
  /\ disturbed = [p \in Proc |-> FALSE]

Begin(p) ==
  /\ pc[p] \in {"idle", "restored"}
  /\ commands < MaxCommands
  /\ commands' = commands + 1
  /\ position' = [position EXCEPT ![p] = 1]
  /\ disturbed' = [disturbed EXCEPT ![p] = FALSE]

---------------------------------------------------------------------------
\* create

\* _candidate_files and check_path: the file exists and no policy blocks its path.
Allowed(f) == live[f] # NoFile /\ f \notin Sensitive

StartCreate(p) ==
  /\ Begin(p)
  /\ Len(archive) < MaxArchives
  /\ archive' = Append(archive, [state |-> "open", listed |-> {f \in File : Allowed(f)},
                                 entry |-> [f \in File |-> NoFile], clean |-> TRUE])
  /\ subject' = [subject EXCEPT ![p] = Len(archive) + 1]
  /\ Goto(p, "add")
  /\ UNCHANGED <<live, doomed, edits, crashes, before>>

Current(p) == archive[subject[p]]

\* The listed files that are still to come, by their places, and the first of them.
Rest(p) == {i \in position[p]..Len(Files) : Files[i] \in Current(p).listed}
More(p) == Rest(p) # {}
Place(p) == Min(Rest(p))
NextFile(p) == Files[Place(p)]

\* archive.write(source): the file as it is now.
AddFile(p) ==
  /\ pc[p] = "add" /\ More(p)
  /\ live[NextFile(p)] # NoFile
  /\ archive' = [archive EXCEPT ![subject[p]].entry[NextFile(p)] = live[NextFile(p)]]
  /\ position' = [position EXCEPT ![p] = Place(p) + 1]
  /\ UNCHANGED <<live, pc, subject, doomed, commands, edits, crashes, before, disturbed>>

Close(p, clean) ==
  archive' = [archive EXCEPT ![subject[p]] = [@ EXCEPT !.state = "closed", !.clean = clean]]

\* The file is gone by now, or cannot be opened: the error closes the archive, its list
\* unchanged.
AddFails(p) ==
  /\ pc[p] = "add" /\ More(p)
  /\ Close(p, FALSE)
  /\ Goto(p, "idle")
  /\ UNCHANGED <<live, subject, position, doomed, commands, edits, crashes, before, disturbed>>

\* Mutant of CloseArchive: the last file is forgotten.
CloseArchiveEarly(p) ==
  /\ pc[p] = "add" /\ Cardinality(Rest(p)) <= 1
  /\ Close(p, ~disturbed[p])
  /\ Goto(p, "idle")
  /\ UNCHANGED <<live, subject, position, doomed, commands, edits, crashes, before, disturbed>>

CloseArchive(p) ==
  /\ pc[p] = "add" /\ ~More(p)
  /\ Close(p, ~disturbed[p])
  /\ Goto(p, "idle")
  /\ UNCHANGED <<live, subject, position, doomed, commands, edits, crashes, before, disturbed>>

---------------------------------------------------------------------------
\* restore --confirm

\* inspect opens the archive: one that is not closed is not a zip file.
StartRestore(p, i) ==
  /\ Begin(p)
  /\ i \in Present /\ archive[i].state = "closed"
  /\ subject' = [subject EXCEPT ![p] = i]
  /\ before' = [before EXCEPT ![p] = live]
  /\ Goto(p, "restore")
  /\ UNCHANGED <<live, archive, doomed, edits, crashes>>

\* The entry is looked up first, then the target is truncated.
RestoreOpen(p) ==
  /\ pc[p] = "restore" /\ More(p)
  /\ Current(p).entry[NextFile(p)] # NoFile
  /\ live' = [live EXCEPT ![NextFile(p)] = Blank]
  /\ Touch(p)
  /\ Goto(p, "fill")
  /\ UNCHANGED <<archive, subject, position, doomed, commands, edits, crashes, before>>

\* Mutant of RestoreFill: an existing file keeps what it held.
RestoreFillKeeps(p) ==
  /\ pc[p] = "fill"
  /\ live' = [live EXCEPT ![NextFile(p)] =
       IF before[p][NextFile(p)] = NoFile THEN Current(p).entry[NextFile(p)]
       ELSE before[p][NextFile(p)]]
  /\ position' = [position EXCEPT ![p] = Place(p) + 1]
  /\ Touch(p)
  /\ Goto(p, "restore")
  /\ UNCHANGED <<archive, subject, doomed, commands, edits, crashes, before>>

RestoreFill(p) ==
  /\ pc[p] = "fill"
  /\ live' = [live EXCEPT ![NextFile(p)] = Current(p).entry[NextFile(p)]]
  /\ position' = [position EXCEPT ![p] = Place(p) + 1]
  /\ Touch(p)
  /\ Goto(p, "restore")
  /\ UNCHANGED <<archive, subject, doomed, commands, edits, crashes, before>>

\* A listed file has no entry: KeyError, with the files before it overwritten.
RestoreMissing(p) ==
  /\ pc[p] = "restore" /\ More(p)
  /\ Current(p).entry[NextFile(p)] = NoFile
  /\ Goto(p, "idle")
  /\ UNCHANGED <<live, archive, subject, position, doomed, commands, edits, crashes,
                 before, disturbed>>

FinishRestore(p) ==
  /\ pc[p] = "restore" /\ ~More(p)
  /\ Goto(p, "restored")
  /\ UNCHANGED <<live, archive, subject, position, doomed, commands, edits, crashes,
                 before, disturbed>>

---------------------------------------------------------------------------
\* prune

\* Mutant of Removable: the newest archives are removed.
RemovableNewest(all) == {i \in all : Cardinality({j \in all : j < i}) >= Keep}

\* backups[: max(0, len(backups) - keep)] of the list sorted by created_at
Removable(all) == {i \in all : Cardinality({j \in all : j > i}) >= Keep}

\* list() inspects every archive: one that is being written, or that a killed create
\* left behind, makes it raise, and nothing is removed.
StartPrune(p) ==
  /\ Begin(p)
  /\ \A i \in Present : archive[i].state = "closed"
  /\ doomed' = [doomed EXCEPT ![p] = Removable(Present)]
  /\ Goto(p, "delete")
  /\ UNCHANGED <<live, archive, subject, edits, crashes, before>>

\* unlink, oldest first; FileNotFoundError if another prune was faster.
DeleteNext(p) ==
  /\ pc[p] = "delete"
  /\ doomed[p] # {}
  /\ LET i == Min(doomed[p]) IN
     /\ archive' = [archive EXCEPT ![i].state = "deleted"]
     /\ IF i \in Present
        THEN doomed' = [doomed EXCEPT ![p] = @ \ {i}] /\ UNCHANGED pc
        ELSE UNCHANGED doomed /\ Goto(p, "idle")
  /\ UNCHANGED <<live, subject, position, commands, edits, crashes, before, disturbed>>

FinishPrune(p) ==
  /\ pc[p] = "delete"
  /\ doomed[p] = {}
  /\ Goto(p, "idle")
  /\ UNCHANGED <<live, archive, subject, position, doomed, commands, edits, crashes,
                 before, disturbed>>

---------------------------------------------------------------------------
\* Another command creates, changes or deletes one of the files.
Edit(f, version) ==
  /\ edits < MaxEdits
  /\ edits' = edits + 1
  /\ live[f] # version
  /\ live' = [live EXCEPT ![f] = version]
  /\ disturbed' = [q \in Proc |-> TRUE]
  /\ UNCHANGED <<archive, locals, commands, crashes, before>>

Crash(p) ==
  /\ pc[p] \notin {"idle", "restored"}
  /\ crashes < MaxCrashes
  /\ crashes' = crashes + 1
  /\ archive' = IF pc[p] = "add" THEN [archive EXCEPT ![subject[p]].state = "broken"]
                ELSE archive
  /\ Goto(p, "idle")
  /\ UNCHANGED <<live, subject, position, doomed, commands, edits, before, disturbed>>

Next ==
  \/ \E p \in Proc :
       \/ StartCreate(p) \/ AddFile(p) \/ AddFails(p) \/ CloseArchive(p)
       \/ \E i \in DOMAIN archive : StartRestore(p, i)
       \/ RestoreOpen(p) \/ RestoreFill(p) \/ RestoreMissing(p) \/ FinishRestore(p)
       \/ StartPrune(p) \/ DeleteNext(p) \/ FinishPrune(p)
       \/ Crash(p)
  \/ \E f \in File, version \in Version \cup {NoFile} : Edit(f, version)

Spec == Init /\ [][Next]_vars

---------------------------------------------------------------------------
\* The type invariant.
TypeOK ==
  /\ live \in [File -> Content]
  /\ archive \in Seq(Archive)
  /\ pc \in [Proc -> Steps]
  /\ subject \in [Proc -> Nat]
  /\ position \in [Proc -> 1..Len(Files) + 1]
  /\ doomed \in [Proc -> SUBSET DOMAIN archive]
  /\ before \in [Proc -> [File -> Content]]
  /\ disturbed \in [Proc -> BOOLEAN]

\* An archive whose creation nobody disturbed, and which could open every file, can be
\* restored: it holds every file its metadata lists (create writes the list before it
\* reads the files).
CleanArchiveComplete ==
  \A i \in DOMAIN archive :
    archive[i].state = "closed" /\ archive[i].clean =>
      \A f \in archive[i].listed : archive[i].entry[f] # NoFile

\* docs/backups.md: "Restore overwrites files contained in the selected backup but does
\* not delete extra files".  After a restore that nobody disturbed every listed file is
\* the archived one and every other file is as it was (restore).
RestoreFaithful ==
  \A p \in Proc : pc[p] = "restored" /\ ~disturbed[p] =>
    \A f \in File :
      live[f] = IF f \in Current(p).listed THEN Current(p).entry[f] ELSE before[p][f]

\* docs/backups.md: "backup prune keeps the newest 10 backups by default".  An archive is
\* deleted only when it is readable and Keep newer ones stay, also when several prunes
\* and creates run at once (prune).
PruneKeepsNewest ==
  [][\A i \in Present : archive'[i].state = "deleted" =>
       /\ archive[i].state = "closed"
       /\ Cardinality({j \in DOMAIN archive : j > i /\ archive'[j].state # "deleted"}) >= Keep
    ]_archive
============================================================================
