----------------------------- MODULE SddChange -----------------------------
(***************************************************************************)
(* One SDD change under openspec/changes/<name>: its template files and    *)
(* metadata.json, with `sdd new`, `sdd advance` and `sdd archive` run by   *)
(* several processes (the CLI, the MCP server and the agent tools).        *)
(*                                                                         *)
(* A file is written by truncating it and writing all of it at once.  A    *)
(* process that truncated metadata.json before another wrote it writes     *)
(* over that content from its beginning, so the tail of a longer one stays *)
(* behind and the file does not parse.  Every history entry is longer than *)
(* anything else that differs between two contents of metadata.json.       *)
(***************************************************************************)
EXTENDS Naturals, Sequences, FiniteSets

CONSTANTS
  Proc,         \* processes
  Templates,    \* the template files, in the order create_change writes them
  Phases,       \* the phases, in their order; the last one is archive
  NoFile, Torn, \* no such file; a file that does not parse
  MaxCommands,  \* bound: commands started
  MaxCrashes    \* bound: processes killed inside a command

Phase == {Phases[i] : i \in DOMAIN Phases}
Archive == Phases[Len(Phases)]
Template == {Templates[i] : i \in DOMAIN Templates}

ASSUME TemplateAssumption == Templates \in Seq(Template)

ASSUME PhaseAssumption ==
  /\ Phases \in Seq(STRING) /\ Len(Phases) > 1
  /\ \A i, j \in DOMAIN Phases : Phases[i] = Phases[j] => i = j
  /\ MaxCommands \in Nat /\ MaxCrashes \in Nat

\* phase, archived and phase_history of metadata.json
Metadata == [phase : Phase, archived : BOOLEAN, history : Seq(Phase)]

\* A file that does not parse is no metadata, and it is a file.
ASSUME FileAssumption == Torn \notin Metadata /\ NoFile # Torn

VARIABLES
  template,  \* each template file: none, blank (being written) or full
  metadata,  \* metadata.json
  pc,        \* where each process is
  position,  \* the template its create_change is at
  target,    \* the phase its command asked for
  again,     \* archive_change has a second write to do
  copy,      \* the metadata it is about to write
  commands, crashes,
  skips,     \* history: advances with --force, archive among them
  overlap,   \* history: two processes wrote metadata.json at once
  between    \* history: somebody wrote between the two writes of archive_change

locals == <<pc, position, target, again, copy>>
vars == <<template, metadata, locals, commands, crashes, skips, overlap, between>>

Steps == {"idle", "create", "fill", "check", "read", "reread", "open", "write"}

Index(phase) == CHOOSE i \in DOMAIN Phases : Phases[i] = phase
Last(seq) == seq[Len(seq)]
Whole(file) == file \notin {NoFile, Torn}
Goto(p, step) == pc' = [pc EXCEPT ![p] = step]
Writing(p) == pc[p] = "write"

New == [phase |-> Phases[1], archived |-> FALSE, history |-> <<Phases[1]>>]

\* Mutant of IsNext: any later phase will do.
IsLater(current, phase) == Index(phase) > Index(current)

\* _is_next_phase
IsNext(current, phase) == Index(phase) = Index(current) + 1

\* Mutant of Advanced: a change that was archived stays so.
AdvancedStillArchived(m, phase) ==
  [phase |-> phase, archived |-> m.archived \/ phase = Archive,
   history |-> Append(m.history, phase)]

\* _advance_metadata
Advanced(m, phase) ==
  [phase |-> phase, archived |-> phase = Archive, history |-> Append(m.history, phase)]

---------------------------------------------------------------------------
Init ==
  /\ template = [f \in Template |-> "none"]
  /\ metadata = NoFile
  /\ pc = [p \in Proc |-> "idle"]
  /\ position = [p \in Proc |-> 1]
  /\ target = [p \in Proc |-> Phases[1]]
  /\ again = [p \in Proc |-> FALSE]
  /\ copy = [p \in Proc |-> New]
  /\ commands = 0 /\ crashes = 0 /\ skips = 0
  /\ overlap = FALSE /\ between = FALSE

Begin(p) == pc[p] = "idle" /\ commands < MaxCommands /\ commands' = commands + 1

---------------------------------------------------------------------------
\* create_change

StartCreate(p) ==
  /\ Begin(p)
  /\ Goto(p, "create")
  /\ position' = [position EXCEPT ![p] = 1]
  /\ again' = [again EXCEPT ![p] = FALSE]
  /\ UNCHANGED <<template, metadata, target, copy, crashes, skips, overlap, between>>

\* Mutant of CreateTemplate: the metadata file comes first.
CreateMetadataFirst(p) ==
  /\ pc[p] = "create"
  /\ position[p] <= Len(Templates)
  /\ metadata' = IF metadata = NoFile THEN New ELSE metadata
  /\ template' = [template EXCEPT ![Templates[position[p]]] = IF @ = "none" THEN "blank" ELSE @]
  /\ Goto(p, "fill")
  /\ UNCHANGED <<position, target, again, copy, commands, crashes, skips, overlap, between>>

\* A template that exists is left as it is; one that does not is created and filled.
CreateTemplate(p) ==
  /\ pc[p] = "create"
  /\ position[p] <= Len(Templates)
  /\ LET f == Templates[position[p]] IN
     \/ /\ template[f] = "none"
        /\ template' = [template EXCEPT ![f] = "blank"]
        /\ Goto(p, "fill")
        /\ UNCHANGED position
     \/ /\ template[f] # "none"
        /\ position' = [position EXCEPT ![p] = @ + 1]
        /\ UNCHANGED <<template, pc>>
  /\ UNCHANGED <<metadata, target, again, copy, commands, crashes, skips, overlap, between>>

FillTemplate(p) ==
  /\ pc[p] = "fill"
  /\ template' = [template EXCEPT ![Templates[position[p]]] = "full"]
  /\ position' = [position EXCEPT ![p] = @ + 1]
  /\ Goto(p, "create")
  /\ UNCHANGED <<metadata, target, again, copy, commands, crashes, skips, overlap, between>>

\* metadata.json is last: it is written if it does not exist.
CreateMetadata(p) ==
  /\ pc[p] = "create"
  /\ position[p] > Len(Templates)
  /\ Goto(p, IF metadata = NoFile THEN "open" ELSE "idle")
  /\ copy' = [copy EXCEPT ![p] = New]
  /\ UNCHANGED <<template, metadata, position, target, again, commands, crashes, skips, overlap, between>>

---------------------------------------------------------------------------
\* advance_change and archive_change

StartAdvance(p, phase) ==
  /\ Begin(p)
  /\ Goto(p, "check")
  /\ target' = [target EXCEPT ![p] = phase]
  /\ again' = [again EXCEPT ![p] = FALSE]
  /\ UNCHANGED <<template, metadata, position, copy, crashes, skips, overlap, between>>

StartForced(p, phase, archiving) ==
  /\ Begin(p)
  /\ archiving => phase = Archive
  /\ Goto(p, "read")
  /\ target' = [target EXCEPT ![p] = phase]
  /\ again' = [again EXCEPT ![p] = archiving]
  /\ skips' = skips + 1
  /\ UNCHANGED <<template, metadata, position, copy, crashes, overlap, between>>

\* The metadata is read once, checked (without --force) and changed in memory.
ReadForAdvance(p) ==
  /\ \/ pc[p] = "read" /\ Whole(metadata)
     \/ pc[p] = "check" /\ Whole(metadata) /\ IsNext(metadata.phase, target[p])
  /\ copy' = [copy EXCEPT ![p] = Advanced(metadata, target[p])]
  /\ Goto(p, "open")
  /\ UNCHANGED <<template, metadata, position, target, again, commands, crashes, skips, overlap, between>>

\* archive_change reads what was written and sets the flag and the phase again.
ReadForArchive(p) ==
  /\ pc[p] = "reread"
  /\ Whole(metadata)
  /\ copy' = [copy EXCEPT ![p] = [metadata EXCEPT !.archived = TRUE, !.phase = Archive]]
  /\ again' = [again EXCEPT ![p] = FALSE]
  /\ Goto(p, "open")
  /\ between' = (between \/ metadata # copy[p])
  /\ UNCHANGED <<template, metadata, position, target, commands, crashes, skips, overlap>>

\* Mutant of Reject: metadata.json was opened for writing before the phase is checked.
RejectTruncates(p) ==
  /\ pc[p] = "check" /\ Whole(metadata) /\ ~IsNext(metadata.phase, target[p])
  /\ metadata' = Torn
  /\ Goto(p, "idle")
  /\ UNCHANGED <<template, position, target, again, copy, commands, crashes, skips,
                 overlap, between>>

\* No metadata, metadata that does not parse, or a phase that is not the next one.
Reject(p) ==
  /\ \/ pc[p] \in {"read", "check", "reread"} /\ ~Whole(metadata)
     \/ pc[p] = "check" /\ Whole(metadata) /\ ~IsNext(metadata.phase, target[p])
  /\ Goto(p, "idle")
  /\ UNCHANGED <<template, metadata, position, target, again, copy, commands, crashes,
                 skips, overlap, between>>

---------------------------------------------------------------------------
\* _write_metadata

OpenMetadata(p) ==
  /\ pc[p] = "open"
  /\ metadata' = Torn
  /\ overlap' = (overlap \/ \E q \in Proc \ {p} : Writing(q))
  /\ Goto(p, "write")
  /\ UNCHANGED <<template, position, target, again, copy, commands, crashes, skips, between>>

\* What is in the file when `new` is written from its beginning over `old`.
Overwritten(old, new) ==
  IF ~Whole(old) \/ Len(new.history) > Len(old.history) THEN {new}
  ELSE IF Len(new.history) < Len(old.history) THEN {Torn}
  ELSE {new, Torn}

WriteMetadata(p) ==
  /\ pc[p] = "write"
  /\ metadata' \in Overwritten(metadata, copy[p])
  /\ Goto(p, IF again[p] THEN "reread" ELSE "idle")
  /\ UNCHANGED <<template, position, target, again, copy, commands, crashes, skips, overlap, between>>

Crash(p) ==
  /\ pc[p] # "idle"
  /\ crashes < MaxCrashes
  /\ crashes' = crashes + 1
  /\ Goto(p, "idle")
  /\ UNCHANGED <<template, metadata, position, target, again, copy, commands, skips, overlap, between>>

Next == \E p \in Proc :
  \/ StartCreate(p) \/ CreateTemplate(p) \/ FillTemplate(p) \/ CreateMetadata(p)
  \/ \E phase \in Phase : StartAdvance(p, phase) \/ StartForced(p, phase, FALSE)
  \/ StartForced(p, Archive, TRUE)
  \/ ReadForAdvance(p) \/ ReadForArchive(p) \/ Reject(p)
  \/ OpenMetadata(p) \/ WriteMetadata(p) \/ Crash(p)

Spec == Init /\ [][Next]_vars

---------------------------------------------------------------------------
\* The type invariant.
TypeOK ==
  /\ template \in [Template -> {"none", "blank", "full"}]
  /\ metadata \in Metadata \cup {NoFile, Torn}
  /\ pc \in [Proc -> Steps]
  /\ position \in [Proc -> 1..(Len(Templates) + 1)]
  /\ target \in [Proc -> Phase]
  /\ again \in [Proc -> BOOLEAN]
  /\ copy \in [Proc -> Metadata]
  /\ commands \in Nat /\ crashes \in Nat /\ skips \in Nat
  /\ overlap \in BOOLEAN /\ between \in BOOLEAN

\* Wherever commands interleave or stop, metadata.json tells one story: a change is
\* archived exactly in the last phase, the history starts with the first phase and ends
\* with the current one; only an archive_change whose second write takes up another's
\* first shows a last phase the history lacks (_advance_metadata, archive_change).
OneStory ==
  Whole(metadata) =>
    /\ metadata.archived <=> metadata.phase = Archive
    /\ metadata.history[1] = Phases[1]
    /\ Last(metadata.history) = metadata.phase \/ (metadata.archived /\ between)

\* docs/sdd-workflow.md: "By default, a change can only advance to the next phase."
\* The history holds no more steps out of order than commands that were forced, also
\* when several processes advance the change at once.
OutOfOrder(history) ==
  {i \in 2..Len(history) : Index(history[i]) # Index(history[i - 1]) + 1}

OrderUnlessForced ==
  Whole(metadata) => Cardinality(OutOfOrder(metadata.history)) <= skips

\* A change that is listed (it has a metadata.json) has all its files, wherever its
\* creation was interrupted: metadata.json is created last (create_change).
ListedHasFiles == metadata # NoFile => \A f \in Template : template[f] # "none"

\* metadata.json is left unreadable only by a process that was killed while writing
\* it, or by two that wrote it at once: nothing repairs it (_write_metadata).
TornHasCause ==
  metadata = Torn /\ (\A p \in Proc : pc[p] = "idle") => crashes > 0 \/ overlap
============================================================================
