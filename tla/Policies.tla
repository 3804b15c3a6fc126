------------------------------ MODULE Policies ------------------------------
(***************************************************************************)
(* The rule files below policies/.  Whoever checks a path or a command     *)
(* first creates those that do not exist, one after another, and then      *)
(* reads all of them, in the same order; a file that is empty or absent    *)
(* has no rules.  A file that exists is changed by the user, and by the    *)
(* restore of a backup, which writes its copies over the files in the      *)
(* order of their names: that of creation backwards.                       *)
(***************************************************************************)
EXTENDS Naturals, Sequences, ProjectFiles

CONSTANTS
  RuleFiles,  \* the files, in the order in which they are created and read
  MaxEdits    \* bound: rules added by the user

RuleFile == {RuleFiles[i] : i \in DOMAIN RuleFiles}

ASSUME PolicyAssumption ==
  /\ RuleFiles \in Seq(RuleFile) /\ Len(RuleFiles) > 0
  /\ \A i, j \in DOMAIN RuleFiles : RuleFiles[i] = RuleFiles[j] => i = j
  /\ MaxEdits \in Nat

\* A file has no rules when it was truncated and not written yet, the default rules, or
\* the rules of a user who added one.
Content == {"absent", "empty", "default", "edited"}

VARIABLES
  rules,      \* each file
  policyPc,   \* where each process is
  at,         \* the file it is at
  seen,       \* what it read in each file
  edits,
  halfRead,   \* history: files that were read while a process was to write them
  gutted,     \* history: files left empty by a process that was killed before it wrote
              \* them, or by a restore whose copy is empty
  overwritten \* history: the user's rules were truncated

policyVars == <<rules, policyPc, at, seen, edits, halfRead, gutted, overwritten>>

PolicyStep == {"idle", "exists", "create", "fill", "read", "ready", "restore", "refill"}

PolicyGoto(p, step) == policyPc' = [policyPc EXCEPT ![p] = step]
Filling(p, f) == policyPc[p] \in {"fill", "refill"} /\ RuleFiles[at[p]] = f
Unseen == [f \in RuleFile |-> "absent"]

---------------------------------------------------------------------------
PolicyInit ==
  /\ rules = Unseen
  /\ policyPc = [p \in Proc |-> "idle"]
  /\ at = [p \in Proc |-> 1]
  /\ seen = [p \in Proc |-> Unseen]
  /\ edits = 0
  /\ halfRead = {} /\ gutted = {} /\ overwritten = FALSE

\* create_default_policies and PolicyChecker.from_directory
StartPolicies(p) ==
  /\ policyPc[p] \in {"idle", "ready"}
  /\ PolicyGoto(p, "exists")
  /\ at' = [at EXCEPT ![p] = 1]
  /\ seen' = [seen EXCEPT ![p] = Unseen]
  /\ UNCHANGED <<rules, edits, halfRead, gutted, overwritten>>

\* Mutant of FindRules: creation stops at the first file that exists.
FindRulesStops(p) ==
  /\ policyPc[p] = "exists"
  /\ IF rules[RuleFiles[at[p]]] = "absent" THEN PolicyGoto(p, "create") /\ UNCHANGED at
     ELSE PolicyGoto(p, "read") /\ at' = [at EXCEPT ![p] = 1]
  /\ UNCHANGED <<rules, seen, edits, halfRead, gutted, overwritten>>

Advance(p, here, done) ==
  IF at[p] < Len(RuleFiles) THEN PolicyGoto(p, here) /\ at' = [at EXCEPT ![p] = @ + 1]
  ELSE PolicyGoto(p, done) /\ at' = [at EXCEPT ![p] = 1]

\* A file that exists is left as it is.
FindRules(p) ==
  /\ policyPc[p] = "exists"
  /\ \/ /\ rules[RuleFiles[at[p]]] = "absent"
        /\ PolicyGoto(p, "create")
        /\ UNCHANGED at
     \/ /\ rules[RuleFiles[at[p]]] # "absent"
        /\ Advance(p, "exists", "read")
  /\ UNCHANGED <<rules, seen, edits, halfRead, gutted, overwritten>>

\* The file is opened without looking again whether it exists.
CreateRules(p) ==
  /\ policyPc[p] = "create"
  /\ rules' = [rules EXCEPT ![RuleFiles[at[p]]] = "empty"]
  /\ overwritten' = (overwritten \/ rules[RuleFiles[at[p]]] = "edited")
  /\ PolicyGoto(p, "fill")
  /\ UNCHANGED <<at, seen, edits, halfRead, gutted>>

\* The default rules are written over the beginning of a longer file: its end stays.
FillRules(p) ==
  /\ policyPc[p] = "fill"
  /\ rules' = [rules EXCEPT ![RuleFiles[at[p]]] = IF @ = "edited" THEN @ ELSE "default"]
  /\ Advance(p, "exists", "read")
  /\ UNCHANGED <<seen, edits, halfRead, gutted, overwritten>>

ReadRules(p) ==
  /\ policyPc[p] = "read"
  /\ LET f == RuleFiles[at[p]] IN
     /\ seen' = [seen EXCEPT ![p][f] = rules[f]]
     /\ halfRead' = halfRead \cup
          {g \in {f} : rules[f] = "empty" /\ \E q \in Proc : Filling(q, f)}
  /\ Advance(p, "read", "ready")
  /\ UNCHANGED <<rules, edits, gutted, overwritten>>

---------------------------------------------------------------------------
\* backup restore

StartRestoreRules(p) ==
  /\ policyPc[p] \in {"idle", "ready"}
  /\ PolicyGoto(p, "restore")
  /\ at' = [at EXCEPT ![p] = Len(RuleFiles)]
  /\ UNCHANGED <<rules, seen, edits, halfRead, gutted, overwritten>>

\* Back to the file before, which is the next by name.
Retreat(p) ==
  IF at[p] > 1 THEN PolicyGoto(p, "restore") /\ at' = [at EXCEPT ![p] = @ - 1]
  ELSE PolicyGoto(p, "idle") /\ UNCHANGED at

\* The backup has no copy of the file.
PassRules(p) ==
  /\ policyPc[p] = "restore"
  /\ Retreat(p)
  /\ UNCHANGED <<rules, seen, edits, halfRead, gutted, overwritten>>

TruncateRules(p) ==
  /\ policyPc[p] = "restore"
  /\ rules' = [rules EXCEPT ![RuleFiles[at[p]]] = "empty"]
  /\ overwritten' = (overwritten \/ rules[RuleFiles[at[p]]] = "edited")
  /\ PolicyGoto(p, "refill")
  /\ UNCHANGED <<at, seen, edits, halfRead, gutted>>

\* The copy may be of any time: also of one when the file was empty.
RefillRules(p, copy) ==
  /\ policyPc[p] = "refill"
  /\ LET f == RuleFiles[at[p]] IN
     /\ rules' = [rules EXCEPT ![f] = IF copy = "empty" \/ @ = "edited" THEN @ ELSE copy]
     /\ gutted' = gutted \cup {g \in {f} : copy = "empty"}
  /\ Retreat(p)
  /\ UNCHANGED <<seen, edits, halfRead, overwritten>>

---------------------------------------------------------------------------
\* The user adds a rule to a file that has rules.
EditRules(f) ==
  /\ rules[f] = "default"
  /\ edits < MaxEdits
  /\ edits' = edits + 1
  /\ rules' = [rules EXCEPT ![f] = "edited"]
  /\ UNCHANGED <<policyPc, at, seen, halfRead, gutted, overwritten>>

\* Also when a restore stops because it cannot read its archive.
KillPolicy(p) ==
  /\ PolicyGoto(p, "idle")
  /\ gutted' = gutted \cup {f \in RuleFile : Filling(p, f)}
  /\ UNCHANGED <<rules, at, seen, edits, halfRead, overwritten>>

PolicyWork(p) ==
  \/ FindRules(p) \/ CreateRules(p) \/ FillRules(p) \/ ReadRules(p)
  \/ PassRules(p) \/ TruncateRules(p)
  \/ \E copy \in Content \ {"absent"} : RefillRules(p, copy)

PolicyNext ==
  \/ \E p \in Proc :
       StartPolicies(p) \/ StartRestoreRules(p) \/ PolicyWork(p) \/ KillPolicy(p)
  \/ \E f \in RuleFile : EditRules(f)

PolicySpec == PolicyInit /\ [][PolicyNext]_policyVars

---------------------------------------------------------------------------
\* The type invariant.
PolicyTypeOK ==
  /\ rules \in [RuleFile -> Content]
  /\ policyPc \in [Proc -> PolicyStep]
  /\ at \in [Proc -> 1..Len(RuleFiles)]
  /\ seen \in [Proc -> [RuleFile -> Content]]
  /\ edits \in Nat
  /\ halfRead \subseteq RuleFile /\ gutted \subseteq RuleFile /\ overwritten \in BOOLEAN

\* A process that is ready to judge holds the rules of every file, except of one that
\* somebody read while another process was between truncating and writing it, or that was
\* left empty before: by a process killed in between, after which nobody creates the file
\* again, or by the restore of an empty copy.  And what it holds beyond the defaults is in
\* the file, unless a late creation or a restore truncated it (create_default_policies,
\* PolicyChecker.from_directory, BackupManager.restore).
RulesHeld ==
  \A p \in Proc, f \in RuleFile : policyPc[p] = "ready" =>
    /\ seen[p][f] \in {"default", "edited"} \/ f \in halfRead \cup gutted
    /\ seen[p][f] = "edited" => rules[f] = "edited" \/ overwritten
=============================================================================
