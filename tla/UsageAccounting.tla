-------------------------- MODULE UsageAccounting --------------------------
(***************************************************************************)
(* Token and cost accounting of AgentOS: what `chat once`, `models set`,   *)
(* `models reset-usage`, `/usage reset` and `usage reset` do to the three  *)
(* places that hold usage.                                                 *)
(*                                                                         *)
(*   live      .agentos/models.yaml      (active profile and its counters) *)
(*   snapshot  .agentos/model-usage.json (a copy of the counters)          *)
(*   events    .agentos/usage/usage.db   (one row per answered call)       *)
(*                                                                         *)
(* Several processes (an interactive chat, an MCP server, commands) work   *)
(* in one project root with no lock.  models.yaml is rewritten through the *)
(* temporary file models.yaml.tmp and a rename; every process uses the     *)
(* same temporary name, so the name `temp` and the file a process has open *)
(* are kept apart: handle[p] says whether the file p opened is now named   *)
(* models.yaml.tmp ("temp"), models.yaml ("live") or nothing ("gone").     *)
(***************************************************************************)
EXTENDS Naturals, FiniteSets, Functions, Usage

CONSTANTS
  Proc,           \* processes working in one project root
  Profile,        \* model profiles of models.yaml
  Enabled,        \* profiles that are enabled and whose provider is enabled
  DefaultProfile, \* the profile default_model_config() activates
  Price,          \* price per token of a profile, or Unknown
  NoProfile,      \* no --model option and no profile on the chat route
  Torn,           \* a file truncated and not yet written: it does not parse
  Absent,         \* no such file
  MaxCommands,    \* bound: commands started
  MaxInterrupts   \* bound: commands cut short by a kill or by an error

ASSUME ProfilesAssumption ==
  /\ DefaultProfile \in Profile
  /\ Enabled \subseteq Profile
  /\ NoProfile \notin Profile
  /\ MaxCommands \in Nat
  /\ MaxInterrupts \in Nat

ASSUME PriceAssumption ==
  Price \in [Profile -> Nat \cup {Unknown}]

\* The mutable part of models.yaml; providers and profiles never change here.
Config == [active : Profile, total : Nat, cost : Nat \cup {Unknown}]

ASSUME FileAssumption ==
  /\ Torn \notin Config
  /\ Absent \notin Config
  /\ Torn # Absent

VARIABLES
  live,      \* models.yaml
  temp,      \* models.yaml.tmp
  snapshot,  \* model-usage.json
  events,    \* rows of usage_events
  pc,        \* the step each process is about to take
  cmd,       \* the command it executes
  task,      \* what its current rewrite of models.yaml is for
  handle,    \* where the temporary file it has open is now
  copy,      \* the configuration it holds in memory
  pick,      \* the profile it was asked for
  named,     \* the profile its request named
  tokens,    \* the tokens its answer reported
  call,      \* the number of that answer
  commands,  \* commands started so far
  interrupts, \* commands cut short so far: killed, or ended by an error
  answered,  \* history: calls the provider answered
  billed,    \* history: tokens of the answers charged so far
  purged,    \* history: rows of usage_events deleted so far
  overlap,   \* history: two rewrites of models.yaml were in progress at once
  alone,     \* history: no other command ran while p's command did
  clean      \* history: the books were emptied together, and since then every
             \* command ran alone to its end, was not cut short and emptied no
             \* part of them

files == <<live, temp, snapshot, events>>
locals == <<pc, cmd, task, handle, copy, pick, named, tokens, call>>
history == <<answered, billed, purged, overlap, alone, clean>>
vars == <<files, locals, commands, interrupts, history>>

Steps == {"idle", "load", "read", "open", "write", "replace", "call",
          "snapshot", "event", "purge"}
Commands == {"none", "chat", "set", "resetAll", "resetActive", "resetStore"}
Tasks == {"switch", "record", "reset"}
Event == [call : Nat, model : Profile, tokens : Nat,
          cost : Nat \cup {Unknown}, alone : BOOLEAN]

Whole(file) == file \in Config

---------------------------------------------------------------------------
\* The pure parts: pricing and the counters.

\* Mutant of Cost: an unknown price counts as no cost.
CostFree(profile, t) == IF Price[profile] = Unknown THEN 0 ELSE t * Price[profile]

\* estimate_cost_usd: no price, no cost.
Cost(profile, t) == IF Price[profile] = Unknown THEN Unknown ELSE t * Price[profile]

AddCost(a, b) == IF a = Unknown \/ b = Unknown THEN Unknown ELSE a + b

\* _active_state_from_profile: the counters of a newly activated profile.
Fresh(profile) ==
  [active |-> profile, total |-> 0,
   cost |-> IF Price[profile] = Unknown THEN Unknown ELSE 0]

\* Mutant of Charge: the counters are charged twice.
ChargeTwice(config, t) ==
  [config EXCEPT !.total = @ + t + t,
                 !.cost = AddCost(@, Cost(config.active, t))]

\* update_active_usage: add an answer to the counters of the active profile.
Charge(config, t) ==
  [config EXCEPT !.total = @ + t,
                 !.cost = AddCost(@, Cost(config.active, t))]

---------------------------------------------------------------------------
Init ==
  /\ live = Fresh(DefaultProfile)
  /\ temp = Absent
  /\ snapshot = Absent
  /\ events = {}
  /\ pc = [p \in Proc |-> "idle"]
  /\ cmd = [p \in Proc |-> "none"]
  /\ task = [p \in Proc |-> "switch"]
  /\ handle = [p \in Proc |-> "none"]
  /\ copy = [p \in Proc |-> Fresh(DefaultProfile)]
  /\ pick = [p \in Proc |-> NoProfile]
  /\ named = [p \in Proc |-> DefaultProfile]
  /\ tokens = [p \in Proc |-> 0]
  /\ call = [p \in Proc |-> 0]
  /\ commands = 0
  /\ interrupts = 0
  /\ answered = 0
  /\ billed = 0
  /\ purged = 0
  /\ overlap = FALSE
  /\ alone = [p \in Proc |-> FALSE]
  /\ clean = TRUE

Goto(p, step) == pc' = [pc EXCEPT ![p] = step]

Busy(p) == pc[p] # "idle"
Rewriting(p) == pc[p] \in {"write", "replace"}

\* The command ends: normally, with a reported error, or with a traceback.
End(p) ==
  /\ Goto(p, "idle")
  /\ UNCHANGED <<cmd, task, copy, pick, named, tokens, call, commands, interrupts>>

NobodyElse(p) == \A q \in Proc \ {p} : ~Busy(q)

\* A command begins, alone or among others.
Begin(p, command, step, purpose, profile) ==
  /\ pc[p] = "idle"
  /\ commands < MaxCommands
  /\ commands' = commands + 1
  /\ Goto(p, step)
  /\ cmd' = [cmd EXCEPT ![p] = command]
  /\ task' = [task EXCEPT ![p] = purpose]
  /\ pick' = [pick EXCEPT ![p] = profile]
  /\ alone' = [q \in Proc |-> q = p /\ NobodyElse(p)]
  /\ clean' = (clean /\ NobodyElse(p))
  /\ UNCHANGED <<files, handle, copy, named, tokens, call, interrupts,
                 answered, billed, purged, overlap>>

---------------------------------------------------------------------------
\* Commands.

\* chat_once: a profile from --model or from the default_chat route is activated
\* first; otherwise the active one is used.
StartChat(p, profile) ==
  \/ /\ profile \in Profile
     /\ Begin(p, "chat", "read", "switch", profile)
  \/ /\ profile = NoProfile
     /\ Begin(p, "chat", "load", "record", profile)

\* `models set` and `/model set`
StartSet(p, profile) == Begin(p, "set", "read", "switch", profile)

\* `models reset-usage --confirm` clears all three books.
StartResetAll(p) == Begin(p, "resetAll", "read", "reset", NoProfile)

\* `/usage reset --confirm` clears the counters and the snapshot only.
StartResetActive(p) == Begin(p, "resetActive", "read", "reset", NoProfile)

\* `usage reset --confirm` clears the database only.
StartResetStore(p) == Begin(p, "resetStore", "purge", "reset", NoProfile)

---------------------------------------------------------------------------
\* Reading models.yaml.

\* A chat without a routed profile reads the configuration and uses what is active.
Load(p) ==
  /\ pc[p] = "load"
  /\ Whole(live)
  /\ Goto(p, "call")
  /\ copy' = [copy EXCEPT ![p] = live]
  /\ named' = [named EXCEPT ![p] = live.active]
  /\ UNCHANGED <<files, cmd, task, handle, pick, tokens, call, commands, interrupts, history>>

\* Reading a truncated models.yaml raises a validation error; selecting a disabled
\* profile raises ValueError.  The command ends and nothing is written.
Reject(p) ==
  /\ \/ pc[p] \in {"load", "read"} /\ ~Whole(live)
     \/ pc[p] = "read" /\ task[p] = "switch" /\ pick[p] \notin Enabled
  /\ End(p)
  /\ UNCHANGED <<files, handle, history>>

\* set_active_model_profile
ReadForSwitch(p) ==
  /\ pc[p] = "read" /\ task[p] = "switch"
  /\ Whole(live)
  /\ pick[p] \in Enabled
  /\ Goto(p, "open")
  /\ copy' = [copy EXCEPT ![p] = Fresh(pick[p])]
  /\ UNCHANGED <<files, cmd, task, handle, pick, named, tokens, call, commands, interrupts, history>>

\* reset_usage
ReadForReset(p) ==
  /\ pc[p] = "read" /\ task[p] = "reset"
  /\ Whole(live)
  /\ Goto(p, "open")
  /\ copy' = [copy EXCEPT ![p] = Fresh(live.active)]
  /\ UNCHANGED <<files, cmd, task, handle, pick, named, tokens, call, commands, interrupts, history>>

\* record_model_usage reads models.yaml again, after the answer arrived, and
\* charges whatever profile is active by then.
ReadForRecord(p) ==
  /\ pc[p] = "read" /\ task[p] = "record"
  /\ Whole(live)
  /\ Goto(p, "open")
  /\ copy' = [copy EXCEPT ![p] = Charge(live, tokens[p])]
  /\ billed' = billed + tokens[p]
  /\ UNCHANGED <<files, cmd, task, handle, pick, named, tokens, call, commands, interrupts,
                 answered, purged, overlap, alone, clean>>

---------------------------------------------------------------------------
\* write_model_config: truncate the temporary file, write it, rename it.

\* Opening for writing truncates the file models.yaml.tmp names, whoever wrote it.
OpenTemp(p) ==
  /\ pc[p] = "open"
  /\ Goto(p, "write")
  /\ temp' = Torn
  /\ handle' = [handle EXCEPT ![p] = "temp"]
  /\ overlap' = (overlap \/ \E q \in Proc \ {p} : Rewriting(q))
  /\ UNCHANGED <<live, snapshot, events, cmd, task, copy, pick, named, tokens, call,
                 commands, interrupts, answered, billed, purged, alone, clean>>

\* Mutant of WriteTemp: the content goes to models.yaml itself.
WriteInPlace(p) ==
  /\ pc[p] = "write"
  /\ Goto(p, "replace")
  /\ live' = IF handle[p] = "temp" THEN Torn ELSE copy[p]
  /\ UNCHANGED temp
  /\ handle' = [handle EXCEPT ![p] = "none"]
  /\ UNCHANGED <<snapshot, events, cmd, task, copy, pick, named, tokens, call,
                 commands, interrupts, history>>

\* Mutant of WriteTemp: the content is dropped if the file was renamed meanwhile.
WriteTempByName(p) ==
  /\ pc[p] = "write"
  /\ Goto(p, "replace")
  /\ temp' = IF handle[p] = "temp" THEN copy[p] ELSE temp
  /\ handle' = [handle EXCEPT ![p] = "none"]
  /\ UNCHANGED <<live, snapshot, events, cmd, task, copy, pick, named, tokens, call,
                 commands, interrupts, history>>

\* The content goes to the file that was opened, wherever it has been renamed to.
WriteTemp(p) ==
  /\ pc[p] = "write"
  /\ Goto(p, "replace")
  /\ temp' = IF handle[p] = "temp" THEN copy[p] ELSE temp
  /\ live' = IF handle[p] = "live" THEN copy[p] ELSE live
  /\ handle' = [handle EXCEPT ![p] = "none"]
  /\ UNCHANGED <<snapshot, events, cmd, task, copy, pick, named, tokens, call,
                 commands, interrupts, history>>

\* What follows the rename: the provider call, the other two books, or the end.
AfterReplace(p) ==
  CASE task[p] = "switch" /\ cmd[p] = "chat" -> "call"
    [] task[p] = "switch" /\ cmd[p] # "chat" -> "idle"
    [] OTHER -> "snapshot"

\* The rename moves whatever models.yaml.tmp holds now.
Replace(p) ==
  /\ pc[p] = "replace"
  /\ temp # Absent
  /\ live' = temp
  /\ temp' = Absent
  /\ handle' = [q \in Proc |-> CASE handle[q] = "temp" -> "live"
                                 [] handle[q] = "live" -> "gone"
                                 [] OTHER -> handle[q]]
  /\ Goto(p, AfterReplace(p))
  /\ named' = IF task[p] = "switch" THEN [named EXCEPT ![p] = copy[p].active] ELSE named
  /\ clean' = (clean /\ task[p] # "switch")
  /\ UNCHANGED <<snapshot, events, cmd, task, copy, pick, tokens, call,
                 commands, interrupts, answered, billed, purged, overlap, alone>>

\* Another process already renamed it away: FileNotFoundError ends the command.
ReplaceFails(p) ==
  /\ pc[p] = "replace"
  /\ temp = Absent
  /\ End(p)
  /\ UNCHANGED <<files, handle, history>>

---------------------------------------------------------------------------
\* The provider call and the other two books.

\* An answer with status "ok": it will be recorded.
Answer(p, t) ==
  /\ pc[p] = "call"
  /\ Goto(p, "read")
  /\ task' = [task EXCEPT ![p] = "record"]
  /\ tokens' = [tokens EXCEPT ![p] = t]
  /\ answered' = answered + 1
  /\ call' = [call EXCEPT ![p] = answered + 1]
  /\ UNCHANGED <<files, cmd, handle, copy, pick, named, commands, interrupts,
                 billed, purged, overlap, alone, clean>>

\* Mutant of CallFails: a failed call is recorded like an answered one.
CallFailsButRecords(p) ==
  /\ pc[p] = "call"
  /\ Goto(p, "read")
  /\ task' = [task EXCEPT ![p] = "record"]
  /\ UNCHANGED <<files, cmd, handle, copy, pick, named, tokens, call, commands, interrupts, history>>

\* Any other status: nothing is recorded.
CallFails(p) ==
  /\ pc[p] = "call"
  /\ End(p)
  /\ UNCHANGED <<files, handle, history>>

\* _write_usage_store and _write_usage_snapshot.  No part of the program reads this
\* file back, so truncating and writing it are one step.
WriteSnapshot(p) ==
  /\ pc[p] = "snapshot"
  /\ snapshot' = copy[p]
  /\ Goto(p, IF task[p] = "record" THEN "event"
             ELSE IF cmd[p] = "resetAll" THEN "purge" ELSE "idle")
  /\ clean' = (clean /\ cmd[p] # "resetActive")
  /\ UNCHANGED <<live, temp, events, cmd, task, handle, copy, pick, named, tokens, call,
                 commands, interrupts, answered, billed, purged, overlap, alone>>

\* Mutant of EventOf: the row is priced with the profile of models.yaml's default.
EventOfDefault(p) ==
  [call |-> call[p], model |-> named[p], tokens |-> tokens[p],
   cost |-> Cost(DefaultProfile, tokens[p]), alone |-> alone[p]]

\* The row names the model of the response and is priced with the profile that was
\* active when the counters were charged.
EventOf(p) ==
  [call |-> call[p], model |-> named[p], tokens |-> tokens[p],
   cost |-> Cost(copy[p].active, tokens[p]), alone |-> alone[p]]

\* _write_usage_event
InsertEvent(p) ==
  /\ pc[p] = "event"
  /\ events' = events \cup {EventOf(p)}
  /\ End(p)
  /\ UNCHANGED <<live, temp, snapshot, handle, history>>

\* UsageStore.reset deletes every row in one transaction.  A reset of all three
\* books by a command that ran alone makes them agree again.
PurgeStore(p) ==
  /\ pc[p] = "purge"
  /\ events' = {}
  /\ End(p)
  /\ purged' = purged + Cardinality(events)
  /\ clean' = (cmd[p] = "resetAll" /\ alone[p])
  /\ UNCHANGED <<live, temp, snapshot, handle, answered, billed, overlap, alone>>

---------------------------------------------------------------------------
\* The command of p ends where it stands; what it had open is closed.
Interrupt(p) ==
  /\ Busy(p)
  /\ interrupts < MaxInterrupts
  /\ interrupts' = interrupts + 1
  /\ Goto(p, "idle")
  /\ handle' = [handle EXCEPT ![p] = "none"]
  /\ clean' = FALSE
  /\ UNCHANGED <<files, cmd, task, copy, pick, named, tokens, call, commands,
                 answered, billed, purged, overlap, alone>>

\* The process is killed, also while it waits for the provider.
Crash(p) == Interrupt(p)

\* An operation of the command raises: a file cannot be read, written or renamed, the
\* profile.yaml that _write_usage_event reads does not parse, the database is locked.
\* What was written before stays written; the database rolls back.
Fails(p) == pc[p] # "call" /\ Interrupt(p)

\* The steps a running command takes by itself.
Step(p) ==
  \/ Load(p) \/ Reject(p)
  \/ ReadForSwitch(p) \/ ReadForReset(p) \/ ReadForRecord(p)
  \/ OpenTemp(p) \/ WriteTemp(p) \/ Replace(p) \/ ReplaceFails(p)
  \/ \E t \in TokenCounts : Answer(p, t)
  \/ CallFails(p)
  \/ WriteSnapshot(p) \/ InsertEvent(p) \/ PurgeStore(p)

Start(p) ==
  \/ \E profile \in Profile \cup {NoProfile} : StartChat(p, profile)
  \/ \E profile \in Profile : StartSet(p, profile)
  \/ StartResetAll(p) \/ StartResetActive(p) \/ StartResetStore(p)

Next == \E p \in Proc : Start(p) \/ Step(p) \/ Crash(p) \/ Fails(p)

Spec == Init /\ [][Next]_vars

\* A command that has begun runs on: file operations return and the HTTP client
\* gives up after timeout_seconds.  Nobody is obliged to begin a command.
FairSpec == Spec /\ \A p \in Proc : WF_vars(Step(p))

---------------------------------------------------------------------------
\* The type invariant.
TypeOK ==
  /\ live \in Config \cup {Torn}
  /\ temp \in Config \cup {Torn, Absent}
  /\ snapshot \in Config \cup {Absent}
  /\ events \subseteq Event
  /\ pc \in [Proc -> Steps]
  /\ cmd \in [Proc -> Commands]
  /\ task \in [Proc -> Tasks]
  /\ handle \in [Proc -> {"none", "temp", "live", "gone"}]
  /\ copy \in [Proc -> Config]
  /\ pick \in [Proc -> Profile \cup {NoProfile}]
  /\ named \in [Proc -> Profile]
  /\ tokens \in [Proc -> Nat]
  /\ call \in [Proc -> Nat]
  /\ commands \in Nat /\ interrupts \in Nat
  /\ answered \in Nat /\ billed \in Nat /\ purged \in Nat
  /\ overlap \in BOOLEAN /\ clean \in BOOLEAN
  /\ alone \in [Proc -> BOOLEAN]

\* Whatever races between read and rename lose, repeat or bring back, the counters
\* of models.yaml never exceed the tokens that were charged to them
\* (read_model_config, update_active_usage, write_model_config).
NeverOverCounts == Whole(live) => live.total <= billed

\* The temporary file and the rename keep models.yaml whole through any end of a
\* rewriting process; only two rewrites at once, which share the one temporary name,
\* can leave it truncated (write_model_config).
TornOnlyByOverlap == live = Torn => overlap

\* Answers are conserved: of the calls the provider answered, those with a row, those
\* still being recorded and those whose row a reset deleted are no more than all, and
\* without two rewrites at once each command that was killed or ended by an error has
\* cost at most one answer its row; a failed call leaves none (record_model_usage,
\* UsageStore.reset).
Recording(p) == Busy(p) /\ task[p] = "record" /\ pc[p] \notin {"load", "call"}

AnswersConserved ==
  LET kept == Cardinality(events) + purged + Cardinality({p \in Proc : Recording(p)}) IN
  /\ kept <= answered
  /\ ~overlap => answered <= kept + interrupts

\* A row written by a chat that ran alone carries the price of the model it names,
\* although that price is looked up again after the answer (_write_usage_event).
PricedAsNamed == \A e \in events : e.alone => e.cost = Cost(e.model, e.tokens)

\* The three books agree when nothing is running, provided they were emptied together
\* and each command since then ran alone, was neither killed nor ended by an error of a
\* file or of the database (_write_usage_event can raise when the counters and the
\* snapshot are written) and emptied none of them: the same tokens, and a cost that is
\* unknown in all three or in none.
EventTokens == SumFunction([e \in events |-> e.tokens])

EventCost ==
  IF \E e \in events : e.cost = Unknown THEN Unknown
  ELSE SumFunction([e \in events |-> e.cost])

ThreeBooksAgree ==
  clean /\ (\A p \in Proc : ~Busy(p)) =>
    /\ live.total = EventTokens
    /\ events # {} => live.cost = EventCost
    /\ IF snapshot = Absent THEN events = {} ELSE snapshot = live

\* Once torn, models.yaml becomes readable again without any repair command: the
\* process that renamed a truncated file into place is followed by the one whose
\* content it took, unless that one is killed or fails first.
TornHeals == live = Torn ~> (live # Torn \/ interrupts > 0)

\* docs/usage.md: "If pricing is unknown, AgentOS stores token counts and sets cost
\* to null."  A row that names a model of unknown price has no cost.
UnknownPricingIsNull == \A e \in events : Price[e.model] = Unknown => e.cost = Unknown
============================================================================
