--------------------------- MODULE AgentRegistry ---------------------------
(***************************************************************************)
(* .agentos/agents/runtime-state.json: the agents that were started, with  *)
(* their status and effort.  Every change reads the file, changes the list *)
(* in memory and writes all of it in place.                                *)
(*                                                                         *)
(* A file that does not parse, because it was truncated and not written    *)
(* yet or because a list was written over a longer text, is read as an     *)
(* empty list.                                                             *)
(***************************************************************************)
EXTENDS ProjectFiles

CONSTANTS
  Agent,           \* ids, each generated once
  Effort,          \* effort labels
  NoEffort,        \* no --effort was given
  Garbage          \* a file that does not parse

Entry == [id : Agent, status : {"running", "completed"}, effort : Effort]
Listings == SUBSET Entry

ASSUME AgentAssumption ==
  /\ Agent # {} /\ NoEffort \notin Effort
  /\ \A listing \in Listings : listing \notin {NoFile, Blank, Garbage}

VARIABLES
  registry,    \* runtime-state.json
  agentPc,     \* where each process is
  change,      \* the change its command makes
  agentCopy,   \* the list it read and then is about to write
  started,     \* history: ids that were given to a start_agent
  recorded,    \* history: the changes that were written, one after another
  agentsMixed  \* history: two processes changed the file at once, or one was killed

agentVars == <<registry, agentPc, change, agentCopy, started, recorded, agentsMixed>>

AgentStep == {"idle", "effort", "open", "write"}
Change == [kind : {"start", "stop", "clear"}, id : Agent, effort : Effort \cup {NoEffort}]

AgentGoto(p, step) == agentPc' = [agentPc EXCEPT ![p] = step]
AgentMeets(p) ==
  agentsMixed' = (agentsMixed \/ \E q \in Proc \ {p} : agentPc[q] # "idle")

\* _read_state
Listed(file) == IF file \in {NoFile, Blank, Garbage} THEN {} ELSE file

Ids(listing) == {e.id : e \in listing}

\* What start_agent, stop_agent and clear make of a list.
Changed(c, listing) ==
  IF c.kind = "start"
    THEN listing \cup {[id |-> c.id, status |-> "running", effort |-> c.effort]}
  ELSE IF c.kind = "stop"
    THEN {IF e.id = c.id THEN [e EXCEPT !.status = "completed"] ELSE e : e \in listing}
  ELSE {}

\* What is in the file when `new` is written from its beginning over `old`.
Overwriting(old, new) ==
  IF old \in {NoFile, Blank, {}} THEN {new} ELSE {new, Garbage}

---------------------------------------------------------------------------
AgentInit ==
  /\ registry = NoFile
  /\ agentPc = [p \in Proc |-> "idle"]
  /\ change = [p \in Proc |-> [kind |-> "clear", id |-> CHOOSE a \in Agent : TRUE,
                               effort |-> NoEffort]]
  /\ agentCopy = [p \in Proc |-> {}]
  /\ started = {} /\ recorded = {}
  /\ agentsMixed = FALSE

\* Mutant of StartAgent: the registry is not read first.
StartAgentForgets(p, a, effort) ==
  /\ agentPc[p] = "idle"
  /\ a \notin started
  /\ started' = started \cup {a}
  /\ change' = [change EXCEPT ![p] = [kind |-> "start", id |-> a, effort |-> effort]]
  /\ agentCopy' = [agentCopy EXCEPT ![p] = {}]
  /\ AgentGoto(p, "effort")
  /\ AgentMeets(p)
  /\ UNCHANGED <<registry, recorded>>

\* start_agent: the registry is read before the effort is known.
StartAgent(p, a, effort) ==
  /\ agentPc[p] = "idle"
  /\ a \notin started
  /\ started' = started \cup {a}
  /\ change' = [change EXCEPT ![p] = [kind |-> "start", id |-> a, effort |-> effort]]
  /\ agentCopy' = [agentCopy EXCEPT ![p] = Listed(registry)]
  /\ AgentGoto(p, "effort")
  /\ AgentMeets(p)
  /\ UNCHANGED <<registry, recorded>>

\* effective_effort: what was given, or what the coding route says.
TakeEffort(p, routed) ==
  /\ agentPc[p] = "effort"
  /\ change' = [change EXCEPT ![p].effort = IF @ = NoEffort THEN routed ELSE @]
  /\ AgentGoto(p, "open")
  /\ UNCHANGED <<registry, agentCopy, started, recorded, agentsMixed>>

\* stop_agent raises KeyError for an agent that is not in the list it read.
StopAgent(p, a) ==
  /\ agentPc[p] = "idle"
  /\ a \in Ids(Listed(registry))
  /\ change' = [change EXCEPT ![p] = [kind |-> "stop", id |-> a, effort |-> NoEffort]]
  /\ agentCopy' = [agentCopy EXCEPT ![p] = Listed(registry)]
  /\ AgentGoto(p, "open")
  /\ AgentMeets(p)
  /\ UNCHANGED <<registry, started, recorded>>

\* agents clear --confirm writes without reading.
ClearAgents(p) ==
  /\ agentPc[p] = "idle"
  /\ change' = [change EXCEPT ![p].kind = "clear"]
  /\ AgentGoto(p, "open")
  /\ AgentMeets(p)
  /\ UNCHANGED <<registry, agentCopy, started, recorded>>

OpenRegistry(p) ==
  /\ agentPc[p] = "open"
  /\ registry' = Blank
  /\ AgentGoto(p, "write")
  /\ UNCHANGED <<change, agentCopy, started, recorded, agentsMixed>>

WriteRegistry(p) ==
  /\ agentPc[p] = "write"
  /\ registry' \in Overwriting(registry, Changed(change[p], agentCopy[p]))
  /\ recorded' = Changed(change[p], recorded)
  /\ AgentGoto(p, "idle")
  /\ UNCHANGED <<change, agentCopy, started, agentsMixed>>

\* The process is killed; what matters is whether it had truncated the file.
KillAgent(p) ==
  /\ AgentGoto(p, "idle")
  /\ agentsMixed' = (agentsMixed \/ agentPc[p] = "write")
  /\ UNCHANGED <<registry, change, agentCopy, started, recorded>>

AgentNext == \E p \in Proc :
  \/ \E a \in Agent : StopAgent(p, a)
       \/ \E effort \in Effort \cup {NoEffort} : StartAgent(p, a, effort)
  \/ \E effort \in Effort : TakeEffort(p, effort)
  \/ ClearAgents(p) \/ OpenRegistry(p) \/ WriteRegistry(p) \/ KillAgent(p)

AgentSpec == AgentInit /\ [][AgentNext]_agentVars

---------------------------------------------------------------------------
\* The type invariant.
AgentTypeOK ==
  /\ registry \in Listings \cup {NoFile, Blank, Garbage}
  /\ agentPc \in [Proc -> AgentStep]
  /\ change \in [Proc -> Change]
  /\ agentCopy \in [Proc -> Listings]
  /\ started \in SUBSET Agent
  /\ recorded \in Listings
  /\ agentsMixed \in BOOLEAN

\* `agents list` shows the agents as the commands that ended left them, except while the
\* file is being written: an agent that was started stays until the registry is cleared,
\* unless two commands changed the file at once or one was killed between truncating and
\* writing it; then the file reads as empty and the next command makes that final
\* (start_agent, stop_agent, _read_state).
AgentsKept ==
  agentsMixed \/ Listed(registry) = recorded \/ \E p \in Proc : agentPc[p] = "write"
=============================================================================
