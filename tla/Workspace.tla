----------------------------- MODULE Workspace -----------------------------
(***************************************************************************)
(* A project as several processes use it: commands of the command line and *)
(* one MCP server, over the routes, the registry, the profiles, the        *)
(* policies and the brain.  Each part is a module with the steps of its    *)
(* own; here is which command takes which of them, and what one part asks  *)
(* of another:                                                             *)
(*   agents start    reads the route `coding` for its effort               *)
(*   policies check  reads the rules, then the active profile              *)
(*   brain ingest    has its path checked by rules it reads for that       *)
(*   backup restore  writes the profiles, then the rules, over what is     *)
(*                   there; the rest of a backup is a matter of Backup     *)
(*   the server      keeps the policies it read for its first check        *)
(***************************************************************************)
EXTENDS ModelRouting, AgentRegistry, Profiles, Policies, Brain, McpServer

CONSTANTS
  Server,      \* the process of the MCP server
  Coding,      \* the route that agents start with
  Sensitive,   \* the files that the default rules block
  Scenarios,   \* bound: sets of commands, lines and what a backup may hold, of which a
               \* behaviour uses one
  MaxCommands  \* bound: commands and lines

ASSUME WorkspaceAssumption ==
  /\ Server \in Proc /\ Coding \in Route /\ Sensitive \subseteq Doc
  /\ Setting \subseteq Effort /\ MaxCommands \in Nat
  /\ {"policies_check", "memory_add", "brain_search", "agents_status"} \subseteq Tool

VARIABLES
  service,   \* the policies of a process: none, reading rules, reading a profile, built;
             \* or restoring, when it writes the profiles of a backup
  scenario, commands

vars == <<routeVars, agentVars, profileVars, policyVars, brainVars, serverVars, service,
          scenario, commands>>

User == Proc \ {Server}

AtRest(p) ==
  /\ routePc[p] = "idle" /\ agentPc[p] = "idle"
  /\ profilePc[p] \in {"idle", "known", "error"}
  /\ policyPc[p] \in {"idle", "ready"}
  /\ brainPc[p] \in {"idle", "failed"}
  /\ service[p] \in {"none", "built"}

Count == commands < MaxCommands /\ commands' = commands + 1 /\ UNCHANGED scenario
NoCommand == UNCHANGED <<scenario, commands>>

Begin(p, command) == p \in User /\ AtRest(p) /\ command \in scenario /\ Count

\* What a step of one part leaves alone.
ButRoutes == UNCHANGED <<agentVars, profileVars, policyVars, brainVars, serverVars>>
ButAgents == UNCHANGED <<routeVars, profileVars, policyVars, brainVars, serverVars>>
ButProfiles == UNCHANGED <<routeVars, agentVars, policyVars, brainVars, serverVars>>
ButPolicies == UNCHANGED <<routeVars, agentVars, profileVars, brainVars, serverVars>>
ButBrain == UNCHANGED <<routeVars, agentVars, profileVars, policyVars, serverVars>>
ButServer == UNCHANGED <<routeVars, agentVars, profileVars, policyVars, brainVars>>

Init ==
  /\ RouteInit /\ AgentInit /\ ProfileInit /\ PolicyInit /\ BrainInit /\ ServerInit
  /\ service = [p \in Proc |-> "none"]
  /\ scenario \in Scenarios /\ commands = 0

---------------------------------------------------------------------------
\* Commands that concern one part

SetRoute(p) ==
  /\ Begin(p, "models_route_set")
  /\ \E route \in Route, setting \in Setting : StartSetRoute(p, route, setting)
  /\ ButRoutes /\ UNCHANGED service

StopOrClear(p) ==
  /\ Begin(p, "agents_stop")
  /\ ClearAgents(p) \/ \E a \in Agent : StopAgent(p, a)
  /\ ButAgents /\ UNCHANGED service

SetProfile(p) ==
  /\ Begin(p, "profile_set")
  /\ \E w \in Profile : StartSetProfile(p, w)
  /\ ButProfiles /\ UNCHANGED service

\* memory add without --project; the memory itself is a matter of MemoryStore.
AddMemory(p) == Begin(p, "memory_add") /\ StartReadProfile(p) /\ ButProfiles /\ UNCHANGED service

Search(p) == Begin(p, "brain_search") /\ SearchBrain /\ ButBrain /\ UNCHANGED service

\* A backup need not have a copy of the profiles.
RestoreBackup(p) ==
  /\ Begin(p, "backup_restore")
  /\ \/ /\ "profile_copy" \in scenario
        /\ \E w \in Profile \cup {Blank} : StartRestoreProfile(p, w)
        /\ service' = [service EXCEPT ![p] = "restoring"]
        /\ ButProfiles
     \/ /\ "rules_copy" \in scenario
        /\ StartRestoreRules(p)
        /\ ButPolicies /\ UNCHANGED service

ThenRules(p) ==
  /\ service[p] = "restoring" /\ profilePc[p] = "known"
  /\ StartRestoreRules(p)
  /\ service' = [service EXCEPT ![p] = "none"]
  /\ ButPolicies /\ NoCommand

\* The user's editor
Edit ==
  /\ \/ "edit_rules" \in scenario /\ (\E f \in RuleFile : EditRules(f)) /\ ButPolicies
     \/ "save_document" \in scenario /\ (\E d \in Doc : SaveFile(d)) /\ ButBrain
  /\ UNCHANGED service /\ NoCommand

Work(p) ==
  /\ \/ RouteWork(p) /\ ButRoutes
     \/ (OpenRegistry(p) \/ WriteRegistry(p)) /\ ButAgents
     \/ ProfileWork(p) /\ ButProfiles
     \/ PolicyWork(p) /\ ButPolicies
     \/ BrainWork(p) /\ ButBrain
  /\ UNCHANGED service /\ NoCommand

---------------------------------------------------------------------------
\* agents start

BeginAgent(p) ==
  /\ Begin(p, "agents_start")
  /\ \E a \in Agent :
       \/ StartAgent(p, a, NoEffort) /\ StartResolve(p, Coding)
       \/ (\E effort \in Effort : StartAgent(p, a, effort)) /\ UNCHANGED routeVars
  /\ UNCHANGED <<profileVars, policyVars, brainVars, serverVars, service>>

KnowEffort(p) ==
  /\ routePc[p] = "idle"
  /\ TakeEffort(p, resolved[p])
  /\ ButAgents /\ UNCHANGED service /\ NoCommand

---------------------------------------------------------------------------
\* LocalPolicyService: rules, then the active profile, whose absence raises KeyError.

BuildService(p) ==
  /\ StartPolicies(p)
  /\ service' = [service EXCEPT ![p] = "rules"]
  /\ UNCHANGED <<routeVars, agentVars, profileVars, brainVars>>

CheckPolicies(p) == Begin(p, "policies_check") /\ BuildService(p) /\ UNCHANGED serverVars

NowProfile(p) ==
  /\ service[p] = "rules" /\ policyPc[p] = "ready"
  /\ StartReadProfile(p)
  /\ service' = [service EXCEPT ![p] = "profile"]
  /\ ButProfiles /\ NoCommand

\* Mutant of Built: the service is kept also when there was no profile.
BuiltAnyway(p) ==
  /\ service[p] = "profile" /\ profilePc[p] \in {"known", "error"}
  /\ service' = [service EXCEPT ![p] = "built"]

Built(p) ==
  /\ service[p] = "profile" /\ profilePc[p] \in {"known", "error"}
  /\ service' = [service EXCEPT ![p] = IF profilePc[p] = "known" THEN "built" ELSE "none"]

HaveService(p) ==
  /\ p \in User /\ Built(p)
  /\ UNCHANGED <<routeVars, agentVars, profileVars, policyVars, brainVars, serverVars>> /\ NoCommand

---------------------------------------------------------------------------
\* brain ingest

BeginIngest(p) ==
  /\ Begin(p, "brain_ingest")
  /\ \E d \in Doc : StartIngest(p, d)
  /\ StartPolicies(p)
  /\ UNCHANGED <<routeVars, agentVars, profileVars, serverVars, service>>

\* check_path: sensitive_paths.yaml is the first of the files; without rules it allows.
Verdict(p) == doc[p] \notin Sensitive \/ seen[p][RuleFiles[1]] \in {"absent", "empty"}

\* Mutant of PathChecked: the path is asked before the rules were read.
PathCheckedEarly(p) ==
  /\ policyPc[p] \in {"read", "ready"}
  /\ CheckPath(p, Verdict(p))
  /\ ButBrain /\ UNCHANGED service /\ NoCommand

PathChecked(p) ==
  /\ policyPc[p] = "ready"
  /\ CheckPath(p, Verdict(p))
  /\ ButBrain /\ UNCHANGED service /\ NoCommand

---------------------------------------------------------------------------
\* The server

Offered(line) == (IF line.kind = "tool" THEN line.tool ELSE "lines") \in scenario

Receive ==
  /\ "mcp_serve" \in scenario /\ Count
  /\ \E line \in Line :
       Offered(line) /\ (Ignore(line) \/ Accept(line) \/ ("lines" \in scenario /\ LineRaises))
  /\ ButServer /\ UNCHANGED service

AnswerLine == AnswerSimple /\ ButServer /\ UNCHANGED service /\ NoCommand

\* A tool raises when its arguments are wrong, and also for reasons of its own.
AnswerIf(fine) == AnswerCall("toolError") \/ (fine /\ AnswerCall("result"))

\* The policies are a cached property of the services, which live as long as the server.
CallPolicies ==
  /\ request.kind = "tool" /\ request.tool = "policies_check"
  /\ \/ /\ serverPc = "tool"
        /\ AnswerIf(service[Server] = "built")
        /\ ButServer /\ UNCHANGED service /\ NoCommand
     \/ /\ service[Server] = "none" /\ EnterTool
        /\ BuildService(Server) /\ NoCommand
     \/ /\ Built(Server) /\ AnswerIf(profilePc[Server] = "known")
        /\ ButServer /\ NoCommand

CallMemory ==
  /\ request.kind = "tool" /\ request.tool = "memory_add"
  /\ \/ /\ EnterTool /\ StartReadProfile(Server)
        /\ UNCHANGED <<routeVars, agentVars, policyVars, brainVars, service>> /\ NoCommand
     \/ /\ serverPc = "called" /\ profilePc[Server] \in {"known", "error"}
        /\ AnswerIf(profilePc[Server] = "known")
        /\ ButServer /\ UNCHANGED service /\ NoCommand

CallSearch ==
  /\ request.kind = "tool" /\ request.tool = "brain_search" /\ serverPc = "tool"
  /\ \/ SearchBrain /\ AnswerCall("result")
     \/ UNCHANGED brainVars /\ AnswerCall("toolError")
  /\ UNCHANGED <<routeVars, agentVars, profileVars, policyVars, service>> /\ NoCommand

\* A name that is no tool raises KeyError; the others work in one step here, or with what
\* another module models.
CallOther ==
  /\ request.kind = "tool" /\ serverPc = "tool"
  /\ request.tool \notin {"policies_check", "memory_add", "brain_search"}
  /\ AnswerIf(request.tool # "noTool")
  /\ ButServer /\ UNCHANGED service /\ NoCommand

Stop == EndOfInput /\ ButServer /\ UNCHANGED service /\ NoCommand

Kill(p) ==
  /\ ~AtRest(p)
  /\ KillRoute(p) /\ KillAgent(p) /\ KillProfile(p) /\ KillPolicy(p) /\ KillBrain(p)
  /\ service' = [service EXCEPT ![p] = "none"]
  /\ IF p = Server THEN KillServer ELSE UNCHANGED serverVars
  /\ NoCommand

Next ==
  \/ \E p \in Proc :
       \/ SetRoute(p) \/ StopOrClear(p) \/ SetProfile(p) \/ AddMemory(p) \/ Search(p)
       \/ RestoreBackup(p) \/ ThenRules(p)
       \/ Work(p) \/ BeginAgent(p) \/ KnowEffort(p) \/ CheckPolicies(p) \/ NowProfile(p)
       \/ HaveService(p) \/ BeginIngest(p) \/ PathChecked(p) \/ Kill(p)
  \/ Edit \/ Receive \/ AnswerLine \/ CallPolicies \/ CallMemory \/ CallSearch \/ CallOther \/ Stop

Spec == Init /\ [][Next]_vars

---------------------------------------------------------------------------
\* A file that the default rules block is in the brain only if the file that blocks it was
\* read while another process was between truncating and writing it, or had been left empty
\* by a killed process or by the restore of an empty copy: asking the rules, creating those
\* that are missing and reading the document are steps that other processes come between
\* (_ensure_path_allowed, create_default_policies, BackupManager.restore).
SensitiveKeptOut ==
  \A d \in Sensitive : documents[d] # NoDoc => RuleFiles[1] \in halfRead \cup gutted
=============================================================================
