-------------------------- MODULE Workspace_proofs --------------------------
(***************************************************************************)
(* Proofs about Workspace and its parts: the files of a project that       *)
(* commands change in place, the server, and the brain, each for itself and*)
(* for any processes and any contents; then what each part keeps alone it  *)
(* also keeps when commands and the server combine the parts, and what the *)
(* policies and the brain keep together.                                   *)
(***************************************************************************)
EXTENDS Workspace, TLAPS

---------------------------------------------------------------------------
\* The routes

\* What a process that changes the routes relies on as long as it is the only one.
RouteHeld(p) ==
  /\ routePc[p] = "create" => routes = NoFile
  /\ routePc[p] = "default" => routes = Blank /\ chosen = Default
  /\ routePc[p] \in {"open", "write"} =>
       routeCopy[p] = [chosen EXCEPT ![goal[p].route] = goal[p].setting]
  /\ routePc[p] = "write" => routes = Blank

RouteInv ==
  /\ RouteTypeOK
  /\ routes = NoFile => chosen = Default
  /\ routesMixed \/ \A p, q \in Proc : RouteChanging(p) /\ RouteChanging(q) => p = q
  /\ routesMixed \/ \A p \in Proc : RouteHeld(p)
  /\ RoutesKept

LEMMA ParsedType == \A f \in Routes \cup {NoFile, Blank} : Parsed(f) \in Routes
BY RouteAssumption DEF Parsed

LEMMA OverlaidType ==
  \A old, new : new \in Routes => Overlaid(old, new) \subseteq Routes
BY DEF Overlaid

\* Nothing of a truncated file is left in the new one.
LEMMA OverBlank == \A new \in Routes : Overlaid(Blank, new) = {new}
BY RouteAssumption DEF Overlaid

LEMMA RouteInitially == RouteInit => RouteInv
<1> SUFFICES ASSUME RouteInit PROVE RouteInv OBVIOUS
<1>1. Default[LastRoute] \in Setting /\ LastRoute \in Route
  BY RouteAssumption DEF Routes
<1>2. RouteTypeOK
  BY <1>1, RouteAssumption DEF RouteInit, RouteTypeOK, RouteStep, Goal
<1>3. RoutesKept BY DEF RouteInit, RoutesKept, Parsed
<1> QED BY <1>2, <1>3 DEF RouteInit, RouteInv, RouteHeld, RouteChanging

\* A step that changes neither the file nor what was chosen, by a process that was not
\* writing, and that leaves the others where they are.
LEMMA RouteStart ==
  ASSUME RouteInv, NEW p \in Proc, NEW g \in Goal, AskRoute(p, g)
  PROVE  RouteInv'
<1> USE DEF RouteInv, RouteGoto, AskRoute
<1>1. RouteTypeOK' BY DEF RouteTypeOK, RouteStep
<1>2. \A q \in Proc : routePc'[q] # routePc[q] => q = p
  BY DEF RouteTypeOK
<1>3. routePc'[p] = "ensure" BY DEF RouteTypeOK
<1>4. (routesMixed \/ \A q, r \in Proc : RouteChanging(q) /\ RouteChanging(r) => q = r)'
  BY <1>2, <1>3 DEF RouteChanging
<1>5. (routesMixed \/ \A q \in Proc : RouteHeld(q))'
  BY <1>2, <1>3 DEF RouteHeld, RouteTypeOK
<1>6. RoutesKept' BY <1>2, <1>3 DEF RoutesKept, RouteTypeOK
<1> QED BY <1>1, <1>4, <1>5, <1>6

LEMMA RouteWorkStep ==
  ASSUME RouteInv, NEW p \in Proc, RouteWork(p)
  PROVE  RouteInv'
<1> USE DEF RouteInv, RouteGoto, RouteMeets
<1>0. /\ routePc \in [Proc -> RouteStep] /\ goal \in [Proc -> Goal]
      /\ routeCopy \in [Proc -> Routes] /\ Parsed(routes) \in Routes
  BY ParsedType DEF RouteTypeOK
<1>a. \A new \in Routes : \A text \in Overlaid(routes, new) : text \in Routes
  BY OverlaidType
<1>1. CASE FindNoRoutes(p)
  <2>1. RouteTypeOK' BY <1>1 DEF FindNoRoutes, RouteTypeOK, RouteStep
  <2>2. (routesMixed \/ \A q, r \in Proc : RouteChanging(q) /\ RouteChanging(r) => q = r)'
    BY <1>0, <1>1 DEF FindNoRoutes, RouteChanging
  <2>3. (routesMixed \/ \A q \in Proc : RouteHeld(q))'
    BY <1>0, <1>1 DEF FindNoRoutes, RouteHeld
  <2>4. RoutesKept' BY <1>0, <1>1 DEF FindNoRoutes, RoutesKept, Parsed
  <2> QED BY <1>1, <2>1, <2>2, <2>3, <2>4 DEF FindNoRoutes
<1>2. CASE CreateRoutes(p)
  <2>1. RouteTypeOK' BY <1>2 DEF CreateRoutes, RouteTypeOK, RouteStep
  <2>2. (routesMixed \/ \A q, r \in Proc : RouteChanging(q) /\ RouteChanging(r) => q = r)'
    BY <1>0, <1>2 DEF CreateRoutes, RouteChanging
  <2>3. ASSUME ~routesMixed PROVE /\ \A q \in Proc : RouteHeld(q)'
                                  /\ chosen = Default
    <3>1. routes = NoFile /\ chosen = Default
      BY <1>2, <2>3 DEF CreateRoutes, RouteHeld
    <3>2. \A q \in Proc \ {p} : ~RouteChanging(q)
      BY <1>2, <2>3 DEF CreateRoutes, RouteChanging
    <3> QED BY <1>0, <1>2, <3>1, <3>2 DEF CreateRoutes, RouteHeld, RouteChanging
  <2>4. RoutesKept' BY <1>0, <1>2, <2>3 DEF CreateRoutes, RoutesKept, Parsed
  <2>5. (routes = NoFile => chosen = Default)' BY <1>2, FileAssumption DEF CreateRoutes
  <2> QED BY <1>2, <2>1, <2>2, <2>3, <2>4, <2>5 DEF CreateRoutes
<1>3. CASE WriteDefaults(p)
  <2>1. RouteTypeOK'
    BY <1>3, <1>a, RouteAssumption DEF WriteDefaults, RouteTypeOK, RouteStep
  <2>2. (routesMixed \/ \A q, r \in Proc : RouteChanging(q) /\ RouteChanging(r) => q = r)'
    BY <1>0, <1>3 DEF WriteDefaults, RouteChanging
  <2>3. ASSUME ~routesMixed PROVE /\ \A q \in Proc : RouteHeld(q)'
                                  /\ routes' = Default /\ chosen = Default
    <3>1. routes = Blank /\ chosen = Default
      BY <1>3, <2>3 DEF WriteDefaults, RouteHeld
    <3>2. \A q \in Proc \ {p} : ~RouteChanging(q)
      BY <1>3, <2>3 DEF WriteDefaults, RouteChanging
    <3>3. routes' = Default BY <1>3, <3>1, OverBlank, RouteAssumption DEF WriteDefaults
    <3> QED BY <1>0, <1>3, <3>1, <3>2, <3>3 DEF WriteDefaults, RouteHeld, RouteChanging
  <2>4. RoutesKept' BY <1>3, <2>3 DEF WriteDefaults, RoutesKept, Parsed
  <2>5. (routes = NoFile => chosen = Default)'
    BY <1>3, <1>a, RouteAssumption DEF WriteDefaults
  <2> QED BY <1>3, <2>1, <2>2, <2>3, <2>4, <2>5 DEF WriteDefaults
<1>4. CASE ResolveRoute(p)
  <2>1. Parsed(routes)[goal[p].route] \in Setting
    BY <1>0 DEF Goal, Routes
  <2>2. RouteTypeOK' BY <1>4, <2>1 DEF ResolveRoute, RouteTypeOK, RouteStep
  <2>3. (routesMixed \/ \A q, r \in Proc : RouteChanging(q) /\ RouteChanging(r) => q = r)'
    BY <1>0, <1>4 DEF ResolveRoute, RouteChanging
  <2>4. (routesMixed \/ \A q \in Proc : RouteHeld(q))'
    BY <1>0, <1>4 DEF ResolveRoute, RouteHeld
  <2>5. RoutesKept' BY <1>0, <1>4 DEF ResolveRoute, RoutesKept
  <2> QED BY <1>4, <2>2, <2>3, <2>4, <2>5 DEF ResolveRoute
<1>5. CASE ReadForSet(p)
  <2>0. goal[p].route \in Route /\ goal[p].setting \in Setting BY <1>0 DEF Goal
  <2> DEFINE copy == [Parsed(routes) EXCEPT ![goal[p].route] = goal[p].setting]
  <2>a. copy \in Routes BY <1>0, <2>0 DEF Routes
  <2>1. RouteTypeOK' BY <1>5, <2>a DEF ReadForSet, RouteTypeOK, RouteStep
  <2>2. (routesMixed \/ \A q, r \in Proc : RouteChanging(q) /\ RouteChanging(r) => q = r)'
    BY <1>0, <1>5 DEF ReadForSet, RouteChanging
  <2>3. ASSUME ~routesMixed' PROVE \A q \in Proc : RouteHeld(q)'
    <3>1. \A q \in Proc \ {p} : ~RouteChanging(q) BY <1>5, <2>3 DEF ReadForSet
    <3>2. Parsed(routes) = chosen
      BY <1>5, <2>3, <3>1 DEF ReadForSet, RoutesKept, RouteChanging
    <3> QED BY <1>0, <1>5, <3>1, <3>2 DEF ReadForSet, RouteHeld, RouteChanging
  <2>4. RoutesKept'
    BY <1>0, <1>5 DEF ReadForSet, RoutesKept
  <2> QED BY <1>5, <2>1, <2>2, <2>3, <2>4 DEF ReadForSet
<1>6. CASE OpenRoutes(p)
  <2>1. RouteTypeOK' BY <1>6 DEF OpenRoutes, RouteTypeOK, RouteStep
  <2>2. (routesMixed \/ \A q, r \in Proc : RouteChanging(q) /\ RouteChanging(r) => q = r)'
    BY <1>0, <1>6 DEF OpenRoutes, RouteChanging
  <2>3. ASSUME ~routesMixed PROVE \A q \in Proc : RouteHeld(q)'
    <3>1. \A q \in Proc \ {p} : ~RouteChanging(q)
      BY <1>6, <2>3 DEF OpenRoutes, RouteChanging
    <3>2. RouteHeld(p) BY <2>3
    <3> QED BY <1>0, <1>6, <3>1, <3>2 DEF OpenRoutes, RouteHeld, RouteChanging
  <2>4. RoutesKept' BY <1>0, <1>6 DEF OpenRoutes, RoutesKept
  <2>5. (routes = NoFile => chosen = Default)' BY <1>6, FileAssumption DEF OpenRoutes
  <2> QED BY <1>6, <2>1, <2>2, <2>3, <2>4, <2>5 DEF OpenRoutes
<1>7. CASE WriteRoutes(p)
  <2>0. goal[p].route \in Route /\ goal[p].setting \in Setting BY <1>0 DEF Goal
  <2>a. routes' \in Routes BY <1>0, <1>7, <1>a DEF WriteRoutes
  <2>b. chosen' \in Routes BY <1>7, <2>0 DEF WriteRoutes, RouteTypeOK, Routes
  <2>1. RouteTypeOK' BY <1>7, <2>a, <2>b DEF WriteRoutes, RouteTypeOK, RouteStep
  <2>2. (routesMixed \/ \A q, r \in Proc : RouteChanging(q) /\ RouteChanging(r) => q = r)'
    BY <1>0, <1>7 DEF WriteRoutes, RouteChanging
  <2>3. ASSUME ~routesMixed PROVE /\ \A q \in Proc : RouteHeld(q)'
                                  /\ routes' = chosen'
    <3>1. /\ routes = Blank
          /\ routeCopy[p] = [chosen EXCEPT ![goal[p].route] = goal[p].setting]
      BY <1>7, <2>3 DEF WriteRoutes, RouteHeld
    <3>2. \A q \in Proc \ {p} : ~RouteChanging(q)
      BY <1>7, <2>3 DEF WriteRoutes, RouteChanging
    <3>3. routes' = routeCopy[p]
      <4>1. routes' \in Overlaid(Blank, routeCopy[p]) BY <1>7, <3>1 DEF WriteRoutes
      <4>2. routeCopy[p] \in Routes BY <1>0
      <4> HIDE DEF RouteInv
      <4> QED BY <4>1, <4>2, OverBlank
    <3> QED BY <1>0, <1>7, <3>1, <3>2, <3>3 DEF WriteRoutes, RouteHeld, RouteChanging
  <2>4. RoutesKept'
    BY <1>7, <2>3, <2>a, RouteAssumption DEF WriteRoutes, RoutesKept, Parsed
  <2>5. (routes = NoFile => chosen = Default)' BY <2>a, RouteAssumption
  <2> QED BY <1>7, <2>1, <2>2, <2>3, <2>4, <2>5 DEF WriteRoutes
<1> QED BY <1>1, <1>2, <1>3, <1>4, <1>5, <1>6, <1>7 DEF RouteWork

LEMMA RouteKillStep ==
  ASSUME RouteInv, NEW p \in Proc, KillRoute(p)
  PROVE  RouteInv'
<1> USE DEF RouteInv, RouteGoto, KillRoute
<1>1. RouteTypeOK' BY DEF RouteTypeOK, RouteStep
<1>2. (routesMixed \/ \A q, r \in Proc : RouteChanging(q) /\ RouteChanging(r) => q = r)'
  BY DEF RouteTypeOK, RouteChanging
<1>3. (routesMixed \/ \A q \in Proc : RouteHeld(q))'
  BY DEF RouteTypeOK, RouteHeld
<1>4. RoutesKept' BY DEF RouteTypeOK, RoutesKept
<1> QED BY <1>1, <1>2, <1>3, <1>4

LEMMA RouteNextStep == RouteInv /\ [RouteNext]_routeVars => RouteInv'
<1> SUFFICES ASSUME RouteInv, [RouteNext]_routeVars PROVE RouteInv' OBVIOUS
<1>1. CASE UNCHANGED routeVars
  BY <1>1 DEF routeVars, RouteInv, RouteTypeOK, RouteHeld, RouteChanging, RoutesKept, Parsed
<1>2. ASSUME NEW p \in Proc, RouteWork(p) PROVE RouteInv' BY <1>2, RouteWorkStep
<1>3. ASSUME NEW p \in Proc, KillRoute(p) PROVE RouteInv' BY <1>3, RouteKillStep
<1>4. ASSUME NEW p \in Proc, NEW r \in Route, StartResolve(p, r) PROVE RouteInv'
  <2>1. [route |-> r, set |-> FALSE, setting |-> Default[r]] \in Goal
    BY RouteAssumption DEF Goal, Routes
  <2> QED BY <1>4, <2>1, RouteStart DEF StartResolve
<1>5. ASSUME NEW p \in Proc, NEW r \in Route, NEW s \in Setting, StartSetRoute(p, r, s)
      PROVE  RouteInv'
  <2>1. [route |-> r, set |-> TRUE, setting |-> s] \in Goal BY DEF Goal
  <2> QED BY <1>5, <2>1, RouteStart DEF StartSetRoute
<1> QED BY <1>1, <1>2, <1>3, <1>4, <1>5 DEF RouteNext

\* No command that sets a route loses another one, and none is overwritten by the
\* defaults, unless two commands overlap or one is killed halfway: for any number of
\* processes and routes.
THEOREM RoutesAreKept == RouteSpec => [](RouteTypeOK /\ RoutesKept)
<1>1. RouteInv => RouteTypeOK /\ RoutesKept BY DEF RouteInv
<1> QED BY <1>1, RouteInitially, RouteNextStep, PTL DEF RouteSpec
---------------------------------------------------------------------------
\* The registry

\* What a process that changes the registry relies on as long as it is the only one.
AgentHeld(p) ==
  /\ agentPc[p] \in {"effort", "open"} => Listed(registry) = recorded
  /\ agentPc[p] # "idle" => change[p].kind = "clear" \/ agentCopy[p] = recorded
  /\ agentPc[p] = "write" => registry = Blank

\* An agent is only written with an effort.
EffortKnown(p) ==
  agentPc[p] \in {"open", "write"} /\ change[p].kind = "start" => change[p].effort \in Effort

AgentInv ==
  /\ AgentTypeOK
  /\ \A p \in Proc : EffortKnown(p)
  /\ agentsMixed \/ \A p, q \in Proc : agentPc[p] # "idle" /\ agentPc[q] # "idle" => p = q
  /\ agentsMixed \/ \A p \in Proc : AgentHeld(p)
  /\ AgentsKept

LEMMA ListedType == \A f \in Listings \cup {NoFile, Blank, Garbage} : Listed(f) \in Listings
BY DEF Listed, Listings

LEMMA ListedSelf == \A f \in Listings : Listed(f) = f
BY AgentAssumption DEF Listed

LEMMA ChangedType ==
  ASSUME NEW c \in Change, c.kind = "start" => c.effort \in Effort, NEW f \in Listings
  PROVE  Changed(c, f) \in Listings
<1>1. CASE c.kind = "start"
  <2>1. [id |-> c.id, status |-> "running", effort |-> c.effort] \in Entry
    BY <1>1 DEF Change, Entry
  <2> QED BY <1>1, <2>1 DEF Changed, Listings
<1>2. CASE c.kind = "stop"
  <2>1. \A e \in f : [e EXCEPT !.status = "completed"] \in Entry BY DEF Listings, Entry
  <2> QED BY <1>2, <2>1 DEF Changed, Listings
<1>3. CASE c.kind = "clear" BY <1>3 DEF Changed, Listings
<1> QED BY <1>1, <1>2, <1>3 DEF Change

LEMMA AgentInitially == AgentInit => AgentInv
<1> SUFFICES ASSUME AgentInit PROVE AgentInv OBVIOUS
<1>1. (CHOOSE a \in Agent : TRUE) \in Agent BY AgentAssumption
<1>2. {} \in Listings BY DEF Listings
<1>3. AgentTypeOK BY <1>1, <1>2 DEF AgentInit, AgentTypeOK, AgentStep, Change
<1>4. AgentsKept BY DEF AgentInit, AgentsKept, Listed
<1> QED BY <1>3, <1>4 DEF AgentInit, AgentInv, AgentHeld, EffortKnown

LEMMA AgentNextStep == AgentInv /\ [AgentNext]_agentVars => AgentInv'
<1> SUFFICES ASSUME AgentInv, [AgentNext]_agentVars PROVE AgentInv' OBVIOUS
<1> USE DEF AgentInv, AgentGoto, AgentMeets
<1>0. /\ agentPc \in [Proc -> AgentStep] /\ change \in [Proc -> Change]
      /\ agentCopy \in [Proc -> Listings] /\ Listed(registry) \in Listings
  BY ListedType DEF AgentTypeOK
<1> DEFINE Alone == (agentsMixed \/ \A q, r \in Proc : agentPc[q] # "idle" /\ agentPc[r] # "idle" => q = r)'
           Held == (agentsMixed \/ \A q \in Proc : AgentHeld(q))'
           Known == (\A q \in Proc : EffortKnown(q))'
<1>1. CASE UNCHANGED agentVars
  BY <1>1 DEF agentVars, AgentTypeOK, AgentHeld, EffortKnown, AgentsKept, Listed
<1>2. ASSUME NEW p \in Proc, NEW a \in Agent, NEW e \in Effort \cup {NoEffort},
             StartAgent(p, a, e)
      PROVE  AgentInv'
  <2>1. AgentTypeOK' BY <1>0, <1>2 DEF StartAgent, AgentTypeOK, AgentStep, Change
  <2>2. Alone BY <1>0, <1>2 DEF StartAgent
  <2>3. ASSUME ~agentsMixed' PROVE \A q \in Proc : AgentHeld(q)'
    <3>1. \A q \in Proc : agentPc[q] = "idle" BY <1>2, <2>3 DEF StartAgent
    <3>2. Listed(registry) = recorded BY <1>2, <2>3, <3>1 DEF StartAgent, AgentsKept
    <3> QED BY <1>0, <1>2, <3>1, <3>2 DEF StartAgent, AgentHeld
  <2>4. Known BY <1>0, <1>2 DEF StartAgent, EffortKnown
  <2>5. AgentsKept' BY <1>0, <1>2 DEF StartAgent, AgentsKept
  <2> QED BY <2>1, <2>2, <2>3, <2>4, <2>5
<1>3. ASSUME NEW p \in Proc, NEW e \in Effort, TakeEffort(p, e) PROVE AgentInv'
  <2>0. /\ change'[p].kind = change[p].kind /\ change'[p].id = change[p].id
        /\ change'[p].effort \in Effort \/ change'[p].effort = change[p].effort
        /\ change'[p].effort = NoEffort => change[p].effort = NoEffort /\ e = NoEffort
        /\ change' \in [Proc -> Change]
        /\ \A q \in Proc \ {p} : change'[q] = change[q]
    BY <1>0, <1>3 DEF TakeEffort, Change
  <2>a. change'[p].effort \in Effort
    BY <1>0, <2>0, <1>3, AgentAssumption DEF Change
  <2>1. AgentTypeOK' BY <1>0, <1>3, <2>0 DEF TakeEffort, AgentTypeOK, AgentStep
  <2>2. Alone BY <1>0, <1>3 DEF TakeEffort
  <2>3. Held BY <1>0, <1>3, <2>0 DEF TakeEffort, AgentHeld
  <2>4. Known BY <1>0, <1>3, <2>0, <2>a DEF TakeEffort, EffortKnown
  <2>5. AgentsKept' BY <1>0, <1>3 DEF TakeEffort, AgentsKept
  <2> QED BY <2>1, <2>2, <2>3, <2>4, <2>5
<1>4. ASSUME NEW p \in Proc, NEW a \in Agent, StopAgent(p, a) PROVE AgentInv'
  <2>1. AgentTypeOK' BY <1>0, <1>4 DEF StopAgent, AgentTypeOK, AgentStep, Change
  <2>2. Alone BY <1>0, <1>4 DEF StopAgent
  <2>3. ASSUME ~agentsMixed' PROVE \A q \in Proc : AgentHeld(q)'
    <3>1. \A q \in Proc : agentPc[q] = "idle" BY <1>4, <2>3 DEF StopAgent
    <3>2. Listed(registry) = recorded BY <1>4, <2>3, <3>1 DEF StopAgent, AgentsKept
    <3> QED BY <1>0, <1>4, <3>1, <3>2 DEF StopAgent, AgentHeld
  <2>4. Known BY <1>0, <1>4 DEF StopAgent, EffortKnown
  <2>5. AgentsKept' BY <1>0, <1>4 DEF StopAgent, AgentsKept
  <2> QED BY <2>1, <2>2, <2>3, <2>4, <2>5
<1>5. ASSUME NEW p \in Proc, ClearAgents(p) PROVE AgentInv'
  <2>0. /\ change'[p].kind = "clear" /\ change' \in [Proc -> Change]
        /\ \A q \in Proc \ {p} : change'[q] = change[q]
    BY <1>0, <1>5 DEF ClearAgents, Change
  <2>1. AgentTypeOK' BY <1>0, <1>5, <2>0 DEF ClearAgents, AgentTypeOK, AgentStep
  <2>2. Alone BY <1>0, <1>5 DEF ClearAgents
  <2>3. ASSUME ~agentsMixed' PROVE \A q \in Proc : AgentHeld(q)'
    <3>1. \A q \in Proc : agentPc[q] = "idle" BY <1>5, <2>3 DEF ClearAgents
    <3>2. Listed(registry) = recorded BY <1>5, <2>3, <3>1 DEF ClearAgents, AgentsKept
    <3> QED BY <1>0, <1>5, <2>0, <3>1, <3>2 DEF ClearAgents, AgentHeld
  <2>4. Known BY <1>0, <1>5, <2>0 DEF ClearAgents, EffortKnown
  <2>5. AgentsKept' BY <1>0, <1>5 DEF ClearAgents, AgentsKept
  <2> QED BY <2>1, <2>2, <2>3, <2>4, <2>5
<1>6. ASSUME NEW p \in Proc, OpenRegistry(p) PROVE AgentInv'
  <2>1. AgentTypeOK' BY <1>0, <1>6 DEF OpenRegistry, AgentTypeOK, AgentStep
  <2>2. Alone BY <1>0, <1>6 DEF OpenRegistry
  <2>3. ASSUME ~agentsMixed PROVE \A q \in Proc : AgentHeld(q)'
    <3>1. \A q \in Proc \ {p} : agentPc[q] = "idle" BY <1>6, <2>3 DEF OpenRegistry
    <3> QED BY <1>0, <1>6, <2>3, <3>1 DEF OpenRegistry, AgentHeld
  <2>4. Known BY <1>0, <1>6 DEF OpenRegistry, EffortKnown
  <2>5. AgentsKept' BY <1>0, <1>6 DEF OpenRegistry, AgentsKept
  <2> QED BY <1>6, <2>1, <2>2, <2>3, <2>4, <2>5 DEF OpenRegistry
<1>7. ASSUME NEW p \in Proc, WriteRegistry(p) PROVE AgentInv'
  <2>a. change[p] \in Change /\ (change[p].kind = "start" => change[p].effort \in Effort)
    BY <1>0, <1>7 DEF WriteRegistry, EffortKnown
  <2> DEFINE new == Changed(change[p], agentCopy[p])
  <2>b. new \in Listings /\ recorded' \in Listings
    BY <1>0, <1>7, <2>a, ChangedType DEF WriteRegistry, AgentTypeOK
  <2>c. registry' \in {new, Garbage} BY <1>7 DEF WriteRegistry, Overwriting
  <2>1. AgentTypeOK' BY <1>0, <1>7, <2>b, <2>c DEF WriteRegistry, AgentTypeOK, AgentStep
  <2>2. Alone BY <1>0, <1>7 DEF WriteRegistry
  <2>3. ASSUME ~agentsMixed PROVE registry' = recorded' /\ \A q \in Proc : AgentHeld(q)'
    <3>1. \A q \in Proc \ {p} : agentPc[q] = "idle" BY <1>7, <2>3 DEF WriteRegistry
    <3>2. /\ registry = Blank
          /\ change[p].kind = "clear" \/ agentCopy[p] = recorded
      BY <1>7, <2>3 DEF WriteRegistry, AgentHeld
    <3>3. registry' = new BY <1>7, <3>2 DEF WriteRegistry, Overwriting
    <3>4. new = Changed(change[p], recorded)
      BY <3>2 DEF Changed
    <3> QED BY <1>0, <1>7, <3>1, <3>3, <3>4 DEF WriteRegistry, AgentHeld
  <2>4. Known BY <1>0, <1>7 DEF WriteRegistry, EffortKnown
  <2>5. AgentsKept' BY <1>7, <2>b, <2>3, ListedSelf DEF WriteRegistry, AgentsKept, Listed
  <2> QED BY <1>7, <2>1, <2>2, <2>3, <2>4, <2>5 DEF WriteRegistry
<1>8. ASSUME NEW p \in Proc, KillAgent(p) PROVE AgentInv'
  <2>1. AgentTypeOK' BY <1>0, <1>8 DEF KillAgent, AgentTypeOK, AgentStep
  <2>2. Alone BY <1>0, <1>8 DEF KillAgent
  <2>3. Held BY <1>0, <1>8 DEF KillAgent, AgentHeld
  <2>4. Known BY <1>0, <1>8 DEF KillAgent, EffortKnown
  <2>5. AgentsKept' BY <1>0, <1>8 DEF KillAgent, AgentsKept
  <2> QED BY <2>1, <2>2, <2>3, <2>4, <2>5
<1> QED BY <1>1, <1>2, <1>3, <1>4, <1>5, <1>6, <1>7, <1>8 DEF AgentNext

\* An agent that was started stays in the registry until it is cleared, and every change
\* is kept, unless two commands overlap or one is killed halfway: for any number of
\* processes and agents.
THEOREM AgentsAreKept == AgentSpec => [](AgentTypeOK /\ AgentsKept)
<1>1. AgentInv => AgentTypeOK /\ AgentsKept BY DEF AgentInv
<1> QED BY <1>1, AgentInitially, AgentNextStep, PTL DEF AgentSpec
---------------------------------------------------------------------------
\* The profiles

ProfileInv ==
  /\ ProfileTypeOK
  /\ \A p \in Proc : profilePc[p] \in {"open", "write"} => wish[p] \in Profile \cup {Blank}
  /\ profile = NoFile => activated = DefaultProfile
  /\ profileMixed \/ \A p \in Proc : AboutToCreate(p) => activated = DefaultProfile
  /\ ProfileKept

LEMMA ProfileInitially == ProfileInit => ProfileInv
BY ProfileAssumption, FileAssumption
DEF ProfileInit, ProfileInv, ProfileTypeOK, ProfileStep, ProfileKept, AboutToCreate

LEMMA ProfileNextStep == ProfileInv /\ [ProfileNext]_profileVars => ProfileInv'
<1> SUFFICES ASSUME ProfileInv, [ProfileNext]_profileVars PROVE ProfileInv' OBVIOUS
<1> USE ProfileAssumption, FileAssumption
    DEF ProfileInv, ProfileGoto, ProfileKept, Truncated, AboutToCreate, ProfileTypeOK, ProfileStep
<1>1. CASE UNCHANGED profileVars BY <1>1 DEF profileVars
<1>2. ASSUME NEW p \in Proc, NEW w \in Profile \cup {NoWish}, NeedProfile(p, w)
      PROVE  ProfileInv'
  BY <1>2 DEF NeedProfile
<1>3. ASSUME NEW p \in Proc, FindNoProfiles(p) PROVE ProfileInv' BY <1>3 DEF FindNoProfiles
<1>4. ASSUME NEW p \in Proc, CreateProfiles(p) PROVE ProfileInv' BY <1>4 DEF CreateProfiles
<1>5. ASSUME NEW p \in Proc, WriteDefaultProfiles(p) PROVE ProfileInv'
  BY <1>5 DEF WriteDefaultProfiles
<1>6. ASSUME NEW p \in Proc, ReadProfile(p) PROVE ProfileInv' BY <1>6 DEF ReadProfile
<1>7. ASSUME NEW p \in Proc, OpenProfile(p) PROVE ProfileInv' BY <1>7 DEF OpenProfile
<1>8. ASSUME NEW p \in Proc, WriteProfile(p) PROVE ProfileInv'
  <2>1. CASE wish[p] = Blank BY <1>8, <2>1 DEF WriteProfile
  <2>2. CASE wish[p] # Blank
    <3>1. wish[p] \in Profile BY <1>8, <2>2 DEF WriteProfile
    <3> QED BY <1>8, <2>2, <3>1 DEF WriteProfile
  <2> QED BY <2>1, <2>2
<1>9. ASSUME NEW p \in Proc, KillProfile(p) PROVE ProfileInv' BY <1>9 DEF KillProfile
<1>10. ASSUME NEW p \in Proc, NEW w \in Profile \cup {Blank}, StartRestoreProfile(p, w)
       PROVE  ProfileInv'
  BY <1>10 DEF StartRestoreProfile
<1> HIDE DEF ProfileInv
<1> QED
  BY <1>1, <1>2, <1>3, <1>4, <1>5, <1>6, <1>7, <1>8, <1>9, <1>10
  DEF ProfileNext, ProfileWork, StartReadProfile, StartSetProfile

\* profile.yaml is without a profile only while it is written or after a kill halfway,
\* and its active profile is the one set last unless another process was about to write
\* the defaults: for any number of processes and profiles.
THEOREM ProfilesAreKept == ProfileSpec => [](ProfileTypeOK /\ ProfileKept)
<1>1. ProfileInv => ProfileTypeOK /\ ProfileKept BY DEF ProfileInv
<1> QED BY <1>1, ProfileInitially, ProfileNextStep, PTL DEF ProfileSpec

---------------------------------------------------------------------------
\* The policies

Held(p, f) == seen[p][f] \in {"default", "edited"} \/ f \in halfRead \cup gutted

\* How far a process that creates and then reads the files has come.
PolicyProgress(p) ==
  /\ policyPc[p] \in {"exists", "create", "fill"} =>
       \A i \in 1..Len(RuleFiles) : i < at[p] => rules[RuleFiles[i]] # "absent"
  /\ policyPc[p] \in {"read", "ready"} => \A f \in RuleFile : rules[f] # "absent"
  /\ policyPc[p] = "read" =>
       \A i \in 1..Len(RuleFiles) : i < at[p] => Held(p, RuleFiles[i])
  /\ policyPc[p] = "ready" => \A f \in RuleFile : Held(p, f)

\* A file is empty while a process is to write it, and otherwise only for good.
EmptyHasCause(f) == rules[f] = "empty" => f \in gutted \/ \E p \in Proc : Filling(p, f)

PolicyInv ==
  /\ PolicyTypeOK
  /\ \A p \in Proc : PolicyProgress(p)
  /\ \A p \in Proc, f \in RuleFile : seen[p][f] = "edited" => rules[f] = "edited" \/ overwritten
  /\ \A f \in RuleFile : EmptyHasCause(f)

LEMMA FilesNumbered ==
  /\ Len(RuleFiles) \in Nat \ {0}
  /\ \A i \in 1..Len(RuleFiles) : RuleFiles[i] \in RuleFile
  /\ \A f \in RuleFile : \E i \in 1..Len(RuleFiles) : f = RuleFiles[i]
BY PolicyAssumption DEF RuleFile

LEMMA PolicyInitially == PolicyInit => PolicyInv
<1> SUFFICES ASSUME PolicyInit PROVE PolicyInv OBVIOUS
<1>1. 1 \in 1..Len(RuleFiles) BY FilesNumbered
<1>2. Unseen \in [RuleFile -> Content] BY DEF Unseen, Content
<1>3. PolicyTypeOK BY <1>1, <1>2 DEF PolicyInit, PolicyTypeOK, PolicyStep
<1> QED BY <1>3 DEF PolicyInit, PolicyInv, PolicyProgress, EmptyHasCause, Unseen

\* The position stays among the files.
LEMMA AdvanceType ==
  ASSUME PolicyTypeOK, NEW p \in Proc, NEW here \in PolicyStep, NEW done \in PolicyStep,
         Advance(p, here, done)
  PROVE  at' \in [Proc -> 1..Len(RuleFiles)] /\ policyPc' \in [Proc -> PolicyStep]
<1>1. at[p] \in 1..Len(RuleFiles) /\ 1 \in 1..Len(RuleFiles)
  BY FilesNumbered DEF PolicyTypeOK
<1>2. CASE at[p] < Len(RuleFiles)
  <2>1. at[p] + 1 \in 1..Len(RuleFiles) BY <1>1, <1>2, FilesNumbered
  <2> QED BY <1>2, <2>1 DEF Advance, PolicyGoto, PolicyTypeOK
<1>3. CASE ~(at[p] < Len(RuleFiles))
  BY <1>1, <1>3 DEF Advance, PolicyGoto, PolicyTypeOK
<1> QED BY <1>2, <1>3

LEMMA RetreatType ==
  ASSUME PolicyTypeOK, NEW p \in Proc, Retreat(p)
  PROVE  at' \in [Proc -> 1..Len(RuleFiles)] /\ policyPc' \in [Proc -> PolicyStep]
<1>1. at[p] \in 1..Len(RuleFiles) BY DEF PolicyTypeOK
<1>2. CASE at[p] > 1
  <2>1. at[p] - 1 \in 1..Len(RuleFiles) BY <1>1, <1>2, FilesNumbered
  <2> QED BY <1>2, <2>1 DEF Retreat, PolicyGoto, PolicyTypeOK, PolicyStep
<1>3. CASE ~(at[p] > 1)
  BY <1>1, <1>3 DEF Retreat, PolicyGoto, PolicyTypeOK, PolicyStep
<1> QED BY <1>2, <1>3

\* A step by which no file is truncated, and who was to write one still is or gave it up.
LEMMA CauseKept ==
  ASSUME \A f \in RuleFile : EmptyHasCause(f), UNCHANGED rules, gutted \subseteq gutted',
         \A q \in Proc, f \in RuleFile : Filling(q, f) => Filling(q, f)' \/ f \in gutted'
  PROVE  \A f \in RuleFile : EmptyHasCause(f)'
BY DEF EmptyHasCause

LEMMA PolicyNextStep == PolicyInv /\ [PolicyNext]_policyVars => PolicyInv'
<1> SUFFICES ASSUME PolicyInv, [PolicyNext]_policyVars PROVE PolicyInv' OBVIOUS
<1> USE FilesNumbered DEF PolicyInv, PolicyGoto
<1>0. /\ policyPc \in [Proc -> PolicyStep] /\ at \in [Proc -> 1..Len(RuleFiles)]
      /\ rules \in [RuleFile -> Content] /\ seen \in [Proc -> [RuleFile -> Content]]
  BY DEF PolicyTypeOK
<1> DEFINE Progress == (\A q \in Proc : PolicyProgress(q))'
           Seen == (\A q \in Proc, f \in RuleFile :
                      seen[q][f] = "edited" => rules[f] = "edited" \/ overwritten)'
           Caused == (\A f \in RuleFile : EmptyHasCause(f))'
<1>1. CASE UNCHANGED policyVars
  BY <1>1 DEF policyVars, PolicyTypeOK, PolicyProgress, Held, EmptyHasCause, Filling
<1>2. ASSUME NEW p \in Proc, StartPolicies(p) PROVE PolicyInv'
  <2>1. PolicyTypeOK'
    BY <1>0, <1>2 DEF StartPolicies, PolicyTypeOK, PolicyStep, Unseen, Content
  <2>2. Progress BY <1>0, <1>2 DEF StartPolicies, PolicyProgress, Held
  <2>3. Seen BY <1>0, <1>2 DEF StartPolicies, Unseen
  <2>4. Caused BY <1>0, <1>2 DEF StartPolicies, EmptyHasCause, Filling
  <2> QED BY <2>1, <2>2, <2>3, <2>4
<1>3. ASSUME NEW p \in Proc, FindRules(p) PROVE PolicyInv'
  <2>1. PolicyTypeOK'
    <3>1. CASE Advance(p, "exists", "read")
      <4>1. "exists" \in PolicyStep /\ "read" \in PolicyStep BY DEF PolicyStep
      <4> QED BY <1>3, <3>1, <4>1, AdvanceType DEF FindRules, PolicyTypeOK
    <3>2. CASE PolicyGoto(p, "create") /\ UNCHANGED at
      BY <1>3, <3>2 DEF FindRules, PolicyTypeOK, PolicyStep
    <3> QED BY <1>3, <3>1, <3>2 DEF FindRules
  <2>2. \A q \in Proc \ {p} : PolicyProgress(q)'
    BY <1>0, <1>3 DEF FindRules, Advance, PolicyProgress, Held
  <2>3. PolicyProgress(p)'
    <3>1. CASE rules[RuleFiles[at[p]]] = "absent"
      BY <1>0, <1>3, <3>1 DEF FindRules, PolicyProgress
    <3>2. CASE rules[RuleFiles[at[p]]] # "absent" /\ at[p] < Len(RuleFiles)
      BY <1>0, <1>3, <3>2 DEF FindRules, Advance, PolicyProgress
    <3>3. CASE rules[RuleFiles[at[p]]] # "absent" /\ ~(at[p] < Len(RuleFiles))
      <4>1. \A f \in RuleFile : rules[f] # "absent"
        BY <1>0, <1>3, <3>3 DEF FindRules, PolicyProgress
      <4> QED BY <1>0, <1>3, <3>3, <4>1 DEF FindRules, Advance, PolicyProgress
    <3> QED BY <3>1, <3>2, <3>3
  <2>4. Seen BY <1>3 DEF FindRules
  <2>5. Caused
    <3>1. \A q \in Proc, f \in RuleFile : Filling(q, f) => Filling(q, f)' \/ f \in gutted'
      BY <1>0, <1>3 DEF FindRules, Advance, Filling
    <3>2. rules' = rules /\ gutted \subseteq gutted' BY <1>3 DEF FindRules
    <3> QED BY <3>1, <3>2, CauseKept
  <2> QED BY <2>1, <2>2, <2>3, <2>4, <2>5
<1>4. ASSUME NEW p \in Proc, CreateRules(p) PROVE PolicyInv'
  <2>1. PolicyTypeOK' BY <1>0, <1>4 DEF CreateRules, PolicyTypeOK, PolicyStep, Content
  <2>2. Progress BY <1>0, <1>4 DEF CreateRules, PolicyProgress, Held
  <2>3. Seen BY <1>0, <1>4 DEF CreateRules
  <2>4. Caused BY <1>0, <1>4 DEF CreateRules, EmptyHasCause, Filling
  <2> QED BY <2>1, <2>2, <2>3, <2>4
<1>5. ASSUME NEW p \in Proc, FillRules(p) PROVE PolicyInv'
  <2>1. PolicyTypeOK'
    <3>1. "exists" \in PolicyStep /\ "read" \in PolicyStep BY DEF PolicyStep
    <3>2. rules' \in [RuleFile -> Content] BY <1>0, <1>5 DEF FillRules, Content
    <3> QED BY <1>5, <3>1, <3>2, AdvanceType DEF FillRules, PolicyTypeOK
  <2>0. \A f \in RuleFile : rules[f] # "absent" => rules'[f] # "absent"
    BY <1>0, <1>5 DEF FillRules
  <2>2. \A q \in Proc \ {p} : PolicyProgress(q)'
    BY <1>0, <1>5, <2>0 DEF FillRules, Advance, PolicyProgress, Held
  <2>3. PolicyProgress(p)'
    <3>0. rules'[RuleFiles[at[p]]] # "absent" BY <1>0, <1>5 DEF FillRules
    <3>1. CASE at[p] < Len(RuleFiles)
      BY <1>0, <1>5, <2>0, <3>0, <3>1 DEF FillRules, Advance, PolicyProgress
    <3>2. CASE ~(at[p] < Len(RuleFiles))
      <4>1. ASSUME NEW f \in RuleFile PROVE rules'[f] # "absent"
        <5>1. PICK i \in 1..Len(RuleFiles) : f = RuleFiles[i] OBVIOUS
        <5>2. CASE i < at[p]
          BY <1>0, <1>5, <2>0, <5>1, <5>2 DEF FillRules, PolicyProgress
        <5>3. CASE ~(i < at[p])
          <6>1. i = at[p] BY <1>0, <3>2, <5>3
          <6> QED BY <3>0, <5>1, <6>1
        <5> QED BY <5>2, <5>3
      <4> QED BY <1>0, <1>5, <3>2, <4>1 DEF FillRules, Advance, PolicyProgress
    <3> QED BY <3>1, <3>2
  <2>4. Seen BY <1>0, <1>5 DEF FillRules
  <2>5. Caused
    <3>1. rules'[RuleFiles[at[p]]] # "empty" BY <1>0, <1>5 DEF FillRules
    <3>2. \A f \in RuleFile : f # RuleFiles[at[p]] => rules'[f] = rules[f] /\ ~Filling(p, f)
      BY <1>0, <1>5 DEF FillRules, Filling
    <3>3. \A q \in Proc \ {p} : \A f \in RuleFile : Filling(q, f) => Filling(q, f)'
      BY <1>0, <1>5 DEF FillRules, Advance, Filling
    <3>4. gutted' = gutted BY <1>5 DEF FillRules
    <3> QED BY <3>1, <3>2, <3>3, <3>4 DEF EmptyHasCause
  <2> QED BY <2>1, <2>2, <2>3, <2>4, <2>5
<1>6. ASSUME NEW p \in Proc, ReadRules(p) PROVE PolicyInv'
  <2> DEFINE here == RuleFiles[at[p]]
  <2>0. /\ rules[here] \in {"empty", "default", "edited"} /\ here \in RuleFile
        /\ seen' = [seen EXCEPT ![p] = [seen[p] EXCEPT ![here] = rules[here]]]
        /\ halfRead' = halfRead \cup
             {g \in {here} : rules[here] = "empty" /\ \E q \in Proc : Filling(q, here)}
        /\ UNCHANGED <<rules, edits, gutted, overwritten>>
    BY <1>0, <1>6 DEF ReadRules, PolicyProgress, Content
  <2>1. PolicyTypeOK'
    <3>1. "read" \in PolicyStep /\ "ready" \in PolicyStep BY DEF PolicyStep
    <3>2. seen' \in [Proc -> [RuleFile -> Content]] BY <1>0, <2>0
    <3>3. halfRead' \subseteq RuleFile BY <2>0 DEF PolicyTypeOK
    <3> QED BY <1>6, <3>1, <3>2, <3>3, AdvanceType DEF ReadRules, PolicyTypeOK
  <2>2. \A q \in Proc \ {p} : PolicyProgress(q)'
    BY <1>0, <1>6, <2>0 DEF ReadRules, Advance, PolicyProgress, Held
  <2>3. ASSUME NEW f \in RuleFile, f = here \/ Held(p, f) PROVE Held(p, f)'
    <3>1. /\ seen'[p][here] = rules[here]
          /\ f # here => seen'[p][f] = seen[p][f]
      BY <1>0, <2>0
    <3>2. EmptyHasCause(here) BY <2>0
    <3> HIDE DEF here
    <3> QED BY <2>0, <2>3, <3>1, <3>2 DEF Held, EmptyHasCause
  <2>4. PolicyProgress(p)'
    <3>1. CASE at[p] < Len(RuleFiles)
      <4>1. ASSUME NEW i \in 1..Len(RuleFiles), i < at[p] + 1 PROVE Held(p, RuleFiles[i])'
        <5>1. CASE i < at[p] BY <1>6, <2>3, <5>1 DEF ReadRules, PolicyProgress
        <5>2. CASE i = at[p] BY <2>3, <5>2
        <5> QED BY <1>0, <4>1, <5>1, <5>2
      <4>2. policyPc'[p] = "read" /\ at'[p] = at[p] + 1 /\ rules' = rules
        BY <1>0, <1>6, <3>1 DEF ReadRules, Advance
      <4> QED BY <1>6, <4>1, <4>2 DEF ReadRules, PolicyProgress
    <3>2. CASE ~(at[p] < Len(RuleFiles))
      <4>1. ASSUME NEW f \in RuleFile PROVE Held(p, f)'
        <5>1. PICK i \in 1..Len(RuleFiles) : f = RuleFiles[i] OBVIOUS
        <5>2. CASE i < at[p] BY <1>6, <2>3, <5>1, <5>2 DEF ReadRules, PolicyProgress
        <5>3. CASE ~(i < at[p])
          <6>1. i = at[p] BY <1>0, <3>2, <5>3
          <6> QED BY <2>3, <5>1, <6>1
        <5> QED BY <5>2, <5>3
      <4> QED BY <1>0, <1>6, <3>2, <4>1 DEF ReadRules, Advance, PolicyProgress
    <3> QED BY <3>1, <3>2
  <2>5. Seen BY <1>0, <1>6, <2>0 DEF ReadRules
  <2>6. Caused
    <3>1. \A q \in Proc, f \in RuleFile : Filling(q, f) => Filling(q, f)' \/ f \in gutted'
      BY <1>0, <1>6 DEF ReadRules, Advance, Filling
    <3>2. rules' = rules /\ gutted \subseteq gutted' BY <1>6 DEF ReadRules
    <3> QED BY <3>1, <3>2, CauseKept
  <2> QED BY <2>1, <2>2, <2>4, <2>5, <2>6
<1>7. ASSUME NEW f \in RuleFile, EditRules(f) PROVE PolicyInv'
  <2>1. PolicyTypeOK' BY <1>0, <1>7 DEF EditRules, PolicyTypeOK, Content
  <2>2. Progress BY <1>0, <1>7 DEF EditRules, PolicyProgress, Held
  <2>3. Seen BY <1>0, <1>7 DEF EditRules
  <2>4. Caused BY <1>0, <1>7 DEF EditRules, EmptyHasCause, Filling
  <2> QED BY <2>1, <2>2, <2>3, <2>4
<1>8. ASSUME NEW p \in Proc, KillPolicy(p) PROVE PolicyInv'
  <2>1. PolicyTypeOK' BY <1>0, <1>8 DEF KillPolicy, PolicyTypeOK, PolicyStep
  <2>2. Progress BY <1>0, <1>8 DEF KillPolicy, PolicyProgress, Held
  <2>3. Seen BY <1>8 DEF KillPolicy
  <2>4. Caused
    <3>1. \A q \in Proc, f \in RuleFile : Filling(q, f) => Filling(q, f)' \/ f \in gutted'
      BY <1>0, <1>8 DEF KillPolicy, Filling
    <3>2. rules' = rules /\ gutted \subseteq gutted' BY <1>8 DEF KillPolicy
    <3> QED BY <3>1, <3>2, CauseKept
  <2> QED BY <2>1, <2>2, <2>3, <2>4
<1>9. ASSUME NEW p \in Proc, StartRestoreRules(p) PROVE PolicyInv'
  <2>1. PolicyTypeOK' BY <1>0, <1>9 DEF StartRestoreRules, PolicyTypeOK, PolicyStep
  <2>2. Progress BY <1>0, <1>9 DEF StartRestoreRules, PolicyProgress, Held
  <2>3. Seen BY <1>9 DEF StartRestoreRules
  <2>4. Caused BY <1>0, <1>9 DEF StartRestoreRules, EmptyHasCause, Filling
  <2> QED BY <2>1, <2>2, <2>3, <2>4
<1>10. ASSUME NEW p \in Proc, PassRules(p) PROVE PolicyInv'
  <2>1. PolicyTypeOK' BY <1>0, <1>10, RetreatType DEF PassRules, PolicyTypeOK
  <2>2. ASSUME NEW q \in Proc PROVE PolicyProgress(q)'
    <3>1. UNCHANGED <<rules, seen, halfRead, gutted>> BY <1>10 DEF PassRules
    <3>2. CASE q = p
      <4>1. policyPc'[q] \in {"restore", "idle"} BY <1>0, <1>10, <3>2 DEF PassRules, Retreat
      <4> QED BY <4>1 DEF PolicyProgress
    <3>3. CASE q # p
      <4>1. policyPc'[q] = policyPc[q] /\ at'[q] = at[q]
        BY <1>0, <1>10, <3>3 DEF PassRules, Retreat
      <4> QED BY <1>0, <3>1, <4>1 DEF PolicyProgress, Held
    <3> QED BY <3>2, <3>3
  <2>3. Seen BY <1>10 DEF PassRules
  <2>4. Caused
    <3>1. \A q \in Proc, f \in RuleFile : Filling(q, f) => Filling(q, f)' \/ f \in gutted'
      BY <1>0, <1>10 DEF PassRules, Retreat, Filling
    <3>2. rules' = rules /\ gutted \subseteq gutted' BY <1>10 DEF PassRules
    <3> QED BY <3>1, <3>2, CauseKept
  <2> QED BY <2>1, <2>2, <2>3, <2>4
<1>11. ASSUME NEW p \in Proc, TruncateRules(p) PROVE PolicyInv'
  <2>1. PolicyTypeOK' BY <1>0, <1>11 DEF TruncateRules, PolicyTypeOK, PolicyStep, Content
  <2>2. Progress BY <1>0, <1>11 DEF TruncateRules, PolicyProgress, Held
  <2>3. Seen BY <1>0, <1>11 DEF TruncateRules
  <2>4. Caused BY <1>0, <1>11 DEF TruncateRules, EmptyHasCause, Filling
  <2> QED BY <2>1, <2>2, <2>3, <2>4
<1>12. ASSUME NEW p \in Proc, NEW copy \in Content \ {"absent"}, RefillRules(p, copy)
       PROVE  PolicyInv'
  <2> DEFINE here == RuleFiles[at[p]]
  <2>0. /\ here \in RuleFile /\ policyPc[p] = "refill"
        /\ rules' = [rules EXCEPT ![here] = IF copy = "empty" \/ @ = "edited" THEN @ ELSE copy]
        /\ gutted' = gutted \cup {g \in {here} : copy = "empty"}
        /\ Retreat(p) /\ UNCHANGED <<seen, edits, halfRead, overwritten>>
    BY <1>0, <1>12 DEF RefillRules
  <2>1. PolicyTypeOK'
    <3>1. rules' \in [RuleFile -> Content] BY <1>0, <2>0 DEF Content
    <3>2. gutted' \subseteq RuleFile BY <2>0 DEF PolicyTypeOK
    <3> QED BY <2>0, <3>1, <3>2, RetreatType DEF PolicyTypeOK
  <2>2. \A f \in RuleFile : rules[f] # "absent" => rules'[f] # "absent"
    BY <1>0, <2>0
  <2>3. ASSUME NEW q \in Proc PROVE PolicyProgress(q)'
    <3>1. \A f \in RuleFile : Held(q, f) => Held(q, f)' BY <2>0 DEF Held
    <3>2. CASE q = p
      BY <1>0, <2>0, <3>2 DEF Retreat, PolicyProgress
    <3>3. CASE q # p
      <4>1. policyPc'[q] = policyPc[q] /\ at'[q] = at[q] BY <1>0, <2>0, <3>3 DEF Retreat
      <4> QED BY <1>0, <2>2, <3>1, <4>1 DEF PolicyProgress
    <3> QED BY <3>2, <3>3
  <2>4. Seen BY <1>0, <2>0
  <2>5. Caused
    <3>1. rules'[here] = "empty" => here \in gutted' BY <1>0, <2>0
    <3>2. \A f \in RuleFile : f # here => rules'[f] = rules[f] /\ ~Filling(p, f)
      BY <1>0, <2>0 DEF Filling
    <3>3. \A q \in Proc \ {p} : \A f \in RuleFile : Filling(q, f) => Filling(q, f)'
      BY <1>0, <2>0 DEF Retreat, Filling
    <3>4. gutted \subseteq gutted' BY <2>0
    <3> HIDE DEF here
    <3> QED BY <3>1, <3>2, <3>3, <3>4 DEF EmptyHasCause
  <2> QED BY <2>1, <2>3, <2>4, <2>5
<1> HIDE DEF PolicyInv
<1> QED
  BY <1>1, <1>2, <1>3, <1>4, <1>5, <1>6, <1>7, <1>8, <1>9, <1>10, <1>11, <1>12
  DEF PolicyNext, PolicyWork

\* Who judges holds the rules of every file, except of one that somebody read while
\* another process was between truncating and writing it, or that a killed process or the
\* restore of an empty copy had left empty; and no rule of the user's that was since lost
\* unless the user's file was truncated: for any number of processes and files.
THEOREM RulesAreHeld == PolicySpec => [](PolicyTypeOK /\ RulesHeld)
<1>1. PolicyInv => PolicyTypeOK /\ RulesHeld
  BY DEF PolicyInv, PolicyProgress, Held, RulesHeld
<1> QED BY <1>1, PolicyInitially, PolicyNextStep, PTL DEF PolicySpec

---------------------------------------------------------------------------
\* The server

ServerInv ==
  /\ ServerTypeOK
  /\ AnsweredInOrder
  /\ serverPc \in {"simple", "tool", "called"} =>
       /\ Len(owed) = Len(answers) + 1 /\ owed[Len(owed)] = IdOf(request)
  /\ serverPc \in {"tool", "called"} => request.kind = "tool"

LEMMA ServerInitially == ServerInit => ServerInv
<1> SUFFICES ASSUME ServerInit PROVE ServerInv OBVIOUS
<1>1. request \in Line BY DEF ServerInit, Line, Simple
<1> QED BY <1>1 DEF ServerInit, ServerInv, ServerTypeOK, AnsweredInOrder

LEMMA IdOfType == \A line \in Line : IdOf(line) \in Id \cup {NoId}
BY DEF Line, Call, IdOf

\* The answer to the message being handled.
LEMMA AnswerOne ==
  ASSUME ServerInv, serverPc \in {"simple", "tool", "called"},
         NEW outcome \in {"result", "toolError", "error"},
         Write(IdOf(request), outcome), serverPc' = "waiting", UNCHANGED <<request, owed>>
  PROVE  ServerInv'
<1>1. /\ answers \in Seq(Answer) /\ owed \in Seq(Id \cup {NoId})
      /\ IdOf(request) \in Id \cup {NoId}
      /\ [id |-> IdOf(request), outcome |-> outcome] \in Answer
  BY IdOfType DEF ServerInv, ServerTypeOK, Answer
<1>2. ServerTypeOK' BY <1>1 DEF ServerInv, ServerTypeOK, Write
<1>3. /\ Len(answers') = Len(answers) + 1 /\ answers'[Len(answers) + 1].id = IdOf(request)
      /\ \A i \in 1..Len(answers) : answers'[i] = answers[i]
  BY <1>1 DEF Write
<1>4. AnsweredInOrder' BY <1>1, <1>3 DEF ServerInv, AnsweredInOrder
<1> QED BY <1>2, <1>4 DEF ServerInv

LEMMA ServerNextStep == ServerInv /\ [ServerNext]_serverVars => ServerInv'
<1> SUFFICES ASSUME ServerInv, [ServerNext]_serverVars PROVE ServerInv' OBVIOUS
<1>0. /\ answers \in Seq(Answer) /\ owed \in Seq(Id \cup {NoId})
      /\ Len(answers) \in Nat /\ Len(owed) \in Nat
  BY DEF ServerInv, ServerTypeOK
<1>1. CASE UNCHANGED serverVars
  BY <1>1 DEF serverVars, ServerInv, ServerTypeOK, AnsweredInOrder
<1>2. ASSUME NEW line \in Line, Ignore(line) PROVE ServerInv'
  BY <1>2 DEF Ignore, serverVars, ServerInv, ServerTypeOK, AnsweredInOrder
<1>3. CASE AnswerSimple
  BY <1>3, AnswerOne DEF AnswerSimple
<1>4. ASSUME NEW line \in Line, Accept(line) PROVE ServerInv'
  <2>1. IdOf(line) \in Id \cup {NoId} BY IdOfType
  <2>2. ServerTypeOK' BY <1>0, <1>4, <2>1 DEF Accept, ServerInv, ServerTypeOK
  <2>3. /\ Len(owed) = Len(answers) /\ Len(owed') = Len(owed) + 1
        /\ owed'[Len(owed')] = IdOf(line) /\ \A i \in 1..Len(owed) : owed'[i] = owed[i]
    BY <1>0, <1>4, <2>1 DEF Accept, ServerInv, AnsweredInOrder
  <2> QED BY <1>0, <1>4, <2>1, <2>2, <2>3 DEF Accept, ServerInv, AnsweredInOrder
<1>5. CASE EnterTool
  BY <1>5 DEF EnterTool, ServerInv, ServerTypeOK, AnsweredInOrder
<1>6. ASSUME NEW outcome \in {"result", "toolError"}, AnswerCall(outcome) PROVE ServerInv'
  <2>1. IdOf(request) = request.id BY <1>6 DEF AnswerCall, ServerInv, IdOf
  <2> QED BY <1>6, <2>1, AnswerOne DEF AnswerCall
<1>7. CASE EndOfInput \/ KillServer
  BY <1>0, <1>7 DEF EndOfInput, KillServer, ServerInv, ServerTypeOK, AnsweredInOrder
<1>8. CASE LineRaises
  <2>1. ServerTypeOK' BY <1>0, <1>8 DEF LineRaises, ServerInv, ServerTypeOK
  <2>2. /\ Len(owed) = Len(answers) /\ Len(owed') = Len(owed) + 1
        /\ \A i \in 1..Len(owed) : owed'[i] = owed[i]
    BY <1>0, <1>8 DEF LineRaises, ServerInv, AnsweredInOrder
  <2> QED BY <1>0, <1>8, <2>1, <2>2 DEF LineRaises, ServerInv, AnsweredInOrder
<1> QED BY <1>1, <1>2, <1>3, <1>4, <1>5, <1>6, <1>7, <1>8 DEF ServerNext

\* Every message that demands an answer gets exactly one, with its id and in order; one
\* can be missing, the last: of the message being handled or interrupted, or of the line
\* that ended the server: for any tools, ids and lines.
THEOREM ServerAnswersInOrder == ServerSpec => [](ServerTypeOK /\ AnsweredInOrder)
<1>1. ServerInv => ServerTypeOK /\ AnsweredInOrder BY DEF ServerInv
<1> QED BY <1>1, ServerInitially, ServerNextStep, PTL DEF ServerSpec

---------------------------------------------------------------------------
\* The brain

IsStored(d) == documents[d] # NoDoc
Writing(p) == brainPc[p] = "write"

\* No id belongs to two paths, be it of a row or of a process about to write one.
IdsDistinct ==
  /\ \A d \in Doc : IsStored(d) => documents[d].id \in used
  /\ \A d, e \in Doc : IsStored(d) /\ IsStored(e) /\ d # e => documents[d].id # documents[e].id
  /\ \A p \in Proc : Writing(p) => found[p] \in used
  /\ \A p \in Proc, d \in Doc : Writing(p) /\ IsStored(d) /\ d # doc[p] => documents[d].id # found[p]
  /\ \A p, q \in Proc : Writing(p) /\ Writing(q) /\ doc[p] # doc[q] => found[p] # found[q]

\* The index has all chunks, and with it no chunk is without its document.
ChunksOwned ==
  fts => /\ index = chunks
         /\ \A c \in chunks : \E d \in Doc : IsStored(d) /\ documents[d].id = c.id

\* The chunks of an id.
ChunksOf(id) == {c \in chunks : c.id = id}

RowFaithful(d) ==
  IsStored(d) /\ (fts \/ ~crossed[d]) =>
    ChunksOf(documents[d].id) = {[id |-> documents[d].id, version |-> documents[d].hash]}

\* A path whose ingestions never overlapped: one at most is going on, it found the id
\* that is in the table, and it read a version at least as new as any before.
PathOrdered(d) ==
  crossed[d] \/
    /\ \A p, q \in Proc : Ingesting(p) /\ Ingesting(q) /\ doc[p] = d /\ doc[q] = d => p = q
    /\ \A p \in Proc : Writing(p) /\ doc[p] = d => Agrees(p)
    /\ \A p \in Proc : Ingesting(p) /\ doc[p] = d => newest[d] <= version[p]
    /\ IsStored(d) => documents[d].hash = newest[d]

\* No version is from the future.
VersionsReal ==
  /\ \A p \in Proc : Ingesting(p) => version[p] <= file[doc[p]]
  /\ \A d \in Doc : newest[d] <= file[d]

BrainInv ==
  /\ BrainTypeOK
  /\ IdsDistinct
  /\ ChunksOwned
  /\ \A d \in Doc : RowFaithful(d)
  /\ \A d \in Doc : PathOrdered(d)
  /\ VersionsReal

LEMMA BrainInitially == BrainInit => BrainInv
<1> SUFFICES ASSUME BrainInit PROVE BrainInv OBVIOUS
<1>1. (CHOOSE d \in Doc : TRUE) \in Doc BY BrainAssumption
<1>2. BrainTypeOK BY <1>1 DEF BrainInit, BrainTypeOK, BrainStep
<1>3. \A d \in Doc : ~IsStored(d) BY DEF BrainInit, IsStored
<1>4. \A p \in Proc : ~Ingesting(p) /\ ~Writing(p) BY DEF BrainInit, Ingesting, Writing
<1>5. \A d \in Doc : newest[d] <= file[d] BY DEF BrainInit
<1> QED
  BY <1>2, <1>3, <1>4, <1>5
  DEF BrainInit, BrainInv, IdsDistinct, ChunksOwned, RowFaithful, PathOrdered, VersionsReal

\* Building the index anew does not change what the invariant says.
LEMMA RebuiltSame == BrainInv /\ fts => Rebuilt = chunks
BY DEF BrainInv, ChunksOwned, Rebuilt, Indexed, Stored, IsStored

LEMMA RebuiltType == BrainTypeOK => Rebuilt \in SUBSET Chunk
BY DEF BrainTypeOK, Rebuilt, Indexed

\* A step that leaves the rows and chunks, where no process comes to writing or moves to
\* another path but those that are not ingesting.
LEMMA BrainQuiet ==
  ASSUME BrainInv, BrainTypeOK',
         UNCHANGED <<documents, chunks, fts, used, newest>>,
         index' = index \/ index' = Rebuilt,
         \A d \in Doc : file'[d] >= file[d],
         \A d \in Doc : crossed'[d] \/ ~crossed[d],
         \A q \in Proc : Writing(q)' => Writing(q),
         \A q \in Proc : Ingesting(q)' =>
           /\ Ingesting(q)
           /\ doc'[q] = doc[q] /\ version'[q] = version[q] /\ found'[q] = found[q]
  PROVE  BrainInv'
<1>0. \A q \in Proc : Writing(q)' => Ingesting(q)' BY DEF Writing, Ingesting
<1>1. \A d \in Doc : IsStored(d)' <=> IsStored(d) BY DEF IsStored
<1>2. IdsDistinct' BY <1>0, <1>1 DEF BrainInv, IdsDistinct
<1>3. ChunksOwned' BY <1>1, RebuiltSame DEF BrainInv, ChunksOwned
<1>4. ASSUME NEW d \in Doc PROVE RowFaithful(d)'
  BY <1>1 DEF BrainInv, RowFaithful, ChunksOf
<1>5. ASSUME NEW d \in Doc, ~crossed'[d] PROVE PathOrdered(d)'
  <2>1. \A q \in Proc : Ingesting(q)' /\ doc'[q] = d => Ingesting(q) /\ doc[q] = d
    OBVIOUS
  <2>2. \A q \in Proc : Writing(q)' /\ doc'[q] = d /\ Agrees(q) => Agrees(q)'
    BY <1>0 DEF Agrees
  <2>3. \A q \in Proc : Ingesting(q)' /\ doc'[q] = d => version'[q] = version[q]
    OBVIOUS
  <2>4. PathOrdered(d) /\ ~crossed[d] BY <1>5 DEF BrainInv
  <2> QED BY <1>0, <1>1, <2>1, <2>2, <2>3, <2>4 DEF PathOrdered
<1>6. VersionsReal'
  <2>1. \A q \in Proc : doc'[q] \in Doc BY DEF BrainTypeOK
  <2>2. \A d \in Doc : file[d] \in Nat /\ file'[d] \in Nat /\ newest[d] \in Nat
    BY DEF BrainInv, BrainTypeOK
  <2>3. \A q \in Proc : version[q] \in Nat BY DEF BrainInv, BrainTypeOK
  <2>4. ASSUME NEW q \in Proc, Ingesting(q)' PROVE version'[q] <= file'[doc'[q]]
    <3>1. version[q] <= file[doc[q]] /\ version'[q] = version[q] /\ doc'[q] = doc[q]
      BY <2>4 DEF BrainInv, VersionsReal
    <3> QED BY <2>1, <2>2, <2>3, <3>1
  <2>5. ASSUME NEW d \in Doc PROVE newest'[d] <= file'[d]
    BY <2>2 DEF BrainInv, VersionsReal
  <2> QED BY <2>4, <2>5 DEF VersionsReal
<1> QED BY <1>2, <1>3, <1>4, <1>5, <1>6 DEF BrainInv, PathOrdered

LEMMA CheckStep ==
  ASSUME BrainInv, NEW p \in Proc, NEW allowed \in BOOLEAN, CheckPath(p, allowed)
  PROVE  BrainInv'
<1>0. /\ brainPc \in [Proc -> BrainStep] /\ doc \in [Proc -> Doc] /\ version \in [Proc -> Nat]
      /\ file \in [Doc -> Nat] /\ newest \in [Doc -> Nat] /\ crossed \in [Doc -> BOOLEAN]
      /\ brainPc[p] = "check"
  BY DEF BrainInv, BrainTypeOK, CheckPath
<1>1. BrainTypeOK' BY <1>0 DEF BrainInv, BrainTypeOK, CheckPath, BrainGoto, BrainStep
<1>2. /\ \A q \in Proc \ {p} : brainPc'[q] = brainPc[q] /\ version'[q] = version[q]
      /\ version'[p] = file[doc[p]]
      /\ \A q \in Proc : Writing(q)' <=> Writing(q)
      /\ \A q \in Proc \ {p} : Ingesting(q)' <=> Ingesting(q)
      /\ ~Ingesting(p) /\ (Ingesting(p)' => allowed)
      /\ \A d \in Doc : IsStored(d)' <=> IsStored(d)
  BY <1>0 DEF CheckPath, BrainGoto, Writing, Ingesting, IsStored
<1>3. IdsDistinct' BY <1>2 DEF BrainInv, IdsDistinct, CheckPath
<1>4. ChunksOwned' BY <1>2 DEF BrainInv, ChunksOwned, CheckPath
<1>5. \A d \in Doc : crossed'[d] \/ ~crossed[d] BY <1>0 DEF CheckPath
<1>6. ASSUME NEW d \in Doc PROVE RowFaithful(d)'
  BY <1>2, <1>5 DEF BrainInv, RowFaithful, ChunksOf, CheckPath
<1>7. ASSUME NEW d \in Doc, ~crossed'[d] PROVE PathOrdered(d)'
  <2>1. PathOrdered(d) /\ ~crossed[d] BY <1>5, <1>7 DEF BrainInv
  <2>2. \A q \in Proc : Writing(q)' /\ doc'[q] = d => Agrees(q)'
    BY <1>2, <2>1 DEF PathOrdered, Agrees, CheckPath
  <2>3. IsStored(d)' => documents'[d].hash = newest'[d]
    BY <1>2, <2>1 DEF PathOrdered, CheckPath
  <2>4. ASSUME NEW q \in Proc, NEW r \in Proc, Ingesting(q)', Ingesting(r)', doc'[q] = d, doc'[r] = d
        PROVE  q = r
    <3>0. doc' = doc BY DEF CheckPath
    <3>1. CASE q # p /\ r # p BY <1>2, <2>1, <2>4, <3>0, <3>1 DEF PathOrdered
    <3>2. CASE q = p /\ r # p
      <4>1. allowed /\ Ingesting(r) /\ doc[r] = doc[p] /\ doc[p] = d BY <1>2, <2>4, <3>0, <3>2
      <4>2. crossed'[d] BY <1>0, <3>2, <4>1 DEF CheckPath
      <4> QED BY <1>7, <4>2
    <3>3. CASE r = p /\ q # p
      <4>1. allowed /\ Ingesting(q) /\ doc[q] = doc[p] /\ doc[p] = d BY <1>2, <2>4, <3>0, <3>3
      <4>2. crossed'[d] BY <1>0, <3>3, <4>1 DEF CheckPath
      <4> QED BY <1>7, <4>2
    <3> QED BY <3>1, <3>2, <3>3
  <2>5. ASSUME NEW q \in Proc, Ingesting(q)', doc'[q] = d PROVE newest'[d] <= version'[q]
    <3>1. newest' = newest /\ doc' = doc BY DEF CheckPath
    <3>2. CASE q = p BY <1>2, <2>5, <3>1, <3>2 DEF BrainInv, VersionsReal
    <3>3. CASE q # p BY <1>2, <2>1, <2>5, <3>1, <3>3 DEF PathOrdered
    <3> QED BY <3>2, <3>3
  <2> QED BY <2>2, <2>3, <2>4, <2>5 DEF PathOrdered
<1>8. VersionsReal'
  <2>1. newest' = newest /\ doc' = doc /\ file' = file BY DEF CheckPath
  <2>2. ASSUME NEW q \in Proc, Ingesting(q)' PROVE version'[q] <= file'[doc'[q]]
    <3>1. CASE q = p BY <1>0, <1>2, <2>1, <3>1
    <3>2. CASE q # p BY <1>2, <2>1, <2>2, <3>2 DEF BrainInv, VersionsReal
    <3> QED BY <3>1, <3>2
  <2> QED BY <2>1, <2>2 DEF BrainInv, VersionsReal
<1> QED BY <1>1, <1>3, <1>4, <1>6, <1>7, <1>8 DEF BrainInv, PathOrdered

LEMMA SelectStep ==
  ASSUME BrainInv, NEW p \in Proc, NEW id \in DocId, SelectDocument(p, id)
  PROVE  BrainInv'
<1>0. /\ brainPc \in [Proc -> BrainStep] /\ doc \in [Proc -> Doc] /\ used \in SUBSET DocId
      /\ found \in [Proc -> DocId \cup {NoDoc}] /\ brainPc[p] = "select"
      /\ documents \in [Doc -> Row \cup {NoDoc}]
  BY DEF BrainInv, BrainTypeOK, SelectDocument
<1>1. BrainTypeOK' BY <1>0 DEF BrainInv, BrainTypeOK, SelectDocument, BrainGoto, BrainStep
<1>2. /\ \A q \in Proc \ {p} : brainPc'[q] = brainPc[q] /\ found'[q] = found[q]
      /\ found'[p] = id /\ id \in used'
      /\ \A q \in Proc : Ingesting(q)' <=> Ingesting(q)
      /\ \A q \in Proc \ {p} : Writing(q)' <=> Writing(q)
      /\ \A d \in Doc : IsStored(d)' <=> IsStored(d)
      /\ UNCHANGED <<file, documents, chunks, index, fts, doc, version, newest, crossed>>
      /\ \A i \in used : i \in used'
  <2>1. id \in used'
    <3>1. CASE documents[doc[p]] = NoDoc BY <3>1 DEF SelectDocument
    <3>2. CASE documents[doc[p]] # NoDoc
      BY <1>0, <3>2 DEF SelectDocument, BrainInv, IdsDistinct, IsStored
    <3> QED BY <3>1, <3>2
  <2> QED BY <1>0, <2>1 DEF SelectDocument, BrainGoto, Writing, Ingesting, IsStored
\* The id is nobody's, or that of the path alone.
<1>3. /\ \A d \in Doc : IsStored(d) /\ d # doc[p] => documents[d].id # id
      /\ \A q \in Proc : Writing(q) /\ doc[q] # doc[p] => found[q] # id
  <2>1. CASE documents[doc[p]] = NoDoc
    BY <2>1 DEF SelectDocument, BrainInv, IdsDistinct
  <2>2. CASE documents[doc[p]] # NoDoc
    <3>1. IsStored(doc[p]) /\ documents[doc[p]].id = id /\ doc[p] \in Doc
      BY <1>0, <2>2 DEF SelectDocument, IsStored
    <3> QED BY <3>1 DEF BrainInv, IdsDistinct
  <2> QED BY <2>1, <2>2
<1>4. IdsDistinct' BY <1>2, <1>3 DEF BrainInv, IdsDistinct
<1>5. ChunksOwned' BY <1>2 DEF BrainInv, ChunksOwned
<1>6. ASSUME NEW d \in Doc PROVE RowFaithful(d)'
  BY <1>2 DEF BrainInv, RowFaithful, ChunksOf
<1>7. ASSUME NEW d \in Doc PROVE PathOrdered(d)'
  <2>1. PathOrdered(d) BY DEF BrainInv
  <2>2. Agrees(p)' BY <1>2 DEF Agrees, SelectDocument
  <2>3. \A q \in Proc \ {p} : Agrees(q) => Agrees(q)' BY <1>2 DEF Agrees
  <2> QED BY <1>2, <2>1, <2>2, <2>3 DEF PathOrdered
<1>8. VersionsReal' BY <1>2 DEF BrainInv, VersionsReal
<1> QED BY <1>1, <1>4, <1>5, <1>6, <1>7, <1>8 DEF BrainInv

LEMMA WriteStep ==
  ASSUME BrainInv, NEW p \in Proc, WriteDocument(p)
  PROVE  BrainInv'
<1> DEFINE d == doc[p]
           row == [id |-> found[p], hash |-> version[p]]
           new == [id |-> found[p], version |-> version[p]]
<1>0. /\ brainPc \in [Proc -> BrainStep] /\ doc \in [Proc -> Doc] /\ used \in SUBSET DocId
      /\ found \in [Proc -> DocId \cup {NoDoc}] /\ version \in [Proc -> Nat]
      /\ documents \in [Doc -> Row \cup {NoDoc}] /\ newest \in [Doc -> Nat]
      /\ Writing(p) /\ Ingesting(p) /\ Agrees(p) /\ doc[p] \in Doc /\ version[p] \in Nat
  BY DEF BrainInv, BrainTypeOK, WriteDocument, Writing, Ingesting
<1>a. found[p] \in DocId /\ found[p] \in used
  BY <1>0 DEF BrainInv, IdsDistinct
<1>b. row \in Row /\ row # NoDoc /\ new \in Chunk
  BY <1>0, <1>a, BrainAssumption DEF Row, Chunk
<1>1. BrainTypeOK'
  <2>1. documents' \in [Doc -> Row \cup {NoDoc}] BY <1>0, <1>b DEF WriteDocument
  <2>2. chunks' \in SUBSET Chunk /\ index' \in SUBSET Chunk
    BY <1>b DEF WriteDocument, Without, BrainInv, BrainTypeOK
  <2>3. newest' \in [Doc -> Nat] BY <1>0 DEF WriteDocument
  <2> QED BY <1>0, <2>1, <2>2, <2>3 DEF WriteDocument, BrainGoto, BrainInv, BrainTypeOK, BrainStep
<1>2. /\ \A q \in Proc \ {p} : brainPc'[q] = brainPc[q]
      /\ \A q \in Proc : Writing(q)' => Writing(q) /\ q # p
      /\ \A q \in Proc : Ingesting(q)' => Ingesting(q) /\ q # p
      /\ UNCHANGED <<file, fts, doc, version, found, used, crossed>>
      /\ documents'[d] = row
      /\ \A e \in Doc \ {d} : documents'[e] = documents[e] /\ newest'[e] = newest[e]
      /\ IsStored(d)' /\ \A e \in Doc \ {d} : IsStored(e)' <=> IsStored(e)
  BY <1>0, <1>b DEF WriteDocument, BrainGoto, Writing, Ingesting, IsStored
<1>3. IdsDistinct'
  <2>1. \A e \in Doc \ {d} : IsStored(e) => documents[e].id # row.id
    BY <1>0 DEF BrainInv, IdsDistinct
  <2>2. \A q \in Proc : Writing(q) /\ doc[q] # d => found[q] # row.id
    BY <1>0 DEF BrainInv, IdsDistinct
  <2>3. row.id \in used BY <1>a
  <2>4. documents'[d].id = row.id BY <1>2
  <2> HIDE DEF d, row
  <2> QED BY <1>2, <2>1, <2>2, <2>3, <2>4 DEF BrainInv, IdsDistinct
<1>4. ChunksOwned'
  <2>1. SUFFICES ASSUME fts
                 PROVE  /\ index' = chunks'
                        /\ \A c \in chunks' : \E e \in Doc : IsStored(e)' /\ documents'[e].id = c.id
    BY <1>2 DEF ChunksOwned
  <2>2. index' = chunks' BY <2>1 DEF WriteDocument, BrainInv, ChunksOwned
  <2>3. ASSUME NEW c \in chunks' PROVE \E e \in Doc : IsStored(e)' /\ documents'[e].id = c.id
    <3>1. CASE c = new BY <1>0, <1>2, <3>1
    <3>2. CASE c \in chunks /\ c.id # found[p]
      <4>1. PICK e \in Doc : IsStored(e) /\ documents[e].id = c.id
        BY <2>1, <3>2 DEF BrainInv, ChunksOwned
      <4>2. e # d BY <1>0, <3>2, <4>1 DEF Agrees, IsStored
      <4> QED BY <1>2, <4>1, <4>2
    <3> QED BY <3>1, <3>2 DEF WriteDocument, Without
  <2> QED BY <2>2, <2>3
<1>5. ASSUME NEW e \in Doc PROVE RowFaithful(e)'
  <2>1. chunks' = Without(chunks, found[p]) \cup {new} BY DEF WriteDocument
  <2>2. CASE e = d
    <3>1. {c \in chunks' : c.id = found[p]} = {new} BY <2>1 DEF Without
    <3> QED BY <1>2, <2>2, <3>1 DEF RowFaithful, ChunksOf
  <2>3. CASE e # d /\ IsStored(e)
    <3>1. documents[e].id # found[p] BY <1>0, <2>3 DEF BrainInv, IdsDistinct
    <3>2. {c \in chunks' : c.id = documents[e].id} = ChunksOf(documents[e].id)
      BY <2>1, <3>1 DEF Without, ChunksOf
    <3>3. RowFaithful(e) BY DEF BrainInv
    <3> QED BY <1>2, <2>3, <3>2, <3>3 DEF RowFaithful, ChunksOf
  <2>4. CASE e # d /\ ~IsStored(e) BY <1>2, <2>4 DEF RowFaithful
  <2> QED BY <2>2, <2>3, <2>4
<1>6. ASSUME NEW e \in Doc, ~crossed'[e] PROVE PathOrdered(e)'
  <2>1. PathOrdered(e) /\ ~crossed[e] BY <1>2, <1>6 DEF BrainInv
  <2>2. CASE e # d
    <3>1. \A q \in Proc : Agrees(q) /\ doc[q] = e => Agrees(q)' BY <1>2, <2>2 DEF Agrees
    <3> QED BY <1>2, <2>1, <2>2, <3>1 DEF PathOrdered
  <2>3. CASE e = d
    <3>1. \A q \in Proc : ~(Ingesting(q)' /\ doc'[q] = d)
      BY <1>0, <1>2, <2>1, <2>3 DEF PathOrdered
    <3>2. \A q \in Proc : ~(Writing(q)' /\ doc'[q] = d)
      BY <3>1 DEF Writing, Ingesting
    <3>3. newest'[d] = version[p]
      <4>1. newest[d] <= version[p] /\ newest[d] \in Nat BY <1>0, <2>1, <2>3 DEF PathOrdered
      <4>2. newest'[d] = IF version[p] > newest[d] THEN version[p] ELSE newest[d]
        BY <1>0 DEF WriteDocument
      <4> QED BY <1>0, <4>1, <4>2
    <3>4. documents'[d].hash = version[p] BY <1>2
    <3> HIDE DEF d
    <3> QED BY <2>3, <3>1, <3>2, <3>3, <3>4 DEF PathOrdered
  <2> QED BY <2>2, <2>3
<1>7. VersionsReal'
  <2>1. ASSUME NEW e \in Doc PROVE newest'[e] <= file'[e]
    <3>1. newest[e] <= file[e] BY DEF BrainInv, VersionsReal
    <3>2. CASE e # d BY <1>2, <3>1, <3>2
    <3>3. CASE e = d
      <4>1. version[p] <= file[d] BY <1>0 DEF BrainInv, VersionsReal
      <4>2. newest'[d] \in {version[p], newest[d]} BY <1>0 DEF WriteDocument
      <4> QED BY <1>2, <3>1, <3>3, <4>1, <4>2
    <3> QED BY <3>2, <3>3
  <2> QED BY <1>2, <2>1 DEF BrainInv, VersionsReal
<1> QED BY <1>1, <1>3, <1>4, <1>5, <1>6, <1>7 DEF BrainInv, PathOrdered

LEMMA ForeignStep ==
  ASSUME BrainInv, NEW p \in Proc, WriteForeign(p)
  PROVE  BrainInv'
<1> DEFINE d == doc[p]
           new == [id |-> found[p], version |-> version[p]]
<1>0. /\ brainPc \in [Proc -> BrainStep] /\ doc \in [Proc -> Doc] /\ used \in SUBSET DocId
      /\ found \in [Proc -> DocId \cup {NoDoc}] /\ version \in [Proc -> Nat]
      /\ documents \in [Doc -> Row \cup {NoDoc}]
      /\ Writing(p) /\ Ingesting(p) /\ ~Agrees(p) /\ doc[p] \in Doc /\ version[p] \in Nat
      /\ documents[d] \in Row
  BY DEF BrainInv, BrainTypeOK, WriteForeign, Writing, Ingesting, Agrees
<1>a. found[p] \in DocId /\ found[p] \in used
  BY <1>0 DEF BrainInv, IdsDistinct
<1>b. crossed[d] BY <1>0 DEF BrainInv, PathOrdered
<1>c. [documents[d] EXCEPT !.hash = version[p]] \in Row /\ new \in Chunk
  BY <1>0, <1>a DEF Row, Chunk
<1>1. BrainTypeOK'
  <2>1. documents' \in [Doc -> Row \cup {NoDoc}] BY <1>0, <1>c DEF WriteForeign
  <2>2. chunks' \in SUBSET Chunk BY <1>c DEF WriteForeign, BrainInv, BrainTypeOK
  <2> QED BY <1>0, <2>1, <2>2 DEF WriteForeign, BrainGoto, BrainInv, BrainTypeOK, BrainStep
<1>2. /\ \A q \in Proc : Writing(q)' => Writing(q)
      /\ \A q \in Proc : Ingesting(q)' => Ingesting(q)
      /\ UNCHANGED <<file, index, fts, doc, version, found, used, newest, crossed>>
  BY <1>0 DEF WriteForeign, BrainGoto, Writing, Ingesting
<1>3. /\ \A e \in Doc : IsStored(e)' <=> IsStored(e)
      /\ \A e \in Doc : IsStored(e) => documents'[e].id = documents[e].id
      /\ \A e \in Doc : e # d => documents'[e] = documents[e]
  BY <1>0, <1>c, BrainAssumption DEF WriteForeign, IsStored, Row
<1>4. IdsDistinct' BY <1>2, <1>3 DEF BrainInv, IdsDistinct
<1>5. ChunksOwned'
  <2>1. CASE fts BY <2>1, <1>2, <1>3 DEF WriteForeign, BrainInv, ChunksOwned
  <2>2. CASE ~fts BY <2>2, <1>2 DEF ChunksOwned
  <2> QED BY <2>1, <2>2
<1>6. ASSUME NEW e \in Doc PROVE RowFaithful(e)'
  <2>0. RowFaithful(e) BY DEF BrainInv
  <2>1. CASE fts
    BY <2>0, <2>1, <1>2 DEF WriteForeign, RowFaithful, ChunksOf, IsStored
  <2>2. CASE ~fts /\ e = d BY <1>b, <1>2, <2>2 DEF RowFaithful
  <2>3. CASE ~fts /\ e # d /\ IsStored(e)
    <3>1. documents[e].id # found[p] BY <1>0, <2>3 DEF BrainInv, IdsDistinct
    <3>2. {c \in chunks' : c.id = documents[e].id} = ChunksOf(documents[e].id)
      BY <2>3, <3>1 DEF WriteForeign, ChunksOf
    <3> QED BY <1>2, <1>3, <2>0, <2>3, <3>2 DEF RowFaithful, ChunksOf
  <2>4. CASE ~IsStored(e) BY <1>3, <2>4 DEF RowFaithful
  <2> QED BY <2>1, <2>2, <2>3, <2>4
<1>7. ASSUME NEW e \in Doc, ~crossed'[e] PROVE PathOrdered(e)'
  <2>1. PathOrdered(e) /\ ~crossed[e] /\ e # d BY <1>2, <1>7, <1>b DEF BrainInv
  <2>2. \A q \in Proc : Agrees(q) /\ doc[q] = e => Agrees(q)' BY <1>2, <1>3, <2>1 DEF Agrees
  <2> QED BY <1>2, <1>3, <2>1, <2>2 DEF PathOrdered
<1>8. VersionsReal' BY <1>2 DEF BrainInv, VersionsReal
<1> QED BY <1>1, <1>4, <1>5, <1>6, <1>7, <1>8 DEF BrainInv, PathOrdered

---------------------------------------------------------------------------
LEMMA BrainNextStep == BrainInv /\ [BrainNext]_brainVars => BrainInv'
<1> SUFFICES ASSUME BrainInv, [BrainNext]_brainVars PROVE BrainInv' OBVIOUS
<1>0. /\ brainPc \in [Proc -> BrainStep] /\ doc \in [Proc -> Doc] /\ file \in [Doc -> Nat]
      /\ Rebuilt \in SUBSET Chunk /\ BrainTypeOK
      /\ \A d \in Doc : file[d] >= file[d]
  BY RebuiltType DEF BrainInv, BrainTypeOK
<1>1. CASE UNCHANGED brainVars
  <2>1. BrainTypeOK' BY <1>0, <1>1 DEF brainVars, BrainTypeOK
  <2> QED BY <1>0, <1>1, <2>1, BrainQuiet DEF brainVars, Writing, Ingesting
<1>2. ASSUME NEW p \in Proc, NEW d \in Doc, StartIngest(p, d) PROVE BrainInv'
  <2>1. BrainTypeOK' BY <1>0, <1>2 DEF StartIngest, BrainTypeOK, BrainGoto, BrainStep
  <2>2. /\ \A q \in Proc : Writing(q)' => Writing(q)
        /\ \A q \in Proc : Ingesting(q)' => Ingesting(q) /\ doc'[q] = doc[q]
    BY <1>0, <1>2 DEF StartIngest, BrainGoto, Writing, Ingesting
  <2> QED BY <1>0, <1>2, <2>1, <2>2, BrainQuiet DEF StartIngest
<1>3. ASSUME NEW p \in Proc, NEW allowed \in BOOLEAN, CheckPath(p, allowed) PROVE BrainInv'
  BY <1>3, CheckStep
<1>4. ASSUME NEW p \in Proc, NEW id \in DocId, SelectDocument(p, id) PROVE BrainInv'
  BY <1>4, SelectStep
<1>5. ASSUME NEW p \in Proc, WriteDocument(p) PROVE BrainInv' BY <1>5, WriteStep
<1>6. ASSUME NEW p \in Proc, WriteForeign(p) PROVE BrainInv' BY <1>6, ForeignStep
<1>7. ASSUME NEW p \in Proc, KillBrain(p) PROVE BrainInv'
  <2>1. BrainTypeOK' BY <1>0, <1>7 DEF KillBrain, BrainTypeOK, BrainGoto, BrainStep
  <2>2. /\ \A q \in Proc : Writing(q)' => Writing(q)
        /\ \A q \in Proc : Ingesting(q)' => Ingesting(q)
    BY <1>0, <1>7 DEF KillBrain, BrainGoto, Writing, Ingesting
  <2> QED BY <1>0, <1>7, <2>1, <2>2, BrainQuiet DEF KillBrain
<1>8. CASE SearchBrain
  <2>1. BrainTypeOK' BY <1>0, <1>8 DEF SearchBrain, BrainTypeOK
  <2> QED BY <1>0, <1>8, <2>1, BrainQuiet DEF SearchBrain, Writing, Ingesting
<1>9. ASSUME NEW d \in Doc, SaveFile(d) PROVE BrainInv'
  <2>1. BrainTypeOK' BY <1>0, <1>9 DEF SaveFile, BrainTypeOK
  <2>2. \A e \in Doc : file'[e] >= file[e] BY <1>0, <1>9 DEF SaveFile
  <2> QED BY <1>0, <1>9, <2>1, <2>2, BrainQuiet DEF SaveFile, Writing, Ingesting
<1> QED
  BY <1>1, <1>2, <1>3, <1>4, <1>5, <1>6, <1>7, <1>8, <1>9 DEF BrainNext, BrainWork

LEMMA SearchesFind == BrainInv => SearchFindsDocuments
<1> SUFFICES ASSUME BrainInv, NEW d \in Doc, documents[d] # NoDoc, fts \/ ~crossed[d]
             PROVE  /\ {c \in Hits : documents[d] # NoDoc /\ c.id = documents[d].id}
                         = {[id |-> documents[d].id, version |-> documents[d].hash]}
                    /\ crossed[d] \/ documents[d].hash = newest[d]
  BY DEF SearchFindsDocuments
<1>1. {c \in Hits : documents[d] # NoDoc /\ c.id = documents[d].id} = ChunksOf(documents[d].id)
  <2>1. Hits = Indexed(chunks) BY DEF BrainInv, ChunksOwned, Hits
  <2> QED BY <2>1 DEF Indexed, Stored, ChunksOf
<1>2. RowFaithful(d) /\ PathOrdered(d) BY DEF BrainInv
<1> QED BY <1>1, <1>2 DEF RowFaithful, PathOrdered, IsStored

\* A search finds of every document exactly the chunks of the version of its hash, which is
\* the newest one read, however ingestions of different files interleave: for any number
\* of processes, paths, ids and versions.
THEOREM BrainFindsDocuments == BrainSpec => [](BrainTypeOK /\ SearchFindsDocuments)
<1>1. BrainInv => BrainTypeOK /\ SearchFindsDocuments BY SearchesFind DEF BrainInv
<1> QED BY <1>1, BrainInitially, BrainNextStep, PTL DEF BrainSpec

---------------------------------------------------------------------------
\* The workspace

\* The steps of the brain that ask no policies.
BrainUnasked ==
  \/ \E p \in Proc : BrainWork(p) \/ KillBrain(p) \/ \E d \in Doc : StartIngest(p, d)
  \/ SearchBrain \/ \E d \in Doc : SaveFile(d)

BrainMoves == UNCHANGED brainVars \/ BrainUnasked \/ \E p \in Proc : PathChecked(p)

\* Each part takes a step of its own, or none.
Parts ==
  /\ [RouteNext]_routeVars
  /\ [AgentNext]_agentVars
  /\ [ProfileNext]_profileVars
  /\ [PolicyNext]_policyVars
  /\ [ServerNext]_serverVars
  /\ BrainMoves

LEMMA Outcomes == \A fine : AnswerIf(fine) => ServerNext
BY DEF AnswerIf, ServerNext

LEMMA StartsPolicies == \A p \in Proc : StartPolicies(p) => PolicyNext
BY DEF PolicyNext

LEMMA ReadsProfile == \A p \in Proc : StartReadProfile(p) => ProfileNext
BY DEF ProfileNext

LEMMA PartsStep == RouteTypeOK /\ [Next]_vars => Parts
<1> SUFFICES ASSUME RouteTypeOK, [Next]_vars PROVE Parts OBVIOUS
<1> USE DEF Parts, BrainMoves
<1>0. CASE UNCHANGED vars BY <1>0 DEF vars
<1>1. ASSUME NEW p \in Proc, SetRoute(p) PROVE Parts
  <2>1. RouteNext BY <1>1 DEF SetRoute, RouteNext
  <2> QED BY <1>1, <2>1 DEF SetRoute, ButRoutes
<1>2. ASSUME NEW p \in Proc, StopOrClear(p) PROVE Parts
  <2>1. AgentNext BY <1>2 DEF StopOrClear, AgentNext
  <2> QED BY <1>2, <2>1 DEF StopOrClear, ButAgents
<1>3. ASSUME NEW p \in Proc, SetProfile(p) PROVE Parts
  <2>1. ProfileNext BY <1>3 DEF SetProfile, ProfileNext
  <2> QED BY <1>3, <2>1 DEF SetProfile, ButProfiles
<1>4. ASSUME NEW p \in Proc, AddMemory(p) PROVE Parts
  BY <1>4, ReadsProfile DEF AddMemory, ButProfiles
<1>5. ASSUME NEW p \in Proc, Search(p) PROVE Parts
  BY <1>5 DEF Search, ButBrain, BrainUnasked
<1>6. ASSUME NEW p \in Proc, Work(p) PROVE Parts
  <2>1. CASE RouteWork(p) /\ ButRoutes
    <3>1. RouteNext BY <2>1 DEF RouteNext
    <3> QED BY <2>1, <3>1 DEF ButRoutes
  <2>2. CASE (OpenRegistry(p) \/ WriteRegistry(p)) /\ ButAgents
    <3>1. AgentNext BY <2>2 DEF AgentNext
    <3> QED BY <2>2, <3>1 DEF ButAgents
  <2>3. CASE ProfileWork(p) /\ ButProfiles
    <3>1. ProfileNext BY <2>3 DEF ProfileNext
    <3> QED BY <2>3, <3>1 DEF ButProfiles
  <2>4. CASE PolicyWork(p) /\ ButPolicies
    <3>1. PolicyNext BY <2>4 DEF PolicyNext
    <3> QED BY <2>4, <3>1 DEF ButPolicies
  <2>5. CASE BrainWork(p) /\ ButBrain BY <2>5 DEF ButBrain, BrainUnasked
  <2> QED BY <1>6, <2>1, <2>2, <2>3, <2>4, <2>5 DEF Work
<1>7. ASSUME NEW p \in Proc, BeginAgent(p) PROVE Parts
  <2>1. AgentNext BY <1>7 DEF BeginAgent, AgentNext
  <2>2. [RouteNext]_routeVars
    <3>1. Coding \in Route BY WorkspaceAssumption
    <3>2. CASE StartResolve(p, Coding) BY <3>1, <3>2 DEF RouteNext
    <3>3. CASE UNCHANGED routeVars BY <3>3
    <3> QED BY <1>7, <3>2, <3>3 DEF BeginAgent
  <2> QED BY <1>7, <2>1, <2>2 DEF BeginAgent
<1>8. ASSUME NEW p \in Proc, KnowEffort(p) PROVE Parts
  <2>1. resolved[p] \in Effort BY WorkspaceAssumption DEF RouteTypeOK
  <2>2. AgentNext BY <1>8, <2>1 DEF KnowEffort, AgentNext
  <2> QED BY <1>8, <2>2 DEF KnowEffort, ButAgents
<1>9. ASSUME NEW p \in Proc, CheckPolicies(p) PROVE Parts
  BY <1>9, StartsPolicies DEF CheckPolicies, BuildService
<1>10. ASSUME NEW p \in Proc, NowProfile(p) PROVE Parts
  BY <1>10, ReadsProfile DEF NowProfile, ButProfiles
<1>11. ASSUME NEW p \in Proc, HaveService(p) PROVE Parts BY <1>11 DEF HaveService
<1>12. ASSUME NEW p \in Proc, BeginIngest(p) PROVE Parts
  <2>1. BrainUnasked BY <1>12 DEF BeginIngest, BrainUnasked
  <2> QED BY <1>12, <2>1, StartsPolicies DEF BeginIngest
<1>13. ASSUME NEW p \in Proc, PathChecked(p) PROVE Parts
  BY <1>13 DEF PathChecked, ButBrain
<1>14. ASSUME NEW p \in Proc, Kill(p) PROVE Parts
  <2>1. RouteNext BY <1>14 DEF Kill, RouteNext
  <2>2. AgentNext BY <1>14 DEF Kill, AgentNext
  <2>3. ProfileNext BY <1>14 DEF Kill, ProfileNext
  <2>4. PolicyNext BY <1>14 DEF Kill, PolicyNext
  <2>5. BrainUnasked BY <1>14 DEF Kill, BrainUnasked
  <2>6. [ServerNext]_serverVars
    <3>1. CASE p = Server BY <1>14, <3>1 DEF Kill, ServerNext
    <3>2. CASE p # Server BY <1>14, <3>2 DEF Kill
    <3> QED BY <3>1, <3>2
  <2> QED BY <2>1, <2>2, <2>3, <2>4, <2>5, <2>6
<1>15. CASE Edit
  <2>1. CASE (\E f \in RuleFile : EditRules(f)) /\ ButPolicies
    <3>1. PolicyNext BY <2>1 DEF PolicyNext
    <3> QED BY <2>1, <3>1 DEF ButPolicies
  <2>2. CASE (\E d \in Doc : SaveFile(d)) /\ ButBrain
    BY <2>2 DEF ButBrain, BrainUnasked
  <2> QED BY <1>15, <2>1, <2>2 DEF Edit
<1>16. CASE Receive \/ AnswerLine
  <2>1. ServerNext BY <1>16 DEF Receive, AnswerLine, ServerNext
  <2> QED BY <1>16, <2>1 DEF Receive, AnswerLine, ButServer
<1>17. CASE CallPolicies
  <2>1. CASE EnterTool /\ BuildService(Server)
    <3>1. ServerNext BY <2>1 DEF ServerNext
    <3>2. PolicyNext BY <2>1, StartsPolicies, WorkspaceAssumption DEF BuildService
    <3> QED BY <2>1, <3>1, <3>2 DEF BuildService
  <2>2. \/ AnswerIf(service[Server] = "built") /\ ButServer
        \/ EnterTool /\ BuildService(Server)
        \/ AnswerIf(profilePc[Server] = "known") /\ ButServer
    BY <1>17 DEF CallPolicies
  <2> QED BY <2>1, <2>2, Outcomes DEF ButServer
<1>18. CASE CallMemory
  <2>1. CASE EnterTool /\ StartReadProfile(Server)
    <3>1. ServerNext BY <2>1 DEF ServerNext
    <3>2. ProfileNext BY <2>1, ReadsProfile, WorkspaceAssumption
    <3>3. serverPc = "tool" /\ serverPc' = "called" BY <2>1 DEF EnterTool
    <3>4. UNCHANGED <<routeVars, agentVars, policyVars, brainVars>>
      BY <1>18, <3>3 DEF CallMemory
    <3> QED BY <3>1, <3>2, <3>4
  <2>2. CASE AnswerIf(profilePc[Server] = "known") /\ ButServer
    BY <2>2, Outcomes DEF ButServer
  <2> QED BY <1>18, <2>1, <2>2 DEF CallMemory
<1>19. CASE CallSearch
  <2>1. ServerNext BY <1>19 DEF CallSearch, ServerNext
  <2>2. BrainUnasked \/ UNCHANGED brainVars BY <1>19 DEF CallSearch, BrainUnasked
  <2> QED BY <1>19, <2>1, <2>2 DEF CallSearch
<1>20. CASE CallOther
  BY <1>20, Outcomes DEF CallOther, ButServer
<1>21. CASE Stop
  <2>1. ServerNext BY <1>21 DEF Stop, ServerNext
  <2> QED BY <1>21, <2>1 DEF Stop, ButServer
<1>22. ASSUME NEW p \in Proc, RestoreBackup(p) PROVE Parts
  <2>1. CASE (\E w \in Profile \cup {Blank} : StartRestoreProfile(p, w)) /\ ButProfiles
    <3>1. ProfileNext BY <2>1 DEF ProfileNext
    <3> QED BY <2>1, <3>1 DEF ButProfiles
  <2>2. CASE StartRestoreRules(p) /\ ButPolicies
    <3>1. PolicyNext BY <2>2 DEF PolicyNext
    <3> QED BY <2>2, <3>1 DEF ButPolicies
  <2> QED BY <1>22, <2>1, <2>2 DEF RestoreBackup
<1>23. ASSUME NEW p \in Proc, ThenRules(p) PROVE Parts
  <2>1. PolicyNext BY <1>23 DEF ThenRules, PolicyNext
  <2> QED BY <1>23, <2>1 DEF ThenRules, ButPolicies
<1> HIDE DEF Parts, BrainMoves
<1> QED
  BY <1>0, <1>1, <1>2, <1>3, <1>4, <1>5, <1>6, <1>7, <1>8, <1>9, <1>10, <1>11, <1>12,
     <1>13, <1>14, <1>15, <1>16, <1>17, <1>18, <1>19, <1>20, <1>21, <1>22, <1>23
  DEF Next

---------------------------------------------------------------------------
\* The file of the sensitive paths was read half, or had been left empty.
Unprotected == RuleFiles[1] \in halfRead \cup gutted

\* Whoever ingests a sensitive file was let by such rules.
SensitiveInv ==
  /\ SensitiveKeptOut
  /\ \A p \in Proc : Ingesting(p) /\ doc[p] \in Sensitive => Unprotected

WorkspaceInv ==
  /\ RouteInv /\ AgentInv /\ ProfileInv /\ PolicyInv /\ BrainInv /\ ServerInv
  /\ SensitiveInv

LEMMA UnprotectedStays == [PolicyNext]_policyVars /\ Unprotected => Unprotected'
<1> SUFFICES ASSUME [PolicyNext]_policyVars, Unprotected PROVE Unprotected' OBVIOUS
<1> USE DEF Unprotected
<1>1. CASE UNCHANGED policyVars BY <1>1 DEF policyVars
<1>2. ASSUME NEW p \in Proc, StartPolicies(p) \/ StartRestoreRules(p) \/ KillPolicy(p)
      PROVE  Unprotected'
  BY <1>2 DEF StartPolicies, StartRestoreRules, KillPolicy
<1>3. ASSUME NEW p \in Proc, PolicyWork(p) PROVE Unprotected'
  BY <1>3
  DEF PolicyWork, FindRules, CreateRules, FillRules, ReadRules, PassRules, TruncateRules,
      RefillRules
<1>4. ASSUME NEW f \in RuleFile, EditRules(f) PROVE Unprotected' BY <1>4 DEF EditRules
<1> QED BY <1>1, <1>2, <1>3, <1>4 DEF PolicyNext

\* Who asks no policies starts no ingestion, and stores only what it is ingesting.
LEMMA UnaskedStores ==
  ASSUME BrainTypeOK, BrainUnasked
  PROVE  /\ \A p \in Proc : Ingesting(p)' => Ingesting(p) /\ doc'[p] = doc[p]
         /\ \A d \in Doc : documents'[d] # NoDoc =>
              \/ documents[d] # NoDoc
              \/ \E p \in Proc : Ingesting(p) /\ doc[p] = d
<1>0. brainPc \in [Proc -> BrainStep] /\ doc \in [Proc -> Doc] /\ documents \in [Doc -> Row \cup {NoDoc}]
  BY DEF BrainTypeOK
<1> USE <1>0 DEF BrainGoto, Ingesting
<1>1. ASSUME NEW p \in Proc, NEW id \in DocId, SelectDocument(p, id)
      PROVE  /\ \A q \in Proc : Ingesting(q)' => Ingesting(q) /\ doc'[q] = doc[q]
             /\ UNCHANGED documents
  BY <1>1 DEF SelectDocument
<1>2. ASSUME NEW p \in Proc, WriteDocument(p) \/ WriteForeign(p)
      PROVE  /\ \A q \in Proc : Ingesting(q)' => Ingesting(q) /\ doc'[q] = doc[q]
             /\ \A d \in Doc : d # doc[p] => documents'[d] = documents[d]
             /\ Ingesting(p)
  BY <1>2 DEF WriteDocument, WriteForeign
<1>3. ASSUME NEW p \in Proc, KillBrain(p) \/ \E d \in Doc : StartIngest(p, d)
      PROVE  /\ \A q \in Proc : Ingesting(q)' => Ingesting(q) /\ doc'[q] = doc[q]
             /\ UNCHANGED documents
  BY <1>3 DEF KillBrain, StartIngest
<1>4. ASSUME SearchBrain \/ \E d \in Doc : SaveFile(d)
      PROVE  /\ \A q \in Proc : Ingesting(q)' => Ingesting(q) /\ doc'[q] = doc[q]
             /\ UNCHANGED documents
  BY <1>4 DEF SearchBrain, SaveFile
<1>5. CASE \E p \in Proc : WriteDocument(p) \/ WriteForeign(p)
  <2>1. PICK p \in Proc : WriteDocument(p) \/ WriteForeign(p) BY <1>5
  <2> QED BY <1>2, <2>1
<1> HIDE DEF Ingesting
<1> QED BY <1>1, <1>3, <1>4, <1>5 DEF BrainUnasked, BrainWork

\* Rules that let a sensitive file through are none.
LEMMA VerdictMeans ==
  \A p \in Proc : PolicyInv /\ policyPc[p] = "ready" /\ doc[p] \in Sensitive /\ Verdict(p)
                    => Unprotected
<1>1. RuleFiles[1] \in RuleFile BY FilesNumbered
<1> QED BY <1>1 DEF PolicyInv, PolicyProgress, Held, Verdict, Unprotected

LEMMA SensitiveStep ==
  ASSUME WorkspaceInv, BrainMoves, [PolicyNext]_policyVars, BrainTypeOK'
  PROVE  SensitiveInv'
<1>0. /\ Sensitive \subseteq Doc /\ BrainTypeOK /\ PolicyInv
      /\ \A p \in Proc : doc[p] \in Doc
  BY WorkspaceAssumption DEF WorkspaceInv, BrainInv, BrainTypeOK
<1>1. Unprotected => Unprotected' BY UnprotectedStays
<1>2. SensitiveInv BY DEF WorkspaceInv
<1>3. CASE UNCHANGED brainVars
  BY <1>1, <1>2, <1>3 DEF brainVars, SensitiveInv, SensitiveKeptOut, Unprotected, Ingesting
<1>4. CASE BrainUnasked
  BY <1>0, <1>1, <1>2, <1>4, UnaskedStores DEF SensitiveInv, SensitiveKeptOut, Unprotected
<1>5. ASSUME NEW p \in Proc, PathChecked(p) PROVE SensitiveInv'
  <2>1. CheckPath(p, Verdict(p)) /\ policyPc[p] = "ready" BY <1>5 DEF PathChecked
  <2>2. SensitiveKeptOut'
    BY <1>1, <1>2, <2>1 DEF CheckPath, SensitiveInv, SensitiveKeptOut, Unprotected
  <2>3. ASSUME NEW q \in Proc, Ingesting(q)', doc'[q] \in Sensitive PROVE Unprotected'
    <3>0. doc' = doc BY <2>1 DEF CheckPath
    <3>1. CASE q # p
      <4>1. Ingesting(q)
        BY <1>0, <2>1, <2>3, <3>1 DEF CheckPath, BrainGoto, BrainTypeOK, Ingesting
      <4> QED BY <1>1, <1>2, <2>3, <3>0, <4>1 DEF SensitiveInv
    <3>2. CASE q = p
      <4>1. Verdict(p)
        BY <1>0, <2>1, <2>3, <3>2 DEF CheckPath, BrainGoto, BrainTypeOK, Ingesting
      <4> QED BY <1>0, <1>1, <2>1, <2>3, <3>0, <3>2, <4>1, VerdictMeans
    <3> QED BY <3>1, <3>2
  <2> QED BY <2>2, <2>3 DEF SensitiveInv
<1> QED BY <1>3, <1>4, <1>5 DEF BrainMoves

LEMMA WorkspaceInitially == Init => WorkspaceInv
<1> SUFFICES ASSUME Init PROVE WorkspaceInv OBVIOUS
<1>1. RouteInv /\ AgentInv /\ ProfileInv /\ PolicyInv /\ BrainInv /\ ServerInv
  BY RouteInitially, AgentInitially, ProfileInitially, PolicyInitially, BrainInitially,
     ServerInitially
  DEF Init
<1>2. SensitiveInv
  <2>1. Sensitive \subseteq Doc BY WorkspaceAssumption
  <2> QED BY <2>1 DEF Init, BrainInit, SensitiveInv, SensitiveKeptOut, Ingesting
<1> QED BY <1>1, <1>2 DEF WorkspaceInv

LEMMA WorkspaceStep == WorkspaceInv /\ [Next]_vars => WorkspaceInv'
<1> SUFFICES ASSUME WorkspaceInv, [Next]_vars PROVE WorkspaceInv' OBVIOUS
<1>1. Parts BY PartsStep DEF WorkspaceInv, RouteInv
<1>2. [BrainNext]_brainVars
  <2>1. BrainUnasked => BrainNext BY DEF BrainUnasked, BrainNext
  <2>2. ASSUME NEW p \in Proc, PathChecked(p) PROVE BrainNext
    <3>1. CheckPath(p, Verdict(p)) BY <2>2 DEF PathChecked
    <3>2. Verdict(p) \in BOOLEAN BY DEF Verdict
    <3> QED BY <3>1, <3>2 DEF BrainNext
  <2> QED BY <1>1, <2>1, <2>2 DEF Parts, BrainMoves
<1>3. /\ RouteInv' /\ AgentInv' /\ ProfileInv' /\ PolicyInv' /\ ServerInv' /\ BrainInv'
  BY <1>1, <1>2, RouteNextStep, AgentNextStep, ProfileNextStep, PolicyNextStep,
     ServerNextStep, BrainNextStep
  DEF Parts, WorkspaceInv
<1>4. SensitiveInv' BY <1>1, <1>3, SensitiveStep DEF Parts, BrainInv
<1> QED BY <1>3, <1>4 DEF WorkspaceInv

\* The parts keep their files and the server its order of answers also when commands
\* combine them: for any number of processes, with any contents and any sets of commands.
THEOREM WorkspaceKept ==
  Spec => [](RoutesKept /\ AgentsKept /\ ProfileKept /\ RulesHeld
             /\ SearchFindsDocuments /\ AnsweredInOrder)
<1>1. WorkspaceInv => /\ RoutesKept /\ AgentsKept /\ ProfileKept /\ RulesHeld
                      /\ SearchFindsDocuments /\ AnsweredInOrder
  BY SearchesFind
  DEF WorkspaceInv, RouteInv, AgentInv, ProfileInv, ServerInv, PolicyInv, PolicyProgress,
      Held, RulesHeld
<1> QED BY <1>1, WorkspaceInitially, WorkspaceStep, PTL DEF Spec

\* What the default rules block comes into the brain only if the file that blocks it was
\* read while another process was between truncating and writing it, or had been left empty
\* by a killed process or the restore of an empty copy: for any number of processes, files
\* and rules.
THEOREM SensitiveStaysOut == Spec => []SensitiveKeptOut
<1>1. WorkspaceInv => SensitiveKeptOut BY DEF WorkspaceInv, SensitiveInv
<1> QED BY <1>1, WorkspaceInitially, WorkspaceStep, PTL DEF Spec
=============================================================================
