---------------------------- MODULE ModelRouting ----------------------------
(***************************************************************************)
(* .agentos/model-routing.yaml: the model profile and effort of each       *)
(* route.  Every command that needs it first creates it with the defaults  *)
(* if it does not exist; `models route set` reads it, changes one route    *)
(* and writes all of it in place.                                          *)
(*                                                                         *)
(* A file that was truncated and not written yet is read as the defaults.  *)
(* One that is written over a longer content keeps its tail: settings of   *)
(* routes near the end, and half of one, which the last route takes.       *)
(***************************************************************************)
EXTENDS ProjectFiles

CONSTANTS
  Route,         \* ROUTE_NAMES
  LastRoute,     \* the one that comes last in the file
  Setting,       \* a model profile with an effort
  Default        \* default_routing_config

Routes == [Route -> Setting]

ASSUME RouteAssumption ==
  /\ LastRoute \in Route
  /\ Default \in Routes
  /\ NoFile \notin Routes /\ Blank \notin Routes

VARIABLES
  routes,      \* model-routing.yaml
  routePc,     \* where each process is
  goal,        \* the route it asks for or sets, and to what
  routeCopy,   \* the routes it is about to write
  resolved,    \* what resolve_route returned to it
  chosen,      \* history: each route as the last set_route that ended left it
  routesMixed  \* history: two processes changed the file at once, or one was killed

routeVars == <<routes, routePc, goal, routeCopy, resolved, chosen, routesMixed>>

RouteStep == {"idle", "ensure", "create", "default", "open", "write"}
Goal == [route : Route, set : BOOLEAN, setting : Setting]

RouteGoto(p, step) == routePc' = [routePc EXCEPT ![p] = step]
RouteChanging(p) == routePc[p] \in {"create", "default", "open", "write"}
RouteMeets(p) == routesMixed' = (routesMixed \/ \E q \in Proc \ {p} : RouteChanging(q))

\* _parse_routing_config
Parsed(file) == IF file \in {NoFile, Blank} THEN Default ELSE file

\* What is in the file when `new` is written from its beginning over `old`.
Overlaid(old, new) ==
  {new} \cup {file \in Routes : /\ old \in Routes
                               /\ \A r \in Route \ {LastRoute} : file[r] \in {new[r], old[r]}}

---------------------------------------------------------------------------
RouteInit ==
  /\ routes = NoFile
  /\ routePc = [p \in Proc |-> "idle"]
  /\ goal = [p \in Proc |-> [route |-> LastRoute, set |-> FALSE, setting |-> Default[LastRoute]]]
  /\ routeCopy = [p \in Proc |-> Default]
  /\ resolved = [p \in Proc |-> Default[LastRoute]]
  /\ chosen = Default
  /\ routesMixed = FALSE

AskRoute(p, g) ==
  /\ routePc[p] = "idle"
  /\ goal' = [goal EXCEPT ![p] = g]
  /\ RouteGoto(p, "ensure")
  /\ UNCHANGED <<routes, routeCopy, resolved, chosen, routesMixed>>

\* models route set, whose effort and model profile were found valid
StartSetRoute(p, route, setting) ==
  AskRoute(p, [route |-> route, set |-> TRUE, setting |-> setting])

\* chat once, agents start: the route decides unless an option does.
StartResolve(p, route) ==
  AskRoute(p, [route |-> route, set |-> FALSE, setting |-> Default[route]])

FindNoRoutes(p) ==
  /\ routePc[p] = "ensure" /\ routes = NoFile
  /\ RouteGoto(p, "create")
  /\ RouteMeets(p)
  /\ UNCHANGED <<routes, goal, routeCopy, resolved, chosen>>

\* The file is opened without looking again whether it exists.
CreateRoutes(p) ==
  /\ routePc[p] = "create"
  /\ routes' = Blank
  /\ RouteGoto(p, "default")
  /\ UNCHANGED <<goal, routeCopy, resolved, chosen, routesMixed>>

WriteDefaults(p) ==
  /\ routePc[p] = "default"
  /\ routes' \in Overlaid(routes, Default)
  /\ RouteGoto(p, "ensure")
  /\ UNCHANGED <<goal, routeCopy, resolved, chosen, routesMixed>>

ResolveRoute(p) ==
  /\ routePc[p] = "ensure" /\ routes # NoFile /\ ~goal[p].set
  /\ resolved' = [resolved EXCEPT ![p] = Parsed(routes)[goal[p].route]]
  /\ RouteGoto(p, "idle")
  /\ UNCHANGED <<routes, goal, routeCopy, chosen, routesMixed>>

\* Mutant of ReadForSet: it starts from the defaults, not from the file.
ReadForSetForgets(p) ==
  /\ routePc[p] = "ensure" /\ routes # NoFile /\ goal[p].set
  /\ routeCopy' = [routeCopy EXCEPT ![p] = [Default EXCEPT ![goal[p].route] = goal[p].setting]]
  /\ RouteGoto(p, "open")
  /\ RouteMeets(p)
  /\ UNCHANGED <<routes, goal, resolved, chosen>>

ReadForSet(p) ==
  /\ routePc[p] = "ensure" /\ routes # NoFile /\ goal[p].set
  /\ routeCopy' = [routeCopy EXCEPT ![p] =
                     [Parsed(routes) EXCEPT ![goal[p].route] = goal[p].setting]]
  /\ RouteGoto(p, "open")
  /\ RouteMeets(p)
  /\ UNCHANGED <<routes, goal, resolved, chosen>>

OpenRoutes(p) ==
  /\ routePc[p] = "open"
  /\ routes' = Blank
  /\ RouteGoto(p, "write")
  /\ UNCHANGED <<goal, routeCopy, resolved, chosen, routesMixed>>

WriteRoutes(p) ==
  /\ routePc[p] = "write"
  /\ routes' \in Overlaid(routes, routeCopy[p])
  /\ chosen' = [chosen EXCEPT ![goal[p].route] = goal[p].setting]
  /\ RouteGoto(p, "idle")
  /\ UNCHANGED <<goal, routeCopy, resolved, routesMixed>>

\* The process is killed; what matters is whether it had truncated chosen routes.
KillRoute(p) ==
  /\ RouteGoto(p, "idle")
  /\ routesMixed' = (routesMixed \/ routePc[p] = "write")
  /\ UNCHANGED <<routes, goal, routeCopy, resolved, chosen>>

RouteWork(p) ==
  \/ FindNoRoutes(p) \/ CreateRoutes(p) \/ WriteDefaults(p) \/ ResolveRoute(p)
  \/ ReadForSet(p) \/ OpenRoutes(p) \/ WriteRoutes(p)

RouteNext == \E p \in Proc :
  \/ RouteWork(p) \/ KillRoute(p)
  \/ \E route \in Route :
       StartResolve(p, route) \/ \E setting \in Setting : StartSetRoute(p, route, setting)

RouteSpec == RouteInit /\ [][RouteNext]_routeVars

---------------------------------------------------------------------------
\* The type invariant.
RouteTypeOK ==
  /\ routes \in Routes \cup {NoFile, Blank}
  /\ routePc \in [Proc -> RouteStep]
  /\ goal \in [Proc -> Goal]
  /\ routeCopy \in [Proc -> Routes]
  /\ resolved \in [Proc -> Setting]
  /\ chosen \in Routes
  /\ routesMixed \in BOOLEAN

\* Whoever reads the routes finds each as it was last set, except while the file is being
\* written: a command that sets one route loses no other, and the creation of the defaults
\* overwrites none, unless two commands changed the file at once or one was killed
\* between truncating and writing it (set_route, create_default_routing_config).
RoutesKept ==
  routesMixed \/ Parsed(routes) = chosen \/ \E p \in Proc : routePc[p] = "write"
=============================================================================
