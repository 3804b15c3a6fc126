----------------------------- MODULE UsageStore -----------------------------
(***************************************************************************)
(* UsageStore over .agentos/usage/usage.db: the event table, the three     *)
(* summary tables that every insertion rebuilds from it in the same        *)
(* transaction, and the readers.  A SQLite transaction is one action; a    *)
(* reader that opens one connection after another, as export_json does,    *)
(* reads each table in a step of its own, and other processes may commit   *)
(* in between.                                                             *)
(***************************************************************************)
EXTENDS Naturals, FiniteSets, Functions, Usage

CONSTANTS
  Id,          \* event ids (random, hence in no order)
  Time,        \* timestamps, numbers in their order
  DayOf,       \* the day of a timestamp
  Session, Owner, Model, Agent,
               \* session, project with profile, provider with model, agent
  NoAgent,     \* agent_id NULL or empty
  Costs,       \* costs of an event, Unknown among them
  NoTable,     \* a part of an export not read yet
  MaxEvents    \* bound: events recorded

ASSUME StoreAssumption ==
  /\ Id \subseteq Nat /\ Time \subseteq Nat
  /\ NoAgent \notin Agent
  /\ Costs \subseteq Nat \cup {Unknown}
  /\ MaxEvents \in Nat

VARIABLES
  usageEvents, \* usage_events
  daily,       \* usage_daily_summary: day and owner to totals
  models,      \* usage_model_summary: model and owner to totals
  agents,      \* usage_agent_summary: agent to totals
  recorded,    \* events recorded so far
  reading,     \* the next table the export reads
  export,      \* the tables it has read
  undisturbed  \* history: nothing was committed since it read the first one

tables == <<usageEvents, daily, models, agents>>
reader == <<reading, export, undisturbed>>
storeVars == <<tables, recorded, reader>>

UsageEvent ==
  [id : Id, time : Time, session : Session, owner : Owner, model : Model,
   agent : Agent \cup {NoAgent}, tokens : TokenCounts, cost : Costs]
Parts == {"events", "daily", "models", "agents", "done"}

---------------------------------------------------------------------------
\* Mutant of Aggregate: SUM alone, which skips NULL.
AggregateKnown(rows) ==
  [count |-> Cardinality(rows),
   tokens |-> SumFunction([e \in rows |-> e.tokens]),
   cost |-> IF \A e \in rows : e.cost = Unknown THEN Unknown
            ELSE SumFunction([e \in rows |-> IF e.cost = Unknown THEN 0 ELSE e.cost])]

\* COUNT(*), SUM(total_tokens) and the CASE around SUM(estimated_cost_usd): NULL when
\* one of the costs is NULL, and NULL for no rows at all.
Aggregate(rows) ==
  [count |-> Cardinality(rows),
   tokens |-> SumFunction([e \in rows |-> e.tokens]),
   cost |-> IF rows = {} \/ \E e \in rows : e.cost = Unknown THEN Unknown
            ELSE SumFunction([e \in rows |-> e.cost])]

\* INSERT ... SELECT ... GROUP BY: one row for each key that occurs.
GroupBy(Key(_), rows) ==
  [k \in {Key(e) : e \in rows} |-> Aggregate({e \in rows : Key(e) = k})]

DailyKey(e) == <<DayOf[e.time], e.owner>>
ModelOwner(e) == <<e.model, e.owner>>

DailyOf(rows) == GroupBy(DailyKey, rows)

\* Mutant of ModelsOf: the profile is left out of the key.
ModelsOfModel(rows) ==
  GroupBy(LAMBDA e : <<e.model, CHOOSE o \in Owner : TRUE>>, rows)

ModelsOf(rows) == GroupBy(ModelOwner, rows)

\* WHERE agent_id IS NOT NULL AND agent_id != ''
AgentsOf(rows) == GroupBy(LAMBDA e : e.agent, {e \in rows : e.agent # NoAgent})

---------------------------------------------------------------------------
StoreInit ==
  /\ usageEvents = {}
  /\ daily = DailyOf({}) /\ models = ModelsOf({}) /\ agents = AgentsOf({})
  /\ recorded = 0
  /\ reading = "done"
  /\ export = [part \in Parts \ {"done"} |-> NoTable]
  /\ undisturbed = TRUE

\* record_event: the row and the rebuilt summaries, in one transaction.
RecordEvent(e) ==
  /\ recorded < MaxEvents
  /\ \A old \in usageEvents : old.id # e.id
  /\ recorded' = recorded + 1
  /\ usageEvents' = usageEvents \cup {e}
  /\ daily' = DailyOf(usageEvents')
  /\ models' = ModelsOf(usageEvents')
  /\ agents' = AgentsOf(usageEvents')
  /\ undisturbed' = FALSE
  /\ UNCHANGED <<reading, export>>

\* Mutant of Reset: the summaries are left to the next insertion.
ResetEventsOnly ==
  /\ usageEvents' = {}
  /\ undisturbed' = FALSE
  /\ UNCHANGED <<daily, models, agents, recorded, reading, export>>

\* reset: four DELETEs in one transaction.
Reset ==
  /\ usageEvents' = {}
  /\ daily' = DailyOf({}) /\ models' = ModelsOf({}) /\ agents' = AgentsOf({})
  /\ undisturbed' = FALSE
  /\ UNCHANGED <<recorded, reading, export>>

\* export_json: events(), daily_summary(), model_summary() and agent_summary(), each
\* on a connection of its own.
BeginExport ==
  /\ reading = "done"
  /\ reading' = "events"
  /\ undisturbed' = TRUE
  /\ export' = [part \in Parts \ {"done"} |-> NoTable]
  /\ UNCHANGED <<tables, recorded>>

ExportPart(part, next) ==
  /\ reading = part
  /\ export' = [export EXCEPT ![part] =
       CASE part = "events" -> usageEvents
         [] part = "daily" -> daily
         [] part = "models" -> models
         [] part = "agents" -> agents]
  /\ reading' = next
  /\ UNCHANGED <<tables, recorded, undisturbed>>

StoreNext ==
  \/ \E e \in UsageEvent : RecordEvent(e)
  \/ Reset
  \/ BeginExport
  \/ ExportPart("events", "daily")
  \/ ExportPart("daily", "models")
  \/ ExportPart("models", "agents")
  \/ ExportPart("agents", "done")

StoreSpec == StoreInit /\ [][StoreNext]_storeVars

---------------------------------------------------------------------------
\* Readers of one table.

\* summary()
Summary == Aggregate(usageEvents)

\* Mutant of TodaySummary: unknown costs are left out of the sum.
TodaySummaryKnown(day) ==
  LET keys == {k \in DOMAIN daily : k[1] = day}
      costs == {k \in keys : daily[k].cost # Unknown} IN
  [count |-> SumFunction([k \in keys |-> daily[k].count]),
   tokens |-> SumFunction([k \in keys |-> daily[k].tokens]),
   cost |-> IF costs = {} THEN Unknown
            ELSE SumFunction([k \in costs |-> daily[k].cost])]

\* today_summary adds up the rows of the day's projects and profiles (_sum_costs);
\* without a row it is an empty summary, whose cost is None.
TodaySummary(day) ==
  LET keys == {k \in DOMAIN daily : k[1] = day} IN
  [count |-> SumFunction([k \in keys |-> daily[k].count]),
   tokens |-> SumFunction([k \in keys |-> daily[k].tokens]),
   cost |-> IF keys = {} \/ \E k \in keys : daily[k].cost = Unknown THEN Unknown
            ELSE SumFunction([k \in keys |-> daily[k].cost])]

\* latest_session_id: ORDER BY timestamp DESC, id DESC LIMIT 1
Newer(a, b) == a.time > b.time \/ (a.time = b.time /\ a.id > b.id)

LatestSession ==
  (CHOOSE e \in usageEvents : \A other \in usageEvents \ {e} : Newer(e, other)).session

\* session_summary of a given session
SessionSummary(session) == Aggregate({e \in usageEvents : e.session = session})

---------------------------------------------------------------------------
\* The type invariant.
Totals == [count : Nat, tokens : Nat, cost : Nat \cup {Unknown}]

IsTable(table, keys) ==
  /\ DOMAIN table \subseteq keys
  /\ \A k \in DOMAIN table : table[k] \in Totals

StoreTypeOK ==
  /\ usageEvents \subseteq UsageEvent
  /\ IsTable(daily, {DayOf[t] : t \in Time} \X Owner)
  /\ IsTable(models, Model \X Owner)
  /\ IsTable(agents, Agent)
  /\ recorded \in 0..MaxEvents
  /\ reading \in Parts
  /\ DOMAIN export = Parts \ {"done"}
  /\ undisturbed \in BOOLEAN

\* An export that nobody committed during is coherent: its three summaries are those
\* of its events (export_json reads the four tables on four connections).
ExportCoherent ==
  reading = "done" /\ undisturbed /\ export["events"] # NoTable =>
    /\ export["daily"] = DailyOf(export["events"])
    /\ export["models"] = ModelsOf(export["events"])
    /\ export["agents"] = AgentsOf(export["events"])

\* All readers tell the same.  Today's summary, added up in Python from the rows of several
\* projects and profiles, is what the day's events add up to in SQL: also its cost, which
\* one unknown cost makes unknown.  The sessions with rows split the total, tokens and cost
\* alike, although SQL adds up a session without rows to NULL, and the session shown when none is
\* named is that of a most recent event (today_summary, _sum_costs, summary,
\* session_summary, latest_session_id).
ReadersAgree ==
  LET seen == {s \in Session : SessionSummary(s).count > 0} IN
  /\ \A t \in Time :
       TodaySummary(DayOf[t]) = Aggregate({e \in usageEvents : DayOf[e.time] = DayOf[t]})
  /\ SumFunction([s \in seen |-> SessionSummary(s).tokens]) = Summary.tokens
  /\ seen # {} =>
       /\ Summary.cost = IF \E s \in seen : SessionSummary(s).cost = Unknown THEN Unknown
                         ELSE SumFunction([s \in seen |-> SessionSummary(s).cost])
       /\ \E e \in usageEvents : /\ e.session = LatestSession
                                 /\ \A other \in usageEvents : other.time <= e.time

\* The tables are the ledger's running totals.
Held(table, keys) ==
  [k \in keys |-> IF k \in DOMAIN table THEN table[k]
                  ELSE [count |-> 0, tokens |-> 0, cost |-> 0]]

Ledger == INSTANCE UsageLedger WITH
  DayKey <- {DayOf[t] : t \in Time} \X Owner,
  ModelKey <- Model \X Owner,
  AgentKey <- Agent,
  MaxCalls <- MaxEvents,
  byDay <- Held(daily, {DayOf[t] : t \in Time} \X Owner),
  byModel <- Held(models, Model \X Owner),
  byAgent <- Held(agents, Agent)

\* Rebuilding every summary from the events at each insertion has the effect of adding
\* each event to its day, its model and its agent, and nothing else (_refresh_summaries).
ImplementsLedger == Ledger!Spec
============================================================================
