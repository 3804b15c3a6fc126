---------------------------- MODULE UsageLedger ----------------------------
(***************************************************************************)
(* What the usage database promises: running totals per day, per model and *)
(* per agent.  A recorded call is added to the totals it belongs to, and a *)
(* reset empties them all at once.  A cost is unknown as soon as one of    *)
(* the calls behind it has no known cost.                                  *)
(***************************************************************************)
EXTENDS Naturals

CONSTANTS
  DayKey, ModelKey, AgentKey, \* what the three summaries are grouped by
  NoAgent,                    \* a call made for no agent
  TokenCounts,                \* tokens of a call
  Costs,                      \* costs of a call, Unknown among them
  Unknown,
  MaxCalls                    \* bound: calls in a total

VARIABLES byDay, byModel, byAgent

Total == [count : Nat, tokens : Nat, cost : Nat \cup {Unknown}]

Nothing == [count |-> 0, tokens |-> 0, cost |-> 0]

Plus(total, tokens, cost) ==
  [count |-> total.count + 1,
   tokens |-> total.tokens + tokens,
   cost |-> IF total.cost = Unknown \/ cost = Unknown THEN Unknown ELSE total.cost + cost]

Init ==
  /\ byDay = [k \in DayKey |-> Nothing]
  /\ byModel = [k \in ModelKey |-> Nothing]
  /\ byAgent = [k \in AgentKey |-> Nothing]

Record(day, model, agent, tokens, cost) ==
  /\ byDay[day].count < MaxCalls
  /\ byDay' = [byDay EXCEPT ![day] = Plus(@, tokens, cost)]
  /\ byModel' = [byModel EXCEPT ![model] = Plus(@, tokens, cost)]
  /\ byAgent' = [k \in AgentKey |-> IF k = agent THEN Plus(byAgent[k], tokens, cost)
                                                 ELSE byAgent[k]]

Reset ==
  /\ byDay' = [k \in DayKey |-> Nothing]
  /\ byModel' = [k \in ModelKey |-> Nothing]
  /\ byAgent' = [k \in AgentKey |-> Nothing]

Next ==
  \/ \E day \in DayKey, model \in ModelKey, agent \in AgentKey \cup {NoAgent},
        tokens \in TokenCounts, cost \in Costs : Record(day, model, agent, tokens, cost)
  \/ Reset

Spec == Init /\ [][Next]_<<byDay, byModel, byAgent>>
============================================================================
