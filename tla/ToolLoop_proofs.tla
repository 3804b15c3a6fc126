--------------------------- MODULE ToolLoop_proofs ---------------------------
(***************************************************************************)
(* Proofs about ToolLoop, for any tools, limits, approvals and budgets and *)
(* for plans of any length.                                                *)
(***************************************************************************)
EXTENDS ToolLoop, FiniteSetTheorems, SequenceTheorems, TLAPS

\* The two lines before a handler, or before a refusal, are lines.
LEMMA LineType ==
  ASSUME NEW name \in Name, NEW event \in {"requested", "allowed", "ok", "failed", "blocked"}
  PROVE  [event |-> event, name |-> name] \in Line
BY DEF Line

LEMMA RunLineType ==
  ASSUME NEW event \in {"run_started", "run_completed", "run_failed"}
  PROVE  [event |-> event, name |-> "run"] \in Line
BY DEF Line

\* The handler of a call is entered only if the tool is registered.
Handling == phase = "handling" => current \in Call /\ current.name \in Tool

TypeInv == TypeOK /\ Handling

LEMMA TypeInit == Init => TypeInv
BY ToolAssumption DEF Init, TypeInv, TypeOK, Handling, Phases, Answers

\* A result whose line is lost may or may not have been counted.
LEMMA ResultFaultCounts ==
  ASSUME TypeInv, ResultFault
  PROVE  phase = "handling" /\ counts' \in [Tool -> Nat]
<1>1. phase = "handling" BY DEF ResultFault
<1>2. current.name \in Tool /\ counts \in [Tool -> Nat]
  BY <1>1 DEF TypeInv, TypeOK, Handling
<1>3. counts' = counts \/ counts' = [counts EXCEPT ![current.name] = @ + 1]
  BY DEF ResultFault
<1>4. CASE counts' = counts
  BY <1>1, <1>2, <1>4
<1>5. CASE counts' = [counts EXCEPT ![current.name] = @ + 1]
  BY <1>1, <1>2, <1>5
<1> QED BY <1>3, <1>4, <1>5

LEMMA TypeStep == TypeInv /\ [Next]_vars => TypeInv'
<1> SUFFICES ASSUME TypeInv, [Next]_vars PROVE TypeInv'
  OBVIOUS
<1> USE DEF TypeInv, TypeOK, Handling, run, Phases, Answers, Log
<1>1. CASE UNCHANGED vars
  BY <1>1 DEF vars
<1>2. CASE Begin
  BY <1>2, RunLineType DEF Begin
<1>3. ASSUME NEW n \in 1..MaxPlan, PlanCalls(n) PROVE TypeInv'
  BY <1>3, ToolAssumption DEF PlanCalls
<1>4. ASSUME NEW reason \in {"final", "no_calls"}, PlanStops(reason) PROVE TypeInv'
  BY <1>4 DEF PlanStops
<1>5. CASE PlanRaises
  BY <1>5 DEF PlanRaises
<1>6. CASE NextStep
  BY <1>6 DEF NextStep
<1>7. CASE StopOnBudget
  BY <1>7 DEF StopOnBudget
<1>8. ASSUME NEW c \in Call, Block(c) PROVE TypeInv'
  <2>1. c.name \in Name BY DEF Call
  <2>2. /\ [event |-> "requested", name |-> c.name] \in Line
        /\ [event |-> "blocked", name |-> c.name] \in Line
    BY <2>1, LineType
  <2>3. trace' \in Seq(Line) BY <1>8, <2>2 DEF Block
  <2>4. [name |-> c.name, status |-> "blocked"] \in Result BY <2>1 DEF Result
  <2>5. results' \in Seq(Result) BY <1>8, <2>4 DEF Block
  <2>6. left' \in 0..MaxPlan BY <1>8, ToolAssumption DEF Block, Considering
  <2> QED BY <1>8, <2>3, <2>5, <2>6 DEF Block
<1>9. ASSUME NEW c \in Call, Allow(c) PROVE TypeInv'
  <2>1. c.name \in Name BY DEF Call
  <2>2. /\ [event |-> "requested", name |-> c.name] \in Line
        /\ [event |-> "allowed", name |-> c.name] \in Line
    BY <2>1, LineType
  <2>3. trace' \in Seq(Line) BY <1>9, <2>2 DEF Allow
  <2>4. c.name \in Tool BY <1>9 DEF Allow, Refused
  <2>5. left' \in 0..MaxPlan BY <1>9, ToolAssumption DEF Allow, Considering
  <2> QED BY <1>9, <2>3, <2>4, <2>5 DEF Allow
<1>10. CASE HandlerReturns
  <2>1. current.name \in Tool BY <1>10 DEF HandlerReturns
  <2>2. current.name \in Name BY <2>1 DEF Name
  <2>3. [name |-> current.name, status |-> "ok"] \in Result BY <2>2 DEF Result
  <2>4. [event |-> "ok", name |-> current.name] \in Line BY <2>2, LineType
  <2> QED BY <1>10, <2>1, <2>3, <2>4 DEF HandlerReturns
<1>11. CASE HandlerRaises
  <2>1. current.name \in Name BY <1>11 DEF HandlerRaises, Name
  <2>2. [name |-> current.name, status |-> "failed"] \in Result BY <2>1 DEF Result
  <2>3. [event |-> "failed", name |-> current.name] \in Line BY <2>1, LineType
  <2> QED BY <1>11, <2>2, <2>3 DEF HandlerRaises
<1>12. CASE Complete
  BY <1>12, RunLineType DEF Complete
<1>13. CASE FailRun
  BY <1>13, RunLineType DEF FailRun
<1>14. CASE Escape
  BY <1>14, ToolAssumption DEF Escape, Fault
<1>15. ASSUME NEW c \in Call, NEW kept \in 0..1, RequestFault(c, kept) PROVE TypeInv'
  <2>1. [event |-> "requested", name |-> c.name] \in Line BY LineType DEF Call
  <2> QED BY <1>15, <2>1, ToolAssumption DEF RequestFault, Fault
<1>16. CASE ResultFault
  <2>1. counts' \in [Tool -> Nat] BY <1>16, ResultFaultCounts
  <2> QED BY <1>16, <2>1, ToolAssumption DEF ResultFault, Fault
<1>17. CASE CompleteFault
  BY <1>17, ToolAssumption DEF CompleteFault, Fault
<1> QED BY <1>1, <1>2, <1>3, <1>4, <1>5, <1>6, <1>7, <1>8, <1>9, <1>10, <1>11, <1>12,
           <1>13, <1>14, <1>15, <1>16, <1>17 DEF Next, Advance

\* A run keeps its types, whatever the planner asks for and whatever fails.
THEOREM TypeCorrect == Spec => []TypeOK
<1>1. TypeInv => TypeOK BY DEF TypeInv
<1> QED BY TypeInit, TypeStep, <1>1, PTL DEF Spec

---------------------------------------------------------------------------
\* The budget.  A handler that is running has a result to come, for which there is
\* room; a run that fails because a line after a handler was not written has entered
\* one handler more than it has results.
Budgeted ==
  /\ Len(results) <= budget
  /\ Len(ran) <= budget
  /\ phase \notin {"handling", "failing", "done"} => Len(ran) <= Len(results)
  /\ phase = "handling" => Len(results) < budget /\ Len(ran) <= Len(results) + 1
  /\ step <= budget \/ budget = 0

LEMMA BudgetedInit == Init => Budgeted
BY ToolAssumption DEF Init, Budgeted

LEMMA BudgetedStep == TypeInv /\ Budgeted /\ [Next]_vars => Budgeted'
<1> SUFFICES ASSUME TypeInv, Budgeted, [Next]_vars PROVE Budgeted'
  OBVIOUS
<1>1. /\ results \in Seq(Result) /\ ran \in Seq(Call)
      /\ budget \in Nat /\ step \in Nat /\ phase \in Phases
  BY ToolAssumption DEF TypeInv, TypeOK
<1>2. Len(results) \in Nat /\ Len(ran) \in Nat
  BY <1>1
<1> USE <1>1, <1>2 DEF Budgeted, run, Phases
<1>3. ASSUME UNCHANGED <<budget, step, results, ran>>,
             phase' = phase \/ phase \notin {"handling", "failing", "done"}
                            \/ phase' \in {"failing", "done"},
             phase' = phase \/ phase' # "handling"
      PROVE  Budgeted'
  BY <1>3
<1>4. CASE UNCHANGED vars
  BY <1>4 DEF vars
<1>5. CASE Begin
  BY <1>5, <1>3 DEF Begin
<1>6. ASSUME NEW n \in 1..MaxPlan, PlanCalls(n) PROVE Budgeted'
  BY <1>6, <1>3 DEF PlanCalls
<1>7. ASSUME NEW reason \in {"final", "no_calls"}, PlanStops(reason) PROVE Budgeted'
  BY <1>7, <1>3 DEF PlanStops
<1>8. CASE PlanRaises
  BY <1>8, <1>3 DEF PlanRaises
<1>9. CASE NextStep
  BY <1>9 DEF NextStep
<1>10. CASE StopOnBudget
  BY <1>10, <1>3 DEF StopOnBudget
<1>11. ASSUME NEW c \in Call, Block(c) PROVE Budgeted'
  <2>1. Len(results') = Len(results) + 1 /\ Len(results) < budget
    BY <1>11 DEF Block, Considering, BudgetSpent
  <2> QED BY <1>11, <2>1 DEF Block, Considering
<1>12. ASSUME NEW c \in Call, Allow(c) PROVE Budgeted'
  <2>1. Len(ran') = Len(ran) + 1 /\ Len(results) < budget
    BY <1>12 DEF Allow, Considering, BudgetSpent
  <2> QED BY <1>12, <2>1 DEF Allow, Considering
<1>13. CASE HandlerReturns
  <2>1. Len(results') = Len(results) + 1 BY <1>13 DEF HandlerReturns
  <2> QED BY <1>13, <2>1 DEF HandlerReturns
<1>14. CASE HandlerRaises
  <2>1. Len(results') = Len(results) + 1 BY <1>14 DEF HandlerRaises
  <2> QED BY <1>14, <2>1 DEF HandlerRaises
<1>15. CASE Complete
  BY <1>15, <1>3 DEF Complete
<1>16. CASE FailRun
  BY <1>16, <1>3 DEF FailRun
<1>17. CASE Escape
  BY <1>17, <1>3 DEF Escape
<1>18. ASSUME NEW c \in Call, NEW kept \in 0..1, RequestFault(c, kept) PROVE Budgeted'
  BY <1>18, <1>3 DEF RequestFault
<1>19. CASE ResultFault
  BY <1>19, <1>3 DEF ResultFault
<1>20. CASE CompleteFault
  BY <1>20, <1>3 DEF CompleteFault
<1> QED BY <1>4, <1>5, <1>6, <1>7, <1>8, <1>9, <1>10, <1>11, <1>12, <1>13, <1>14, <1>15,
           <1>16, <1>17, <1>18, <1>19, <1>20 DEF Next, Advance

\* However long the plans are, a run gets no more results and enters no more handlers
\* than its budget allows.
THEOREM BudgetHolds == Spec => []WithinBudget
<1>1. Budgeted => WithinBudget BY DEF Budgeted, WithinBudget
<1> QED BY TypeInit, TypeStep, BudgetedInit, BudgetedStep, <1>1, PTL DEF Spec

---------------------------------------------------------------------------
\* Only permitted calls reach a handler.
LEMMA NotRefusedIsPermitted ==
  ASSUME TypeInv, NEW c \in Call, ~Refused(c)
  PROVE  Permitted(c)
BY DEF Refused, Permitted, Call, Args

LEMMA PermittedStep == TypeInv /\ OnlyPermittedRun /\ [Next]_vars => OnlyPermittedRun'
<1> SUFFICES ASSUME TypeInv, OnlyPermittedRun, [Next]_vars PROVE OnlyPermittedRun'
  OBVIOUS
<1>1. ran \in Seq(Call) BY DEF TypeInv, TypeOK
<1>2. ASSUME UNCHANGED <<approvals, ran>> PROVE OnlyPermittedRun'
  BY <1>2 DEF OnlyPermittedRun, Permitted
<1>3. ASSUME NEW c \in Call, Allow(c) PROVE OnlyPermittedRun'
  <2>1. Permitted(c) BY <1>3, NotRefusedIsPermitted DEF Allow
  <2>2. approvals' = approvals BY <1>3 DEF Allow, run
  <2>3. ran' = Append(ran, c) BY <1>3 DEF Allow
  <2>4. ASSUME NEW i \in DOMAIN ran' PROVE ran'[i] = c \/ (i \in DOMAIN ran /\ ran'[i] = ran[i])
    BY <1>1, <2>3
  <2>5. ASSUME NEW i \in DOMAIN ran' PROVE Permitted(ran'[i])
    BY <2>1, <2>4 DEF OnlyPermittedRun
  <2> QED BY <2>2, <2>5 DEF OnlyPermittedRun, Permitted
<1>4. ASSUME ~\E c \in Call : Allow(c) PROVE UNCHANGED <<approvals, ran>>
  BY <1>4 DEF Next, Advance, vars, run, Begin, PlanCalls, PlanStops, PlanRaises, NextStep,
     StopOnBudget, Block, HandlerReturns, HandlerRaises, Complete, FailRun, Escape,
     RequestFault, ResultFault, CompleteFault
<1> QED BY <1>2, <1>3, <1>4

\* Whatever a planner asks for, and in whatever order, no handler is entered with a
\* call that the registry, a risk level, the policies or a missing approval forbid.
THEOREM OnlyPermitted == Spec => []OnlyPermittedRun
<1>1. Init => OnlyPermittedRun BY DEF Init, OnlyPermittedRun
<1> QED BY TypeInit, TypeStep, PermittedStep, <1>1, PTL DEF Spec

---------------------------------------------------------------------------
\* Where a sequence has elements of a set.
Among(s, T) == {i \in DOMAIN s : s[i] \in T}

\* How many there are after one more element is appended.
LEMMA CountAppend ==
  ASSUME NEW S, NEW s \in Seq(S), NEW e \in S, NEW T
  PROVE  /\ Cardinality(Among(s, T)) \in Nat
         /\ Cardinality(Among(Append(s, e), T)) =
              IF e \in T THEN Cardinality(Among(s, T)) + 1 ELSE Cardinality(Among(s, T))
<1> DEFINE old == Among(s, T)
           new == Among(Append(s, e), T)
<1>1. Len(s) \in Nat /\ DOMAIN s = 1..Len(s) OBVIOUS
<1>2. IsFiniteSet(1..Len(s)) BY <1>1, FS_Interval
<1>3. IsFiniteSet(old) /\ Cardinality(old) \in Nat
  BY <1>1, <1>2, FS_Subset, FS_CardinalityType DEF Among
<1>4. /\ DOMAIN Append(s, e) = 1..(Len(s) + 1)
      /\ Append(s, e)[Len(s) + 1] = e
      /\ \A i \in 1..Len(s) : Append(s, e)[i] = s[i]
  BY <1>1
<1>5. CASE e \in T
  <2>1. new = old \cup {Len(s) + 1} BY <1>1, <1>4, <1>5 DEF Among
  <2>2. Len(s) + 1 \notin old BY <1>1 DEF Among
  <2> QED BY <1>3, <1>5, <2>1, <2>2, FS_AddElement
<1>6. CASE e \notin T
  <2>1. new = old BY <1>1, <1>4, <1>6 DEF Among
  <2> QED BY <1>3, <1>6, <2>1
<1> QED BY <1>3, <1>5, <1>6

\* Any part of the positions of the results can be counted.
LEMMA ResultsCount ==
  ASSUME TypeInv, NEW part \in SUBSET DOMAIN results
  PROVE  Cardinality(part) \in Nat
<1>1. Len(results) \in Nat /\ DOMAIN results = 1..Len(results) BY DEF TypeInv, TypeOK
<1>2. IsFiniteSet(DOMAIN results) BY <1>1, FS_Interval
<1> QED BY <1>2, FS_Subset, FS_CardinalityType

\* What one more result does to the two counts of results the properties use.
LEMMA OkAppend ==
  ASSUME TypeInv, NEW r \in Result, results' = Append(results, r), NEW t \in Tool
  PROVE  /\ OkResults(t) \in Nat
         /\ OkResults(t)' = IF r.name = t /\ r.status = "ok" THEN OkResults(t) + 1
                             ELSE OkResults(t)
<1> DEFINE T == {x \in Result : x.name = t /\ x.status = "ok"}
           old == Among(results, T)
           new == Among(results', T)
<1>1. results \in Seq(Result) /\ results' \in Seq(Result)
  BY DEF TypeInv, TypeOK
<1>2. Cardinality(old) \in Nat
      /\ Cardinality(new) = IF r \in T THEN Cardinality(old) + 1 ELSE Cardinality(old)
  <2> HIDE DEF T
  <2> QED BY <1>1, CountAppend
<1>3. OkResults(t) = Cardinality(old)
  <2>1. {i \in DOMAIN results : results[i].name = t /\ results[i].status = "ok"} = old
    BY <1>1 DEF Among
  <2> QED BY <2>1 DEF OkResults
<1>4. OkResults(t)' = Cardinality(new)
  <2>1. {i \in DOMAIN results' : results'[i].name = t /\ results'[i].status = "ok"} = new
    BY <1>1 DEF Among
  <2> QED BY <2>1 DEF OkResults
<1> QED BY <1>2, <1>3, <1>4

LEMMA HandledAppend ==
  ASSUME TypeInv, NEW r \in Result, results' = Append(results, r)
  PROVE  /\ Handled \in Nat
         /\ Handled' = IF r.status # "blocked" THEN Handled + 1 ELSE Handled
<1> DEFINE T == {x \in Result : x.status # "blocked"}
           old == Among(results, T)
           new == Among(results', T)
<1>1. results \in Seq(Result) /\ results' \in Seq(Result)
  BY DEF TypeInv, TypeOK
<1>2. Cardinality(old) \in Nat
      /\ Cardinality(new) = IF r \in T THEN Cardinality(old) + 1 ELSE Cardinality(old)
  <2> HIDE DEF T
  <2> QED BY <1>1, CountAppend
<1>3. Handled = Cardinality(old)
  <2>1. {i \in DOMAIN results : results[i].status # "blocked"} = old
    BY <1>1 DEF Among
  <2> QED BY <2>1 DEF Handled
<1>4. Handled' = Cardinality(new)
  <2>1. {i \in DOMAIN results' : results'[i].status # "blocked"} = new
    BY <1>1 DEF Among
  <2> QED BY <2>1 DEF Handled
<1> QED BY <1>2, <1>3, <1>4

---------------------------------------------------------------------------
\* The limit of calls per tool.  A handler that is running was let through when its
\* tool had a call left, and nothing else counts while it runs.
Limited ==
  /\ CallsLimited
  /\ phase = "handling" => counts[current.name] < MaxCalls[current.name]

LEMMA LimitedInit == Init => Limited
<1> SUFFICES ASSUME Init PROVE Limited OBVIOUS
<1>1. ASSUME NEW t \in Tool PROVE OkResults(t) = 0
  <2>1. {i \in DOMAIN results : results[i].name = t /\ results[i].status = "ok"} = {}
    BY DEF Init
  <2> QED BY <2>1, FS_EmptySet DEF OkResults
<1>2. ASSUME NEW t \in Tool PROVE counts[t] = 0 /\ MaxCalls[t] \in Nat
  BY ToolAssumption DEF Init
<1>3. CallsLimited BY <1>1, <1>2 DEF CallsLimited
<1> QED BY <1>3 DEF Init, Limited

LEMMA LimitedStep == TypeInv /\ Limited /\ [Next]_vars => Limited'
<1> SUFFICES ASSUME TypeInv, Limited, [Next]_vars PROVE Limited'
  OBVIOUS
<1>1. /\ counts \in [Tool -> Nat] /\ MaxCalls \in [Tool -> Nat]
      /\ phase = "handling" => current \in Call /\ current.name \in Tool /\ current.name \in Name
      /\ \A t \in Tool : OkResults(t) <= counts[t] /\ counts[t] <= MaxCalls[t]
  BY ToolAssumption DEF TypeInv, TypeOK, Handling, Limited, CallsLimited, Name
<1>2. ASSUME UNCHANGED <<results, counts>>, phase' # "handling" \/ UNCHANGED <<phase, current>>
      PROVE  Limited'
  BY <1>2 DEF Limited, CallsLimited, OkResults
<1>3. ASSUME NEW c \in Call, Block(c) PROVE Limited'
  <2> DEFINE r == [name |-> c.name, status |-> "blocked"]
  <2>1. r \in Result BY DEF Call, Result
  <2>2. results' = Append(results, r) BY <1>3 DEF Block
  <2>3. counts' = counts /\ phase' # "handling" BY <1>3 DEF Block, Considering
  <2>4. ASSUME NEW t \in Tool PROVE OkResults(t)' = OkResults(t)
    BY <2>1, <2>2, OkAppend
  <2> QED BY <1>1, <2>3, <2>4 DEF Limited, CallsLimited
<1>4. ASSUME NEW c \in Call, Allow(c) PROVE Limited'
  <2>1. c.name \in Tool /\ counts[c.name] < MaxCalls[c.name]
    BY <1>1, <1>4 DEF Allow, Refused
  <2>2. UNCHANGED <<results, counts>> /\ current' = c
    BY <1>4 DEF Allow
  <2> QED BY <2>1, <2>2 DEF Limited, CallsLimited, OkResults
<1>5. CASE HandlerReturns
  <2> DEFINE r == [name |-> current.name, status |-> "ok"]
  <2>1. /\ current.name \in Tool /\ current.name \in Name
        /\ counts[current.name] < MaxCalls[current.name]
    BY <1>1, <1>5 DEF HandlerReturns, Limited
  <2>2. r \in Result BY <2>1 DEF Result
  <2>3. results' = Append(results, r) BY <1>5 DEF HandlerReturns
  <2>4. counts' = [counts EXCEPT ![current.name] = counts[current.name] + 1] /\ phase' = "act"
    BY <1>5 DEF HandlerReturns
  <2>5. ASSUME NEW t \in Tool
        PROVE  /\ OkResults(t) \in Nat
               /\ OkResults(t)' = IF current.name = t THEN OkResults(t) + 1 ELSE OkResults(t)
    BY <2>2, <2>3, OkAppend
  <2>6. ASSUME NEW t \in Tool
        PROVE  OkResults(t)' <= counts'[t] /\ counts'[t] <= MaxCalls[t]
    BY <1>1, <2>1, <2>4, <2>5
  <2> QED BY <2>4, <2>6 DEF Limited, CallsLimited
<1>6. CASE HandlerRaises
  <2> DEFINE r == [name |-> current.name, status |-> "failed"]
  <2>1. r \in Result BY <1>1, <1>6 DEF HandlerRaises, Result
  <2>2. results' = Append(results, r) BY <1>6 DEF HandlerRaises
  <2>3. counts' = counts /\ phase' = "act" BY <1>6 DEF HandlerRaises
  <2>4. ASSUME NEW t \in Tool PROVE OkResults(t)' = OkResults(t)
    BY <2>1, <2>2, OkAppend
  <2> QED BY <1>1, <2>3, <2>4 DEF Limited, CallsLimited
<1>7. CASE ResultFault
  <2>1. phase = "handling" /\ phase' # "handling" BY <1>7 DEF ResultFault
  <2>2. current.name \in Tool /\ counts[current.name] < MaxCalls[current.name]
    BY <1>1, <2>1 DEF Limited
  <2>3. counts' = counts \/ counts' = [counts EXCEPT ![current.name] = counts[current.name] + 1]
    BY <1>7 DEF ResultFault
  <2>4. results' = results BY <1>7 DEF ResultFault
  <2>5. ASSUME NEW t \in Tool PROVE OkResults(t)' = OkResults(t)
    BY <2>4 DEF OkResults
  <2>6. ASSUME NEW t \in Tool PROVE OkResults(t) \in Nat
    BY ResultsCount DEF OkResults
  <2>7. ASSUME NEW t \in Tool
        PROVE  OkResults(t)' <= counts'[t] /\ counts'[t] <= MaxCalls[t]
    <3>1. CASE counts' = counts BY <1>1, <2>5, <3>1
    <3>2. CASE counts' = [counts EXCEPT ![current.name] = counts[current.name] + 1]
      BY <1>1, <2>2, <2>5, <2>6, <3>2
    <3> QED BY <2>3, <3>1, <3>2
  <2> QED BY <2>1, <2>7 DEF Limited, CallsLimited
<1>8. CASE UNCHANGED vars
  BY <1>2, <1>8 DEF vars
<1>9. CASE Begin
  BY <1>2, <1>9 DEF Begin
<1>10. ASSUME NEW n \in 1..MaxPlan, PlanCalls(n) PROVE Limited'
  BY <1>2, <1>10 DEF PlanCalls
<1>11. ASSUME NEW reason \in {"final", "no_calls"}, PlanStops(reason) PROVE Limited'
  BY <1>2, <1>11 DEF PlanStops
<1>12. CASE PlanRaises \/ NextStep \/ StopOnBudget
  BY <1>2, <1>12 DEF PlanRaises, NextStep, StopOnBudget
<1>13. CASE Complete \/ FailRun \/ Escape \/ CompleteFault
  BY <1>2, <1>13 DEF Complete, FailRun, Escape, CompleteFault
<1>14. ASSUME NEW c \in Call, NEW kept \in 0..1, RequestFault(c, kept) PROVE Limited'
  BY <1>2, <1>14 DEF RequestFault
<1> QED BY <1>3, <1>4, <1>5, <1>6, <1>7, <1>8, <1>9, <1>10, <1>11, <1>12, <1>13, <1>14
        DEF Next, Advance

\* No tool returns more results in a run than its limit, also when results are lost.
THEOREM LimitHolds == Spec => []CallsLimited
<1>1. Limited => CallsLimited BY DEF Limited
<1> QED BY TypeInit, TypeStep, LimitedInit, LimitedStep, <1>1, PTL DEF Spec

---------------------------------------------------------------------------
\* Handlers and results.  A run whose last handler has no result is handling it or
\* failing because of it, and has no answer.
Kept ==
  /\ Len(ran) = Handled \/ Len(ran) = Handled + 1
  /\ phase = "handling" => Len(ran) = Handled + 1
  /\ Len(ran) # Handled =>
       \/ phase \in {"handling", "failing"} /\ answer = "none"
       \/ phase = "done" /\ answer \in {"none", "error"}
  /\ phase \in {"start", "plan", "act", "handling"} => answer = "none"

LEMMA HandledType == TypeInv => Handled \in Nat
BY ResultsCount DEF Handled

LEMMA KeptInit == Init => Kept
<1> SUFFICES ASSUME Init PROVE Kept OBVIOUS
<1>1. {i \in DOMAIN results : results[i].status # "blocked"} = {} BY DEF Init
<1>2. Handled = 0 BY <1>1, FS_EmptySet DEF Handled
<1> QED BY <1>2 DEF Init, Kept

LEMMA KeptStep == TypeInv /\ Kept /\ [Next]_vars => Kept'
<1> SUFFICES ASSUME TypeInv, Kept, [Next]_vars PROVE Kept'
  OBVIOUS
<1>1. /\ Handled \in Nat /\ Len(ran) \in Nat
      /\ phase \in Phases /\ ran \in Seq(Call)
  BY HandledType DEF TypeInv, TypeOK
<1>2. ASSUME UNCHANGED <<results, ran>> PROVE Handled' = Handled /\ Len(ran') = Len(ran)
  BY <1>2 DEF Handled
<1> USE DEF Kept, Phases
<1>3. ASSUME NEW c \in Call, Block(c) PROVE Kept'
  <2> DEFINE r == [name |-> c.name, status |-> "blocked"]
  <2>1. r \in Result BY DEF Call, Result
  <2>2. results' = Append(results, r) BY <1>3 DEF Block
  <2>3. Handled' = Handled BY <2>1, <2>2, HandledAppend
  <2> QED BY <1>1, <1>3, <2>3 DEF Block, Considering
<1>4. ASSUME NEW c \in Call, Allow(c) PROVE Kept'
  <2>1. Len(ran') = Len(ran) + 1 BY <1>1, <1>4 DEF Allow
  <2>2. Handled' = Handled BY <1>4 DEF Allow, Handled
  <2> QED BY <1>1, <1>4, <2>1, <2>2 DEF Allow, Considering
<1>5. CASE HandlerReturns
  <2> DEFINE r == [name |-> current.name, status |-> "ok"]
  <2>1. r \in Result BY <1>5 DEF HandlerReturns, Result, TypeInv, Handling, Name
  <2>2. results' = Append(results, r) BY <1>5 DEF HandlerReturns
  <2>3. Handled' = Handled + 1 BY <2>1, <2>2, HandledAppend
  <2> QED BY <1>1, <1>5, <2>3 DEF HandlerReturns
<1>6. CASE HandlerRaises
  <2> DEFINE r == [name |-> current.name, status |-> "failed"]
  <2>1. r \in Result BY <1>6 DEF HandlerRaises, Result, TypeInv, Handling, Name
  <2>2. results' = Append(results, r) BY <1>6 DEF HandlerRaises
  <2>3. Handled' = Handled + 1 BY <2>1, <2>2, HandledAppend
  <2> QED BY <1>1, <1>6, <2>3 DEF HandlerRaises
<1>7. CASE ResultFault
  BY <1>1, <1>2, <1>7 DEF ResultFault
<1>8. CASE UNCHANGED vars
  BY <1>1, <1>2, <1>8 DEF vars
<1>9. CASE Begin
  BY <1>1, <1>2, <1>9 DEF Begin
<1>10. ASSUME NEW n \in 1..MaxPlan, PlanCalls(n) PROVE Kept'
  BY <1>1, <1>2, <1>10 DEF PlanCalls
<1>11. ASSUME NEW reason \in {"final", "no_calls"}, PlanStops(reason) PROVE Kept'
  BY <1>1, <1>2, <1>11 DEF PlanStops
<1>12. CASE PlanRaises \/ NextStep \/ StopOnBudget
  BY <1>1, <1>2, <1>12 DEF PlanRaises, NextStep, StopOnBudget
<1>13. CASE Complete \/ FailRun \/ Escape \/ CompleteFault
  BY <1>1, <1>2, <1>13 DEF Complete, FailRun, Escape, CompleteFault
<1>14. ASSUME NEW c \in Call, NEW kept \in 0..1, RequestFault(c, kept) PROVE Kept'
  BY <1>1, <1>2, <1>14 DEF RequestFault, Considering
<1> QED BY <1>3, <1>4, <1>5, <1>6, <1>7, <1>8, <1>9, <1>10, <1>11, <1>12, <1>13, <1>14
        DEF Next, Advance

\* The effects of a handler never disappear from a run that ends as completed.
THEOREM NothingLost == Spec => []NothingLostSilently
<1>1. Kept => NothingLostSilently BY DEF Kept, NothingLostSilently
<1> QED BY TypeInit, TypeStep, KeptInit, KeptStep, <1>1, PTL DEF Spec

---------------------------------------------------------------------------
\* The lines of the trace file and the results.

\* The telling lines can be counted, and so can those up to a place; all of them are
\* those up to the end.
LEMMA ToldCount ==
  ASSUME NEW lines \in Seq(Line), NEW i \in Nat
  PROVE  /\ IsFiniteSet(Told(lines)) /\ Cardinality(Told(lines)) \in Nat
         /\ Told(lines) \in SUBSET (1..Len(lines))
         /\ {j \in Told(lines) : j <= i} \in SUBSET Told(lines)
         /\ Len(lines) <= i => {j \in Told(lines) : j <= i} = Told(lines)
<1>1. Len(lines) \in Nat /\ DOMAIN lines = 1..Len(lines) OBVIOUS
<1>2. Told(lines) \in SUBSET (1..Len(lines)) BY <1>1 DEF Told
<1>3. IsFiniteSet(Told(lines)) /\ Cardinality(Told(lines)) \in Nat
  <2>1. IsFiniteSet(1..Len(lines)) BY <1>1, FS_Interval
  <2>2. IsFiniteSet(Told(lines)) BY <1>2, <2>1, FS_Subset
  <2> QED BY <2>2, FS_CardinalityType
<1>4. Len(lines) <= i => {j \in Told(lines) : j <= i} = Told(lines)
  BY <1>1, <1>2
<1> QED BY <1>2, <1>3, <1>4

\* Of the telling lines, the place of each among the results is one of the results.
LEMMA ToldPlace ==
  ASSUME NEW lines \in Seq(Line), NEW i \in Told(lines)
  PROVE  Cardinality({j \in Told(lines) : j <= i}) \in 1..Cardinality(Told(lines))
<1> DEFINE upto == {j \in Told(lines) : j <= i}
<1>1. i \in Nat BY DEF Told
<1>2. /\ IsFiniteSet(Told(lines)) /\ Cardinality(Told(lines)) \in Nat
      /\ upto \in SUBSET Told(lines)
  BY <1>1, ToldCount
<1>3. i \in upto BY <1>1
<1>4. IsFiniteSet(upto) /\ Cardinality(upto) <= Cardinality(Told(lines))
  BY <1>2, FS_Subset
<1>5. Cardinality(upto) \in Nat BY <1>4, FS_CardinalityType
<1>6. Cardinality(upto) # 0 BY <1>3, <1>4, FS_EmptySet
<1> QED BY <1>2, <1>4, <1>5, <1>6

\* Two lines at once are one after the other.
LEMMA TwoLines ==
  ASSUME NEW S, NEW s \in Seq(S), NEW a \in S, NEW b \in S
  PROVE  s \o <<a, b>> = Append(Append(s, a), b) /\ Append(s, a) \in Seq(S)
<1>1. Len(s) \in Nat /\ DOMAIN s = 1..Len(s) OBVIOUS
<1>2. /\ Append(s, a) \in Seq(S) /\ Len(Append(s, a)) = Len(s) + 1
      /\ Append(Append(s, a), b) \in Seq(S) /\ Len(Append(Append(s, a), b)) = Len(s) + 2
  BY <1>1
<1>3. s \o <<a, b>> \in Seq(S) /\ Len(s \o <<a, b>>) = Len(s) + 2 BY <1>1
<1>4. \A i \in 1..(Len(s) + 2) : (s \o <<a, b>>)[i] = Append(Append(s, a), b)[i]
  BY <1>1
<1> QED BY <1>2, <1>3, <1>4, SeqEqual

\* A line that tells no result changes nothing in what the file tells.
LEMMA TellNothing ==
  ASSUME NEW lines \in Seq(Line), NEW rs \in Seq(Result), NEW l \in Line, Tells(lines, rs),
         l.event \notin {"ok", "failed", "blocked"}
  PROVE  Tells(Append(lines, l), rs)
<1> DEFINE more == Append(lines, l)
<1>1. /\ DOMAIN lines = 1..Len(lines) /\ Len(lines) \in Nat
      /\ DOMAIN more = 1..(Len(lines) + 1) /\ more[Len(lines) + 1] = l
      /\ \A i \in 1..Len(lines) : more[i] = lines[i]
  OBVIOUS
<1>2. Told(more) = Told(lines) BY <1>1 DEF Told
<1>3. \A i \in Told(lines) : more[i] = lines[i] BY <1>1 DEF Told
<1> SUFFICES Tells(more, rs) OBVIOUS
<1> HIDE DEF more
<1>4. Told(lines) = Told(more) => Cardinality(Told(more)) = Len(rs) BY DEF Tells
<1>5. ASSUME NEW i \in Told(more)
      PROVE  LET k == Cardinality({j \in Told(more) : j <= i}) IN
             more[i].name = rs[k].name /\ more[i].event = rs[k].status
  BY <1>2, <1>3, <1>5 DEF Tells
<1> QED BY <1>2, <1>4, <1>5 DEF Tells

\* A line that tells a result, written with it, tells that result.
LEMMA TellResult ==
  ASSUME NEW lines \in Seq(Line), NEW rs \in Seq(Result), NEW r \in Result,
         NEW l \in Line, Tells(lines, rs), l.event = r.status, l.name = r.name
  PROVE  Tells(Append(lines, l), Append(rs, r))
<1> DEFINE more == Append(lines, l)
           new  == Append(rs, r)
           last == Len(lines) + 1
<1>1. /\ DOMAIN lines = 1..Len(lines) /\ Len(lines) \in Nat
      /\ DOMAIN more = 1..last /\ more[last] = l
      /\ \A i \in 1..Len(lines) : more[i] = lines[i]
  OBVIOUS
<1>2. /\ Len(rs) \in Nat /\ Len(new) = Len(rs) + 1 /\ new[Len(rs) + 1] = r
      /\ \A k \in 1..Len(rs) : new[k] = rs[k]
  OBVIOUS
<1>3. l.event \in {"ok", "failed", "blocked"} BY DEF Result
<1> SUFFICES Tells(more, new) OBVIOUS
<1> HIDE DEF more, new
<1>4. Told(more) = Told(lines) \cup {last} BY <1>1, <1>3 DEF Told
<1>5. /\ IsFiniteSet(Told(lines)) /\ Cardinality(Told(lines)) = Len(rs)
      /\ Told(lines) \in SUBSET (1..Len(lines))
  BY <1>1, ToldCount DEF Tells
<1>6. last \notin Told(lines) BY <1>1, <1>5
<1>7. Cardinality(Told(more)) = Len(new)
  <2>1. Cardinality(Told(lines) \cup {last}) = Cardinality(Told(lines)) + 1
    BY <1>5, <1>6, FS_AddElement
  <2> QED BY <1>2, <1>4, <1>5, <2>1
<1>8. ASSUME NEW i \in Told(more)
      PROVE  LET k == Cardinality({j \in Told(more) : j <= i}) IN
             more[i].name = new[k].name /\ more[i].event = new[k].status
  <2>1. CASE i = last
    <3>1. {j \in Told(more) : j <= i} = Told(more) BY <1>1, <1>4, <1>5, <2>1
    <3> QED BY <1>1, <1>2, <1>7, <2>1, <3>1
  <2>2. CASE i \in Told(lines)
    <3> DEFINE k == Cardinality({j \in Told(lines) : j <= i})
    <3>1. {j \in Told(more) : j <= i} = {j \in Told(lines) : j <= i}
      BY <1>1, <1>4, <1>5, <2>2
    <3>2. k \in 1..Len(rs) BY <1>5, <2>2, ToldPlace
    <3>3. new[k] = rs[k] BY <1>2, <3>2
    <3>4. more[i] = lines[i] BY <1>1, <1>5, <2>2
    <3>5. lines[i].name = rs[k].name /\ lines[i].event = rs[k].status
      BY <2>2 DEF Tells
    <3> QED BY <3>1, <3>3, <3>4, <3>5
  <2> QED BY <1>4, <2>1, <2>2
<1> QED BY <1>7, <1>8 DEF Tells

LEMMA TellsInit == Init => TraceTellsResults
<1> SUFFICES ASSUME Init PROVE TraceTellsResults OBVIOUS
<1>1. Told(trace) = {} BY DEF Init, Told
<1>2. Len(results) = 0 BY DEF Init
<1> QED BY <1>1, <1>2, FS_EmptySet DEF TraceTellsResults, Tells

LEMMA TellsStep == TypeInv /\ TraceTellsResults /\ [Next]_vars => TraceTellsResults'
<1> SUFFICES ASSUME TypeInv, TraceTellsResults, [Next]_vars PROVE TraceTellsResults'
  OBVIOUS
<1>1. trace \in Seq(Line) /\ results \in Seq(Result) /\ Tells(trace, results)
  BY DEF TypeInv, TypeOK, TraceTellsResults
<1>2. ASSUME UNCHANGED <<trace, results>> PROVE TraceTellsResults'
  BY <1>2 DEF TraceTellsResults
<1>3. ASSUME NEW l \in Line, l.event \notin {"ok", "failed", "blocked"},
             trace' = Append(trace, l), results' = results
      PROVE  TraceTellsResults'
  BY <1>1, <1>3, TellNothing DEF TraceTellsResults
<1>4. ASSUME NEW c \in Call, Block(c) PROVE TraceTellsResults'
  <2> DEFINE a == [event |-> "requested", name |-> c.name]
             b == [event |-> "blocked", name |-> c.name]
             r == [name |-> c.name, status |-> "blocked"]
  <2>1. a \in Line /\ b \in Line BY LineType DEF Call
  <2>2. r \in Result BY DEF Call, Result
  <2>3. a.event \notin {"ok", "failed", "blocked"} /\ b.event = r.status /\ b.name = r.name
    OBVIOUS
  <2>4. trace' = trace \o <<a, b>> /\ results' = Append(results, r) BY <1>4 DEF Block
  <2> HIDE DEF a, b, r
  <2>5. trace' = Append(Append(trace, a), b) BY <1>1, <2>1, <2>4, TwoLines
  <2>6. Append(trace, a) \in Seq(Line) BY <1>1, <2>1, TwoLines
  <2>7. Tells(Append(trace, a), results) BY <1>1, <2>1, <2>3, TellNothing
  <2>8. Tells(Append(Append(trace, a), b), Append(results, r))
    BY <1>1, <2>1, <2>2, <2>3, <2>6, <2>7, TellResult
  <2> QED BY <2>4, <2>5, <2>8 DEF TraceTellsResults
<1>5. ASSUME NEW c \in Call, Allow(c) PROVE TraceTellsResults'
  <2> DEFINE a == [event |-> "requested", name |-> c.name]
             b == [event |-> "allowed", name |-> c.name]
  <2>1. a \in Line /\ b \in Line BY LineType DEF Call
  <2>2. /\ a.event \notin {"ok", "failed", "blocked"}
        /\ b.event \notin {"ok", "failed", "blocked"}
    OBVIOUS
  <2>3. trace' = trace \o <<a, b>> /\ results' = results BY <1>5 DEF Allow
  <2> HIDE DEF a, b
  <2>4. trace' = Append(Append(trace, a), b) BY <1>1, <2>1, <2>3, TwoLines
  <2>5. Append(trace, a) \in Seq(Line) BY <1>1, <2>1, TwoLines
  <2>6. Tells(Append(trace, a), results) BY <1>1, <2>1, <2>2, TellNothing
  <2>7. Tells(Append(Append(trace, a), b), results)
    BY <1>1, <2>1, <2>2, <2>5, <2>6, TellNothing
  <2> QED BY <2>3, <2>4, <2>7 DEF TraceTellsResults
<1>6. ASSUME NEW event \in {"ok", "failed"}, phase = "handling", Log(event, current.name),
             results' = Append(results, [name |-> current.name, status |-> event])
      PROVE  TraceTellsResults'
  <2> DEFINE l == [event |-> event, name |-> current.name]
             r == [name |-> current.name, status |-> event]
  <2>1. current.name \in Name BY <1>6 DEF TypeInv, Handling, Name
  <2>2. l \in Line BY <2>1, LineType
  <2>3. r \in Result BY <2>1 DEF Result
  <2>4. l.event = r.status /\ l.name = r.name OBVIOUS
  <2>5. trace' = Append(trace, l) /\ results' = Append(results, r) BY <1>6 DEF Log
  <2> HIDE DEF l, r
  <2>6. Tells(Append(trace, l), Append(results, r))
    BY <1>1, <2>2, <2>3, <2>4, TellResult
  <2> QED BY <2>5, <2>6 DEF TraceTellsResults
<1>7. CASE HandlerReturns
  BY <1>6, <1>7 DEF HandlerReturns
<1>8. CASE HandlerRaises
  BY <1>6, <1>8 DEF HandlerRaises
<1>9. CASE Begin
  BY <1>3, <1>9, RunLineType DEF Begin, Log
<1>10. CASE Complete
  BY <1>3, <1>10, RunLineType DEF Complete, Log
<1>11. CASE FailRun
  BY <1>3, <1>11, RunLineType DEF FailRun, Log
<1>12. ASSUME NEW c \in Call, NEW kept \in 0..1, RequestFault(c, kept) PROVE TraceTellsResults'
  <2> DEFINE a == [event |-> "requested", name |-> c.name]
  <2>1. a \in Line BY LineType DEF Call
  <2>2. a.event \notin {"ok", "failed", "blocked"} OBVIOUS
  <2>3. results' = results /\ (trace' = trace \/ trace' = Append(trace, a))
    BY <1>12 DEF RequestFault
  <2> QED BY <1>2, <1>3, <2>1, <2>2, <2>3
<1>13. CASE UNCHANGED vars
  BY <1>2, <1>13 DEF vars
<1>14. ASSUME NEW n \in 1..MaxPlan, PlanCalls(n) PROVE TraceTellsResults'
  BY <1>2, <1>14 DEF PlanCalls
<1>15. ASSUME NEW reason \in {"final", "no_calls"}, PlanStops(reason)
       PROVE  TraceTellsResults'
  BY <1>2, <1>15 DEF PlanStops
<1>16. CASE PlanRaises \/ NextStep \/ StopOnBudget
  BY <1>2, <1>16 DEF PlanRaises, NextStep, StopOnBudget
<1>17. CASE Escape \/ ResultFault \/ CompleteFault
  BY <1>2, <1>17 DEF Escape, ResultFault, CompleteFault
<1> QED BY <1>4, <1>5, <1>7, <1>8, <1>9, <1>10, <1>11, <1>12, <1>13, <1>14, <1>15, <1>16,
           <1>17 DEF Next, Advance

\* The trace file of a run tells its results, one for one and in their order, also
\* when lines could not be written.
THEOREM TraceTells == Spec => []TraceTellsResults
BY TypeInit, TypeStep, TellsInit, TellsStep, PTL DEF Spec
=============================================================================
