------------------------------ MODULE ToolLoop ------------------------------
(***************************************************************************)
(* One run of an agent: AgentToolLoop.run asks the planner for a step,     *)
(* hands each requested call to ToolExecutor.execute and stops on a final  *)
(* answer or after max_steps.                                              *)
(*                                                                         *)
(* The calls of a plan are looked at one by one, so a plan is the number   *)
(* of its calls not yet looked at (`left`) and each call is chosen when it *)
(* is executed.  Arguments are told apart only by what the executor's      *)
(* checks say of them.  Every line of the trace file is one element of     *)
(* `trace`; writing one may fail (no space, no permission), which raises   *)
(* out of whatever was logging.                                            *)
(***************************************************************************)
EXTENDS Naturals, Sequences, FiniteSets

CONSTANTS
  Tool,       \* registered tools
  Stranger,   \* names a plan may use that no tool has
  Marked,     \* tools whose risk_level is BLOCKED
  Reviewed,   \* tools with risk_level REVIEW or requires_approval
  NoCall,     \* no call is being executed yet
  Exempt,     \* tools whose arguments the policies are not asked about
  MaxCalls,   \* max_calls_per_run of a tool
  Approvals,  \* the sets of approvals a run may be started with
  Budgets,    \* the values of max_steps a run may be started with
  MaxPlan,    \* bound: calls in one plan
  MaxFaults   \* bound: trace lines that cannot be written

Name == Tool \cup Stranger
\* What the checks find: all in order, a required argument missing, or an argument
\* the policies block.
Args == {"fine", "incomplete", "forbidden"}
Call == [name : Name, args : Args]

ASSUME ToolAssumption ==
  /\ Stranger \cap Tool = {}
  /\ NoCall \notin Call
  /\ Marked \subseteq Tool /\ Reviewed \subseteq Tool /\ Exempt \subseteq Tool
  /\ MaxCalls \in [Tool -> Nat]
  /\ Approvals \subseteq SUBSET (Tool \cup Stranger)
  /\ Budgets \subseteq Nat
  /\ MaxPlan \in Nat /\ MaxFaults \in Nat

VARIABLES
  approvals, \* context.approvals
  budget,    \* max_steps
  phase,     \* where the run is
  step,      \* the loop variable
  left,      \* calls of the current plan not yet looked at
  current,   \* the call being executed
  results,   \* tool results, oldest first
  counts,    \* context.call_counts
  answer,    \* final_answer: none, the planner's, or why the run stopped
  trace,     \* lines of the trace file
  faults,    \* lines that could not be written
  ran        \* history: the calls whose handler was entered

vars == <<approvals, budget, phase, step, left, current, results, counts,
          answer, trace, faults, ran>>
run == <<approvals, budget>>

Result == [name : Name, status : {"ok", "failed", "blocked"}]
Line == [event : {"run_started", "requested", "allowed", "ok", "failed", "blocked",
                  "run_completed", "run_failed"},
         name : Name \cup {"run"}]
Phases == {"start", "plan", "act", "handling", "completing", "failing", "done"}
Answers == {"none", "final", "no_calls", "max_steps", "error"}

Log(event, name) == trace' = Append(trace, [event |-> event, name |-> name])

---------------------------------------------------------------------------
Init ==
  /\ approvals \in Approvals
  /\ budget \in Budgets
  /\ phase = "start"
  /\ step = 1
  /\ left = 0
  /\ current = NoCall
  /\ results = << >>
  /\ counts = [t \in Tool |-> 0]
  /\ answer = "none"
  /\ trace = << >>
  /\ faults = 0
  /\ ran = << >>

\* AgentToolLoop.run logs its start and enters the loop, if there is a step to take.
Begin ==
  /\ phase = "start"
  /\ Log("run_started", "run")
  /\ IF budget = 0
     THEN phase' = "completing" /\ answer' = "max_steps"
     ELSE phase' = "plan" /\ UNCHANGED answer
  /\ UNCHANGED <<run, step, left, current, results, counts, faults, ran>>

---------------------------------------------------------------------------
\* AgentPlanner.next_step: a plan with calls (its final answer, if any, is ignored),
\* a final answer alone, or neither.  A provider error is text without a JSON object
\* and becomes a final answer; a JSON object of another shape raises.
PlanCalls(n) ==
  /\ phase = "plan"
  /\ left' = n
  /\ phase' = "act"
  /\ UNCHANGED <<run, step, current, results, counts, answer, trace, faults, ran>>

PlanStops(reason) ==
  /\ phase = "plan"
  /\ answer' = reason
  /\ phase' = "completing"
  /\ UNCHANGED <<run, step, left, current, results, counts, trace, faults, ran>>

PlanRaises ==
  /\ phase = "plan"
  /\ phase' = "failing"
  /\ UNCHANGED <<run, step, left, current, results, counts, answer, trace, faults, ran>>

\* Mutant of NextStep: nothing follows the end of the range.
NextStepWithin ==
  /\ phase = "act" /\ left = 0
  /\ step < budget /\ phase' = "plan" /\ step' = step + 1
  /\ UNCHANGED <<run, left, current, results, counts, answer, trace, faults, ran>>

\* The plan is used up: the next step, or the end of the range.
NextStep ==
  /\ phase = "act" /\ left = 0
  /\ \/ step = budget /\ phase' = "completing" /\ answer' = "max_steps" /\ UNCHANGED step
     \/ step < budget /\ phase' = "plan" /\ step' = step + 1 /\ UNCHANGED answer
  /\ UNCHANGED <<run, left, current, results, counts, trace, faults, ran>>

---------------------------------------------------------------------------
\* ToolExecutor.execute

\* Mutant of BudgetSpent: the results are compared too late by one.
BudgetSpentLate == Len(results) > budget

\* The loop looks at the number of results before each call of a plan.
BudgetSpent == Len(results) >= budget

\* Mutant of Refused: the policies are not asked about tools that were approved.
RefusedUnlessApproved(c) ==
  c.name \in Tool =>
  \/ c.name \in Marked
  \/ counts[c.name] >= MaxCalls[c.name]
  \/ c.args = "incomplete"
  \/ c.args = "forbidden" /\ c.name \notin Exempt \cup approvals
  \/ c.name \in Reviewed \ approvals

\* Mutant of Refused: one call too many.
RefusedOffByOne(c) ==
  c.name \in Tool =>
  \/ c.name \in Marked
  \/ counts[c.name] > MaxCalls[c.name]
  \/ c.args = "incomplete"
  \/ c.args = "forbidden" /\ c.name \notin Exempt
  \/ c.name \in Reviewed \ approvals

\* The checks, each with its own reason in the code: unknown tool, BLOCKED risk,
\* max_calls_per_run, required arguments, policies, approval.
Refused(c) ==
  c.name \in Tool =>
  \/ c.name \in Marked
  \/ counts[c.name] >= MaxCalls[c.name]
  \/ c.args = "incomplete"
  \/ c.args = "forbidden" /\ c.name \notin Exempt
  \/ c.name \in Reviewed \ approvals

\* One more call of the plan is looked at.
Considering == phase = "act" /\ left > 0 /\ ~BudgetSpent

StopOnBudget ==
  /\ phase = "act" /\ left > 0 /\ BudgetSpent
  /\ phase' = "completing"
  /\ answer' = "max_steps"
  /\ UNCHANGED <<run, step, left, current, results, counts, trace, faults, ran>>

\* A refused call is logged as requested and blocked and gets a blocked result.
Block(c) ==
  /\ Considering
  /\ Refused(c)
  /\ left' = left - 1
  /\ trace' = trace \o <<[event |-> "requested", name |-> c.name],
                         [event |-> "blocked", name |-> c.name]>>
  /\ results' = Append(results, [name |-> c.name, status |-> "blocked"])
  /\ UNCHANGED <<run, phase, step, current, counts, answer, faults, ran>>

\* Otherwise the call is logged as requested and allowed and its handler is entered.
Allow(c) ==
  /\ Considering
  /\ ~Refused(c)
  /\ left' = left - 1
  /\ current' = c
  /\ phase' = "handling"
  /\ trace' = trace \o <<[event |-> "requested", name |-> c.name],
                         [event |-> "allowed", name |-> c.name]>>
  /\ ran' = Append(ran, c)
  /\ UNCHANGED <<run, step, results, counts, answer, faults>>

\* The handler returns: only then does the call count.
HandlerReturns ==
  /\ phase = "handling"
  /\ counts' = [counts EXCEPT ![current.name] = @ + 1]
  /\ Log("ok", current.name)
  /\ results' = Append(results, [name |-> current.name, status |-> "ok"])
  /\ phase' = "act"
  /\ UNCHANGED <<run, step, left, current, answer, faults, ran>>

\* Mutant of HandlerRaises: a failed call is dropped from the results.
HandlerRaisesDropped ==
  /\ phase = "handling"
  /\ Log("failed", current.name)
  /\ phase' = "act"
  /\ UNCHANGED <<run, step, left, current, results, counts, answer, faults, ran>>

\* The handler raises: a failed result, and the run goes on.
HandlerRaises ==
  /\ phase = "handling"
  /\ Log("failed", current.name)
  /\ results' = Append(results, [name |-> current.name, status |-> "failed"])
  /\ phase' = "act"
  /\ UNCHANGED <<run, step, left, current, counts, answer, faults, ran>>

---------------------------------------------------------------------------
\* The end of the run.

\* _completed
Complete ==
  /\ phase = "completing"
  /\ Log("run_completed", "run")
  /\ phase' = "done"
  /\ UNCHANGED <<run, step, left, current, results, counts, answer, faults, ran>>

\* The except clause of run.
FailRun ==
  /\ phase = "failing"
  /\ Log("run_failed", "run")
  /\ answer' = "error"
  /\ phase' = "done"
  /\ UNCHANGED <<run, step, left, current, results, counts, faults, ran>>

---------------------------------------------------------------------------
\* A trace line that cannot be written.

Fault == faults < MaxFaults /\ faults' = faults + 1

\* The first line and the line of the except clause are written outside the try:
\* the exception reaches the caller.
Escape ==
  /\ phase \in {"start", "failing"}
  /\ Fault
  /\ phase' = "done"
  /\ UNCHANGED <<run, step, left, current, results, counts, answer, trace, ran>>

\* The lines of a refused or allowed call: `kept` of its two lines were written.
RequestFault(c, kept) ==
  /\ Considering
  /\ Fault
  /\ phase' = "failing"
  /\ trace' = IF kept = 0 THEN trace ELSE Append(trace, [event |-> "requested", name |-> c.name])
  /\ UNCHANGED <<run, step, left, current, results, counts, answer, ran>>

\* Mutant of ResultFault: the run goes on as if nothing had been called.
ResultFaultIgnored ==
  /\ phase = "handling"
  /\ Fault
  /\ phase' = "act"
  /\ counts' \in {counts, [counts EXCEPT ![current.name] = @ + 1]}
  /\ UNCHANGED <<run, step, left, current, results, answer, trace, ran>>

\* The line after the handler: what the handler did is done, its result is lost.
\* A handler that returned has been counted already.
ResultFault ==
  /\ phase = "handling"
  /\ Fault
  /\ phase' = "failing"
  /\ counts' \in {counts, [counts EXCEPT ![current.name] = @ + 1]}
  /\ UNCHANGED <<run, step, left, current, results, answer, trace, ran>>

\* The line of _completed, inside the try: a run that was over fails after all.
CompleteFault ==
  /\ phase = "completing"
  /\ Fault
  /\ phase' = "failing"
  /\ UNCHANGED <<run, step, left, current, results, counts, answer, trace, ran>>

---------------------------------------------------------------------------
Advance ==
  \/ Begin
  \/ \E n \in 1..MaxPlan : PlanCalls(n)
  \/ \E reason \in {"final", "no_calls"} : PlanStops(reason)
  \/ PlanRaises
  \/ NextStep
  \/ StopOnBudget
  \/ \E c \in Call : Block(c) \/ Allow(c)
  \/ HandlerReturns \/ HandlerRaises
  \/ Complete \/ FailRun
  \/ Escape
  \/ \E c \in Call, kept \in 0..1 : RequestFault(c, kept)
  \/ ResultFault \/ CompleteFault

Next == Advance

Spec == Init /\ [][Next]_vars

\* The loop runs on by itself: the planner's request has a timeout, handlers are
\* bounded local operations, and nothing else is waited for.
FairSpec == Spec /\ WF_vars(Next)

---------------------------------------------------------------------------
\* The type invariant.
TypeOK ==
  /\ approvals \in Approvals /\ budget \in Budgets
  /\ phase \in Phases
  /\ step \in Nat
  /\ left \in 0..MaxPlan
  /\ current \in Call \cup {NoCall}
  /\ results \in Seq(Result)
  /\ counts \in [Tool -> Nat]
  /\ answer \in Answers
  /\ trace \in Seq(Line)
  /\ faults \in 0..MaxFaults
  /\ ran \in Seq(Call)

\* However many calls each plan asks for and whatever becomes of them, a run gets at
\* most max_steps results and enters at most max_steps handlers (run, execute).
WithinBudget ==
  /\ Len(results) <= budget
  /\ Len(ran) <= budget
  /\ step <= budget \/ budget = 0

\* No handler is entered with a call the registry, the risk levels, the policies or
\* the missing approval forbid, in whichever order plans mix such calls (execute).
Permitted(c) ==
  /\ c.name \in Tool \ Marked
  /\ c.args = "fine" \/ (c.args = "forbidden" /\ c.name \in Exempt)
  /\ c.name \in Reviewed => c.name \in approvals

OnlyPermittedRun == \A i \in DOMAIN ran : Permitted(ran[i])

\* A tool returns at most max_calls_per_run results in a run, and call_counts never
\* counts fewer calls than the results show (execute).
OkResults(t) ==
  Cardinality({i \in DOMAIN results : results[i].name = t /\ results[i].status = "ok"})

CallsLimited == \A t \in Tool : OkResults(t) <= counts[t] /\ counts[t] <= MaxCalls[t]

\* The lines of a trace file that tell a result; the k-th of them tells the k-th of rs.
Told(lines) == {i \in DOMAIN lines : lines[i].event \in {"ok", "failed", "blocked"}}

Tells(lines, rs) ==
  /\ Cardinality(Told(lines)) = Len(rs)
  /\ \A i \in Told(lines) :
       LET k == Cardinality({j \in Told(lines) : j <= i}) IN
       lines[i].name = rs[k].name /\ lines[i].event = rs[k].status

\* The trace file tells the results of the run and nothing else: its blocked, failed
\* and completed lines are those of the results, in order (execute, run).
TraceTellsResults == Tells(trace, results)

\* A handler that was entered has its result in the run, unless the line after it
\* could not be written: then it was the last one and the run does not end as
\* completed.
Handled == Cardinality({i \in DOMAIN results : results[i].status # "blocked"})

NothingLostSilently ==
  \/ Len(ran) = Handled
  \/ /\ Len(ran) = Handled + 1
     /\ \/ phase \in {"handling", "failing"}
        \/ phase = "done" /\ answer \in {"error", "none"}

\* A run ends: with an answer, an error, or an exception to its caller.
RunEnds == <>(phase = "done")
============================================================================
