CONSTANTS
  search = search
  add = add
  check = check
  marked = marked
  stranger = stranger
  Tool = {search, add, check, marked}
  Stranger = {stranger}
  Marked = {marked}
  Reviewed = {add}
  NoCall = NoCall
  Exempt = {check}
  MaxCalls <- MCMaxCalls
  Approvals <- MCApprovals
  Budgets = {0, 1, 3}
  MaxPlan = 2
  MaxFaults = 1
SPECIFICATION FairSpec
CHECK_DEADLOCK FALSE
INVARIANTS
  WithinBudget
  OnlyPermittedRun
  CallsLimited
  TraceTellsResults
  NothingLostSilently
PROPERTY RunEnds
