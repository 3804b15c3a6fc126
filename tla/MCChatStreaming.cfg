CONSTANT MaxLines = 4
SPECIFICATION Spec
CHECK_DEADLOCK FALSE
INVARIANTS
  OneOutcome
  ShownOnce
PROPERTY ChatEnds
