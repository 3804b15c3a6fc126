CONSTANTS
  p1 = p1
  p2 = p2
  proposal = proposal
  design = design
  Proc = {p1, p2}
  Templates <- MCTemplates
  Phases <- MCPhases
  NoFile = NoFile
  Torn = Torn
  MaxCommands = 4
  MaxCrashes = 1
SPECIFICATION Spec
CHECK_DEADLOCK FALSE
INVARIANTS
  OneStory
  OrderUnlessForced
  ListedHasFiles
  TornHasCause
SYMMETRY Symmetry
