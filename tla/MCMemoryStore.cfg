CONSTANTS
  p1 = p1
  p2 = p2
  a = a
  b = b
  t = t
  u = u
  Proc = {p1, p2}
  Id = {a, b}
  Text = {t, u}
  Gone = Gone
  NoTable = NoTable
  OldRows <- MCOldRows
  MaxWrites = 3
  MaxOpens = 4
  MaxCrashes = 1
  MaxTimeouts = 1
SPECIFICATION Spec
CHECK_DEADLOCK FALSE
INVARIANTS
  NoMemoryLost
  IndexMatches
PROPERTY OpenFindsAll
SYMMETRY Symmetry
