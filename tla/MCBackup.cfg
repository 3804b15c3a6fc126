CONSTANTS
  p1 = p1
  p2 = p2
  memory = memory
  env = env
  policy = policy
  v1 = v1
  v2 = v2
  Proc = {p1, p2}
  Files <- MCFiles
  Sensitive = {env}
  Version = {v1, v2}
  NoFile = NoFile
  Blank = Blank
  Keep = 1
  MaxArchives = 2
  MaxCommands = 4
  MaxEdits = 1
  MaxCrashes = 1
SPECIFICATION Spec
CHECK_DEADLOCK FALSE
INVARIANTS
  CleanArchiveComplete
  RestoreFaithful
PROPERTY PruneKeepsNewest
SYMMETRY Symmetry
