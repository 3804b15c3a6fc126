CONSTANTS
  u1 = u1
  u2 = u2
  s = s
  coding = coding
  review = review
  high = high
  max = max
  f1 = f1
  f2 = f2
  notes = notes
  secret = secret
  i1 = i1
  i2 = i2
  a1 = a1
  a2 = a2
  Proc = {u1, u2, s}
  NoFile = NoFile
  Blank = Blank
  Route = {coding, review}
  LastRoute = review
  Setting = {high, max}
  Default <- MCDefault
  Agent = {a1, a2}
  Effort = {high, max}
  NoEffort = NoEffort
  Garbage = Garbage
  Profile = {"default", "godot"}
  DefaultProfile = "default"
  NoWish = NoWish
  RuleFiles <- MCRuleFiles
  MaxEdits = 1
  Doc = {notes, secret}
  DocId = {i1, i2}
  NoDoc = NoDoc
  MaxSaves = 1
  Tool = {"policies_check", "memory_add", "brain_search", "agents_status", "noTool"}
  Id = {"r1"}
  NoId = NoId
  Server = s
  Coding = coding
  Sensitive = {secret}
  Scenarios <- MCScenarios
  MaxCommands = 3
SPECIFICATION Spec
CHECK_DEADLOCK FALSE
INVARIANTS
  RoutesKept
  AgentsKept
  ProfileKept
  RulesHeld
  SearchFindsDocuments
  AnsweredInOrder
  SensitiveKeptOut
SYMMETRY Symmetry
VIEW View
