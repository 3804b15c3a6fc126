CONSTANTS
  small = small
  large = large
  unknown = unknown
  key = key
  note = note
  fact = fact
  Profile = {small, large, unknown}
  Selectable = {small, large, unknown}
  DefaultProfile = large
  NoProfile = NoProfile
  Routes = {NoProfile, small}
  Window <- MCWindow
  SystemLength = 11
  Lengths = {0, 11, 20}
  MaxHistory = 5
  MaxExchanges = 4
  MaxSwitches = 1
  Store = {"memory", "brain"}
  Item = {key, note, fact}
  Sensitive = {key}
  Matches <- MCMatches
  Limit = 1
  NoContext = NoContext
  Plans <- MCPlans
  MaxEdits = 1
SPECIFICATION SessionSpec
CHECK_DEADLOCK FALSE
INVARIANTS
  HistoryIsRecent
  ShownIsSent
PROPERTIES
  OverfullHasCause
  DropsNoMoreThanNeeded
  SensitiveTakesNoPlace
