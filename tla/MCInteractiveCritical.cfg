CONSTANTS
  small = small
  large = large
  unknown = unknown
  Profile = {small, large, unknown}
  Selectable = {small, large, unknown}
  DefaultProfile = large
  NoProfile = NoProfile
  Routes = {NoProfile, small}
  Window <- MCWindow
  SystemLength = 11
  Lengths = {0, 11, 20}
  MaxHistory = 5
  MaxExchanges = 4
  MaxSwitches = 1
SPECIFICATION Spec
CHECK_DEADLOCK FALSE
INVARIANT BelowCriticalWhenPossible
