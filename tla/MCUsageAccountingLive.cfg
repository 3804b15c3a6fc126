CONSTANTS
  p1 = p1
  p2 = p2
  paid = paid
  unpriced = unpriced
  off = off
  Proc = {p1, p2}
  Profile = {paid, unpriced, off}
  Enabled = {paid, unpriced}
  DefaultProfile = paid
  Price <- MCPrice
  Unknown = Unknown
  NoProfile = NoProfile
  Torn = Torn
  Absent = Absent
  TokenCounts = {1}
  MaxCommands = 2
  MaxInterrupts = 1
SPECIFICATION FairSpec
CHECK_DEADLOCK FALSE
PROPERTY TornHeals
