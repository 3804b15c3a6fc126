CONSTANTS
  o1 = o1
  o2 = o2
  m1 = m1
  g1 = g1
  s1 = s1
  s2 = s2
  Id = {1, 2}
  Time = {1, 2, 3}
  DayOf <- MCDayOf
  Session = {s1, s2}
  Owner = {o1, o2}
  Model = {m1}
  Agent = {g1}
  NoAgent = NoAgent
  TokenCounts = {1}
  Costs = {3, Unknown}
  Unknown = Unknown
  NoTable = NoTable
  MaxEvents = 2
SPECIFICATION StoreSpec
INVARIANTS
  ExportCoherent
  ReadersAgree
PROPERTY ImplementsLedger
SYMMETRY Symmetry
