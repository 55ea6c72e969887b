SPECIFICATION MemSpec
CONSTANTS
  m1 = m1
  m2 = m2
  m3 = m3
  a1 = a1
  k1 = k1
  Ids = {m1, m2, m3}
  Assumptions = {a1}
  Countermodels = {k1}
  NoMemory = NoMemory
SYMMETRY Symmetry
INVARIANTS
  MemTypeOK
  CausalIsUsable
  AuthorityRestsOnValidity
  HistoryIsComplete
PROPERTIES
  NeverStrengthened
  RetractionHasReason
  RetractionReachesAll
CHECK_DEADLOCK FALSE
