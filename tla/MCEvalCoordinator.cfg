SPECIFICATION Spec
CONSTANTS
  NumUnits = 2
  w1 = w1
  w2 = w2
  p1 = p1
  p2 = p2
  Workers = {w1, w2}
  Payloads = {p1, p2}
  Costs = {1, 2, 3}
  MaxAttempts = 2
  LeaseTTL = 1
  UnitCap = 2
  GlobalBudget = 4
  Ticks = {0, 1, 2}
  MaxBlocks = 1
  NoLease = NoLease
  NoResult = NoResult
  NoReason = NoReason
  NoCertificate = NoCertificate
SYMMETRY Symmetry
INVARIANTS
  TypeOK
  BudgetConserved
  PendingIsFunded
  NoDefensiveQuarantine
  OnlyLatestLeaseCommits
  AttemptsBounded
  AuditDeterminesState
  CertificateStaysTrue
PROPERTIES
  NothingIsUndone
  ImplementsFrozenPanel
