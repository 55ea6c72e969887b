SPECIFICATION ExecSpec
CONSTANTS
  NumUnits = 3
  w1 = w1
  p1 = p1
  p2 = p2
  Workers = {w1}
  Worker = w1
  Payloads = {p1, p2}
  Costs = {1, 2}
  MaxAttempts = 2
  LeaseTTL = 2
  UnitCap = 2
  GlobalBudget = 6
  Ticks = {0}
  MaxBlocks = 1
  MaxRuns = 2
  MaxTick = 14
  NoLease = NoLease
  NoResult = NoResult
  NoReason = NoReason
  NoCertificate = NoCertificate
INVARIANTS
  ExecTypeOK
  LeaseInStep
  FailureHasCause
  BundleIsPopulation
  StagingFollowsProcess
PROPERTIES
  BundleIsImmutable
  RunEnds
CHECK_DEADLOCK FALSE
