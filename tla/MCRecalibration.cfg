SPECIFICATION Spec
CONSTANTS
  Artifacts = {c0, c1}
  Traces = {t0, t1}
  Guards = {g0, g1}
  Alarms = {al}
  Preregs = {p0, p1}
  None = None
  MaxAuthorities = 4
INVARIANTS
  FreshDriftGuard
CHECK_DEADLOCK FALSE
