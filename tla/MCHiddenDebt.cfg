SPECIFICATION PlanSpec
CONSTANTS
  m1 = m1
  m2 = m2
  a1 = a1
  k1 = k1
  w1 = w1
  act = act
  wait = wait
  Ids = {m1, m2}
  Assumptions = {a1}
  Countermodels = {k1}
  BaseWorlds = {w1}
  Actions = {act, wait}
  NoMemory = NoMemory
  NoAction = NoAction
  NoCertificate = NoCertificate
SYMMETRY Symmetry
INVARIANT
  RobustHasNoHiddenDebt
