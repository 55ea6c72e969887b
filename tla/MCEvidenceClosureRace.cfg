SPECIFICATION Spec
CONSTANTS
  c1 = c1
  c2 = c2
  i1 = i1
  i2 = i2
  i3 = i3
  i4 = i4
  Closers = {c1, c2}
  NumStages = 17
  Inodes = {i1, i2, i3, i4}
  NoFile = NoFile
  Torn = Torn
  Genesis = Genesis
INVARIANT
  StagesInOrder
CHECK_DEADLOCK FALSE
