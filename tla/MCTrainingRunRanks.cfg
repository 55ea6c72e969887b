SPECIFICATION Spec
CONSTANTS
  WorldSize = 2
  RowGroups <- MCRowGroups
  MaxRounds = 1
  NumIterations = 2
  SaveEvery = 1
  MaxLaunches = 3
  MaxReads = 3
  None = None
  Torn = Torn
PROPERTIES
  NoRankRepeats
CHECK_DEADLOCK FALSE
