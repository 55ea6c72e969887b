SPECIFICATION MSpec
CONSTANTS
  Publishers = {p1, p2}
  Dirs = {d1, d2, d3, d4, d5, d6}
  NoDir = NoDir
  MaxFaults = 2
  MaxLosses = 1
INVARIANTS
  PublishedIsComplete
  RecordedReferenceIntact
PROPERTIES
  FinalIsWriteOnce
  ClosedOrNeedsRepair
CHECK_DEADLOCK FALSE
