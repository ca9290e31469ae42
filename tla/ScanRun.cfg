SPECIFICATION FairSpec
CONSTANTS
  a = a  b = b  c = c  x = x  y = y
  Inputs = {a, b}
  Extra = {x, y}
  Certificate <- MCCertificate
  Modes = {"plain", "stream", "aggressive"}
  Concurrency = 2
  BatchSize = 1
  MaxPivot = 1
  MaxFaults = 2
INVARIANTS
  TypeOK
  DoneIsSaved
  CompletedIsSettled
  PivotBounded
  UnsafeStopsRun
PROPERTIES
  ScanEnds
  EveryTargetSettles
CHECK_DEADLOCK FALSE
