SPECIFICATION Spec
CONSTANTS
  a = a  b = b  c = c  x = x  y = y
  Inputs = {a, b, c}
  Extra = {x, y}
  Certificate <- MCNoCertificate
  Modes = {"aggressive"}
  Concurrency = 2
  BatchSize = 2
  MaxPivot = 1
  MaxFaults = 1
INVARIANT UnsafeRunFails
CHECK_DEADLOCK FALSE
