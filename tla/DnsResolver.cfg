SPECIFICATION Spec
CONSTANTS
  c1 = c1
  c2 = c2
  Callers = {c1, c2}
  Asks <- MCAsks
  s1 = s1
  s2 = s2
  Servers = {s1, s2}
  Initially <- MCInitially
  Retries = 2
  MaxBatches = 2
  MaxTrouble = 1
  None = None
CHECK_DEADLOCK FALSE
INVARIANTS TypeOK AskedOnce AbsenceIsSeen
PROPERTY EveryCallReturns
