SPECIFICATION DispatcherFairSpec
CONSTANTS
  zone = zone  host = host  c1 = c1  c2 = c2
  Callers = {c1, c2}
  Results <- MCResults
  Workers = {1, 2}
  Notifiers = {"discord", "webhook"}
  Minimum = 3
  Capacity = 1
  MaxBatches = 2
  None = None
INVARIANTS
  DispatcherTypeOK
  OnePerIdentity
  SeenIsAccounted
  FlushDelivers
PROPERTIES
  QuietAfterFlush
CHECK_DEADLOCK FALSE
