SPECIFICATION Spec
CONSTANTS
  Worlds <- MCWorlds
  Orders <- MCOrders
  MaxFaults = 2
  CheckCloud = TRUE
  None = None
INVARIANTS
  TypeOK
  AccusationsAreTrue
  SequentialVerdict
  ReplayAgrees
CHECK_DEADLOCK FALSE
