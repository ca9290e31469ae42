SPECIFICATION Spec
CONSTANTS
  Worlds <- MCListable
  Orders <- MCOrders
  MaxFaults = 0
  CheckCloud = TRUE
  None = None
INVARIANTS
  ExposureIsClassified
CHECK_DEADLOCK FALSE
