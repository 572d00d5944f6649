SPECIFICATION Spec
CONSTANTS
  p = p
  none = none
  Pools = {p}
  NoPool = none
  Names = {1, 2, 3}
  Counts = {1}
  Workers = 1
  InvalidPools = {}
  InitConfig = {"ok"}
  InitPrereq = {"ok"}
  Disturbances = {"deletePool", "createPool", "createPoolEarly", "evictCreated", "crash", "fault", "submitFault"}
  MaxDisturbances = 2
PROPERTIES
  SuccessorUntouched
  LeavesNothing
CHECK_DEADLOCK FALSE
