SPECIFICATION Spec
CONSTANTS
  p = p
  none = none
  Pools = {p}
  NoPool = none
  Names = {1, 2}
  Counts = {1}
  Workers = 5
  InvalidPools = {}
  InitConfig = {"ok"}
  InitPrereq = {"missing"}
  Disturbances = {}
  MaxDisturbances = 0
PROPERTIES
  Converges
CHECK_DEADLOCK FALSE
