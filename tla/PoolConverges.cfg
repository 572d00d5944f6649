SPECIFICATION Spec
CONSTANTS
  p = p
  none = none
  Pools = {p}
  NoPool = none
  Names = {1, 2, 3}
  Counts = {0, 1}
  Workers = 5
  InvalidPools = {}
  InitConfig = {"ok", "unreadable"}
  InitPrereq = {"ok", "noIngress"}
  Disturbances = {"edit", "evict", "crash", "resync", "deletePool", "createPool"}
  MaxDisturbances = 2
PROPERTIES
  Converges
CHECK_DEADLOCK FALSE
