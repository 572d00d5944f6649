SPECIFICATION Spec
CONSTANTS
  p = p
  none = none
  Pools = {p}
  NoPool = none
  Names = {1, 2}
  Counts = {0, 2}
  Workers = 5
  InvalidPools = {}
  InitConfig = {"ok"}
  InitPrereq = {"ok"}
  Disturbances = {"edit", "evict"}
  MaxDisturbances = 2
INVARIANTS
  DeleteHasTarget
CHECK_DEADLOCK FALSE
