SPECIFICATION Spec
CONSTANTS
  p = p
  none = none
  Pools = {p}
  NoPool = none
  Names = {1, 2, 3}
  Counts = {1, 2}
  Workers = 5
  InvalidPools = {}
  InitConfig = {"ok", "unreadable"}
  InitPrereq = {"ok", "noIngress"}
  Disturbances = {"edit", "evict", "crash", "resync"}
  MaxDisturbances = 2
INVARIANTS
  TypeOK
  NeededAgreesWithStatus
  NoLostWakeUp
  LockReleased
PROPERTIES
  PublishedReadyMatchesSpec
