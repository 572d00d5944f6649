SPECIFICATION Spec
CONSTANTS
  p = p
  q = q
  none = none
  Pools = {p, q}
  NoPool = none
  Names = {1, 2, 3, 4}
  Counts = {1}
  Workers = 2
  InvalidPools = {q}
  InitConfig = {"ok", "notString"}
  InitPrereq = {"ok", "missing"}
  Disturbances = {"evict", "fault", "submitFault", "crash"}
  MaxDisturbances = 2
INVARIANTS
  SubmitExclusive
  OvershootBounded
CHECK_DEADLOCK FALSE
