SPECIFICATION Spec
CONSTANTS
  d1 = d1 d2 = d2 d3 = d3
  none = none
  Devices = {d1, d2, d3}
  NoDevice = none
  CreateStates = {"queued"}
  CleanupWait = TRUE
  Reporting = TRUE
  SlowInstall = TRUE
  Disturbances = {"delete", "nodeFail", "nodeFailEarly", "nodeDelete", "nodeDeleteEarly", "resync"}
  MaxDisturbances = 3
INVARIANTS
  DeviceAccounted
  ManagedHasJoined
PROPERTIES
  JoinedNotReinstalled
  ImplementsLife
CHECK_DEADLOCK FALSE
