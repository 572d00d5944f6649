SPECIFICATION Spec
CONSTANTS
  d1 = d1 d2 = d2 d3 = d3 d4 = d4 d5 = d5 d6 = d6
  none = none
  Devices = {d1, d2, d3, d4, d5, d6}
  NoDevice = none
  CreateStates = {"queued", "other"}
  CleanupWait = TRUE
  Reporting = FALSE
  SlowInstall = FALSE
  Disturbances = {"fault", "crash", "deleteEarly", "nodeFail"}
  MaxDisturbances = 2
INVARIANTS
  TypeOK
  DevicesBounded
PROPERTIES
  StatusForward
SYMMETRY Symmetric
CHECK_DEADLOCK FALSE
