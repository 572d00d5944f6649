SPECIFICATION Spec
CONSTANTS
  d1 = d1 d2 = d2
  none = none
  Devices = {d1, d2}
  NoDevice = none
  CreateStates = {"queued"}
  CleanupWait = TRUE
  Reporting = TRUE
  SlowInstall = FALSE
  Disturbances = {"nodeFail"}
  MaxDisturbances = 1
PROPERTIES
  UnhealthyReplaced
CHECK_DEADLOCK FALSE
