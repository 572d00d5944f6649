SPECIFICATION Spec
CONSTANTS
  d1 = d1 d2 = d2 d3 = d3
  none = none
  Devices = {d1, d2, d3}
  NoDevice = none
  CreateStates = {"queued"}
  CleanupWait = TRUE
  Reporting = FALSE
  SlowInstall = FALSE
  Disturbances = {"crash", "delete"}
  MaxDisturbances = 2
PROPERTIES
  DeletionCompletes
CHECK_DEADLOCK FALSE
