SPECIFICATION Spec
CONSTANTS
  Eths <- MCEths
  Bonds <- MCBonds
  Bond0 = "bond0"
  Odd <- MCOdd
  Configs <- MCConfigs
  MaxFaults = 2
INVARIANTS
  TypeOK
  InstallsAsConfigured
  ManagementKept
PROPERTIES
  Completes
CHECK_DEADLOCK FALSE
