SPECIFICATION FairSpec
CONSTANTS
  Targets <- MCTargets
  MaxDisturbances = 2
  MaxCrashes = 0
PROPERTY RerunCompletes
CHECK_DEADLOCK FALSE
