SPECIFICATION Spec
CONSTANTS
  Targets <- MCTargets
  MaxDisturbances = 1
  MaxCrashes = 0
INVARIANT MandatesReadable
CHECK_DEADLOCK FALSE
