SPECIFICATION Spec
CONSTANTS
  Targets <- MCDeepTargets
  MaxDisturbances = 1
  MaxCrashes = 0
INVARIANTS
  TypeOK
  OnlyOrphansAbort
CHECK_DEADLOCK FALSE
