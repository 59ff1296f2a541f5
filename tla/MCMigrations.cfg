SPECIFICATION FairSpec
CONSTANTS
  Targets <- MCTargets
  MaxDisturbances = 2
  MaxCrashes = 1
INVARIANTS
  SchemaSound
  OnlyOrphansAbort
  RowsSound
PROPERTIES
  RowsKeepMeaning
  UpgradeCompletes
CHECK_DEADLOCK FALSE
