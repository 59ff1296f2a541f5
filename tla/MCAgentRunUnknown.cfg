SPECIFICATION Spec
CONSTANTS
  Calls <- MCCalls
  Cap = 1
  MaxConsumes = 1
  MaxTurns = 3
  MaxToolCalls = 4
  MaxReply = 2
INVARIANTS
  TypeOK
  ExecutesAtMost
CHECK_DEADLOCK FALSE
