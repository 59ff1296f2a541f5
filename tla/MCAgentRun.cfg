SPECIFICATION FairSpec
CONSTANTS
  Calls <- MCCalls
  Cap = 1
  MaxConsumes = 1
  MaxTurns = 3
  MaxToolCalls = 4
  MaxReply = 2
INVARIANTS
  WithinGrant
  TracedToCall
  OutcomeIsTrue
PROPERTY RunEnds
CHECK_DEADLOCK FALSE
