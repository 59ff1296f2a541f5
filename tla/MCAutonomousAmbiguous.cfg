SPECIFICATION FairSpec
CONSTANTS
  Sessions = {h1, w1}
  Workers = {w1}
  Deployments <- MCSettling
  Refs = {r1}
  Withdrawable = {}
  Restorable = {}
  DeadLetterAfter = 1
  NoSession = NoSession
  NoRef = NoRef
PROPERTY AmbiguousIsReconciled
CHECK_DEADLOCK FALSE
