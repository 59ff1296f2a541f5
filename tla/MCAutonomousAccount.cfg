SPECIFICATION Spec
CONSTANTS
  Sessions = {h1, w1}
  Workers = {w1}
  Deployments <- MCDeployments
  Refs = {r1}
  Withdrawable = {}
  Restorable = {}
  DeadLetterAfter = 1
  NoSession = NoSession
  NoRef = NoRef
INVARIANT OwnAccount
CHECK_DEADLOCK FALSE
