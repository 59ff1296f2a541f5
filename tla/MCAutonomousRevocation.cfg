SPECIFICATION Spec
CONSTANTS
  Sessions = {h1, w1}
  Workers = {w1}
  Deployments <- MCSettling
  Refs = {r1}
  Withdrawable = {"mandate"}
  Restorable = {}
  DeadLetterAfter = 1
  NoSession = NoSession
  NoRef = NoRef
PROPERTY RevocationBlocks
CHECK_DEADLOCK FALSE
