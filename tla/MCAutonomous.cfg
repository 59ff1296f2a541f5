SPECIFICATION FairSpec
CONSTANTS
  Sessions = {h1, w1}
  Workers = {w1}
  Deployments <- MCDeployments
  Refs = {r1}
  Withdrawable = {"credential", "mandate"}
  Restorable = {"credential"}
  DeadLetterAfter = 1
  NoSession = NoSession
  NoRef = NoRef
INVARIANTS
  TypeOK
  DeploymentHonoured
  RowNamesItsDebit
PROPERTIES
  ImplementsLifecycle
  RevocationSticks
  KnownDebitSettles
CHECK_DEADLOCK FALSE
