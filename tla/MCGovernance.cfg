SPECIFICATION Spec
CONSTANTS
  Sessions = {s1, s2}
  Keys = {k1}
  Amounts = {3, 5}
  AgentLimit = 5
  Mandates = {1, 2}
  Limits <- MCLimits
  MandateRequired = FALSE
  VelocityMax = 1
  VelocityWindow = 0
  ReviewTTL = 1
  ChallengeTTL = 1
  Challenges = {c1}
  MaxClock = 1
  NoSession = NoSession
  NoKey = NoKey
SYMMETRY Symmetry
INVARIANTS
  TypeOK
  MandatesBind
PROPERTY DecisionIsFinal
\* Time and the rows are bounded: the system stops when they are used up.
CHECK_DEADLOCK FALSE
