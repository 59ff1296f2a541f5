SPECIFICATION Spec
CONSTANTS
  Sessions = {s1, s2}
  Keys = {k1, k2}
  Amounts = {3}
  AgentLimit = 5
  Mandates = {}
  Limits <- MCLimits
  MandateRequired = FALSE
  VelocityMax = 1
  VelocityWindow = 0
  ReviewTTL = 1
  ChallengeTTL = 1
  Challenges = {}
  MaxClock = 0
  NoSession = NoSession
  NoKey = NoKey
SYMMETRY Symmetry
INVARIANT AuthorizedOnlyIfAllowed
\* Time and the rows are bounded: the system stops when they are used up.
CHECK_DEADLOCK FALSE
