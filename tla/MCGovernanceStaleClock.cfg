SPECIFICATION Spec
CONSTANTS
  Sessions = {s1, s2}
  Keys = {k1, k2}
  Amounts = {3}
  AgentLimit = 5
  Mandates = {1}
  Limits <- MCLimits
  MandateRequired = FALSE
  VelocityMax = 1
  VelocityWindow = 0
  ReviewTTL = 1
  ChallengeTTL = 1
  Challenges = {}
  MaxClock = 1
  NoSession = NoSession
  NoKey = NoKey
SYMMETRY Symmetry
INVARIANT BudgetKept
\* Time and the rows are bounded: the system stops when they are used up.
CHECK_DEADLOCK FALSE
