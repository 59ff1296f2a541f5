SPECIFICATION EvidenceSpec
CONSTANTS
  a1 = a1
  a2 = a2
  i1 = i1
  i2 = i2
  Requests = {r1, r2}
  Chains = {x, y}
  Locked = FALSE
  MaxId = 5
  Agents = {a1, a2}
  Intents = {i1, i2}
  Owner <- MCOwner
  None = None
SYMMETRY Symmetry
INVARIANT ChainVerifies
\* The number of events is bounded: the system stops when they are used up.
CHECK_DEADLOCK FALSE
