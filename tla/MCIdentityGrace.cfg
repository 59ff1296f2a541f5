SPECIFICATION SerialSpec
CONSTANTS
  d1 = d1
  d2 = d2
  d3 = d3
  d4 = d4
  k1 = k1
  k2 = k2
  k3 = k3
  p1 = p1
  p2 = p2
  Requests = {r1}
  Agents = {a1}
  Creds = {c1, c2, c3}
  Nonces = {}
  Tokens = {}
  Proofs = {}
  Keys = {k1, k2, k3}
  ParentKeys = {p1, p2}
  Delegations = {d1, d2, d3, d4}
  Bound <- MCThreeKeys
  Signer <- MCSigner
  Until <- MCUntil
  FirstKey = p1
  CredTTL = 2
  NonceTTL = 1
  SessionTTL = 1
  Grace = 1
  MaxClock = 2
  None = None
SYMMETRY Symmetry
INVARIANT GraceIsKept
