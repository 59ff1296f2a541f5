SPECIFICATION Spec
CONSTANTS
  Sessions = {h1, w1}
  Workers = {w1}
  Pays = {p1, p2}
  Matching = {p2}
  NoPay = NoPay
  NoEvent = NoEvent
  DeadLetterAfter = 1
  Closings = {}
  RefundParts = 1
INVARIANTS
  TypeOK
  ExecutesOnce
  BackedByProvider
  RowSound
PROPERTY ImplementsLifecycle
\* An authorization that was revoked and has no row left to scan stops.
CHECK_DEADLOCK FALSE
