SPECIFICATION SerialSpec
CONSTANTS
  Sessions = {h1, w1}
  Workers = {w1}
  Pays = {p1, p2}
  Matching = {p2}
  NoPay = NoPay
  NoEvent = NoEvent
  DeadLetterAfter = 2
  Closings = {"cancelled", "expired"}
  RefundParts = 2
PROPERTY LegalTransitions
CHECK_DEADLOCK FALSE
