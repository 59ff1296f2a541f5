SPECIFICATION Spec
CONSTANTS
  Sessions = {h1, w1}
  Workers = {w1}
  Pays = {p1}
  Matching = {p1}
  NoPay = NoPay
  NoEvent = NoEvent
  DeadLetterAfter = 2
  Closings = {}
  RefundParts = 1
PROPERTY PaidIsFinal
CHECK_DEADLOCK FALSE
