SPECIFICATION FairSpec
CONSTANTS
  Sessions = {h1, w1}
  Workers = {w1}
  Pays = {p1}
  Matching = {p1}
  NoPay = NoPay
  NoEvent = NoEvent
  DeadLetterAfter = 1
  Closings = {}
  RefundParts = 1
PROPERTIES
  OrderIsRecovered
  CaptureIsSettled
CHECK_DEADLOCK FALSE
