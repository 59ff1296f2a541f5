SPECIFICATION FairSerialSpec
CONSTANTS
  Sessions = {h1, w1}
  Workers = {w1}
  Pays = {p1, p2}
  Matching = {p1, p2}
  NoPay = NoPay
  NoEvent = NoEvent
  DeadLetterAfter = 1
  Closings = {}
  RefundParts = 1
PROPERTY CaptureIsSettled
CHECK_DEADLOCK FALSE
