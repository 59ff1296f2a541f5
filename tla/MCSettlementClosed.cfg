SPECIFICATION FairSerialSpec
CONSTANTS
  Sessions = {h1, w1}
  Workers = {w1}
  Pays = {p1}
  Matching = {p1}
  NoPay = NoPay
  NoEvent = NoEvent
  DeadLetterAfter = 1
  Closings = {"cancelled", "expired"}
  RefundParts = 1
PROPERTY ClosedOrderEnds
CHECK_DEADLOCK FALSE
