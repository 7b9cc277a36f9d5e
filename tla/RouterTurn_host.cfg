SPECIFICATION Spec
CONSTANTS
  s1 = s1
  s2 = s2
  own = own
  Turns = {t1, t2}
  Seats = {s1, s2, own}
  OwnSeat = own
  Orders <- HostOrders
  NoOrder = NoOrder
  NoReply = NoReply
  NoResult = NoResult
  OtherNonce = OtherNonce
  MaxLive = 1
  MaxReplies = 1
INVARIANTS
  TypeOK
PROPERTY
  TurnsEnd
CHECK_DEADLOCK FALSE
