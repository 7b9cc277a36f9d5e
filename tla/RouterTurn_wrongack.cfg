SPECIFICATION Spec
CONSTANTS
  s1 = s1
  s2 = s2
  own = own
  Turns = {t1}
  Seats = {s1, s2, own}
  OwnSeat = own
  Orders <- ArenaOrders
  NoOrder = NoOrder
  NoReply = NoReply
  NoResult = NoResult
  OtherNonce = OtherNonce
  MaxLive = 1
  MaxReplies = 1
INVARIANT
  WrongAnswerFails
CHECK_DEADLOCK FALSE
