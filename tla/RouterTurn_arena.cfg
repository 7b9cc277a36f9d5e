SPECIFICATION Spec
CONSTANTS
  s1 = s1
  s2 = s2
  own = own
  Turns = {t1, t2}
  Seats = {s1, s2, own}
  OwnSeat = own
  Orders <- ArenaOrders
  NoOrder = NoOrder
  NoReply = NoReply
  NoResult = NoResult
  OtherNonce = OtherNonce
  MaxLive = 2
  MaxReplies = 2
SYMMETRY TurnSymmetry
INVARIANTS
  RecordedIsObserved
  ContactsAreTicketed
  NobodyIsShort
  FreshIsCounted
PROPERTY
  EndedTurnsStartNothing
CHECK_DEADLOCK FALSE
