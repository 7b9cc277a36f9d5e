SPECIFICATION Spec
CONSTANTS
  A = A
  B = B
  idx = idx
  idxy = idxy
  x = x
  xy = xy
  bx = bx
  v = v
  NotARequest = NotARequest
  Watchers = {w1}
  Requests = {x, v}
  RequestIds = {idx, idxy}
  Seats = {A, B}
  IdOf <- MiscIdOf
  SeatOf <- MiscSeatOf
  ServiceOf <- MiscServiceOf
  Invalid = {v}
  MemoFits <- MiscMemoFits
  Contents <- MiscContents
  Receipts <- MiscReceipts
  Transfers <- MiscTransfers
  Window = 1
  MaxAttempts = 2
  MaxMessages = 2
  MaxTransfers = 2
  MaxBatch = 2
  MaxFailures = 2
  MaxOutages = 1
INVARIANTS
  HandledIsAnswered
PROPERTIES
  EveryMessageHandled
CHECK_DEADLOCK FALSE
