SPECIFICATION Spec
CONSTANTS
  A = A
  B = B
  idx = idx
  idxy = idxy
  x = x
  xy = xy
  bx = bx
  v = v
  NotARequest = NotARequest
  Watchers = {w1}
  Requests <- MCRequests
  RequestIds = {idx, idxy}
  Seats = {A, B}
  IdOf <- MCIdOf
  SeatOf <- MCSeatOf
  ServiceOf <- MCServiceOf
  Invalid = {}
  MemoFits <- MCMemoFits
  Contents <- MCRequests
  Receipts = {}
  Transfers <- MCTransfers
  Window = 2
  MaxAttempts = 3
  MaxMessages = 3
  MaxTransfers = 2
  MaxBatch = 2
  MaxFailures = 1
  MaxOutages = 0
INVARIANTS
  DeliveredReceiptIsBound
CHECK_DEADLOCK FALSE
