SPECIFICATION Spec
CONSTANTS
  A = A
  B = B
  idx = idx
  idxy = idxy
  x = x
  xy = xy
  bx = bx
  v = v
  NotARequest = NotARequest
  Watchers = {w1, w2}
  Requests <- MCRequests
  RequestIds = {idx, idxy}
  Seats = {A, B}
  IdOf <- MCIdOf
  SeatOf <- MCSeatOf
  ServiceOf <- MCServiceOf
  Invalid = {}
  MemoFits <- MCMemoFits
  Contents = {x, xy}
  Receipts = {}
  Transfers <- MCTransfers
  Window = 2
  MaxAttempts = 3
  MaxMessages = 2
  MaxTransfers = 2
  MaxBatch = 1
  MaxFailures = 1
  MaxOutages = 0
SYMMETRY WatcherSymmetry
INVARIANTS
  PaidBeforeTurn
  OneTransferOneDelivery
  ClaimsAreUnique
  DeliveredWasRun
  LeftoverGrants
CHECK_DEADLOCK FALSE
