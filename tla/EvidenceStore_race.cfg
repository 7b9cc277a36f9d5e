SPECIFICATION StoreSpec
CONSTANTS
  alpha = alpha
  beta = beta
  general = general
  coding = coding
  d1 = d1
  d2 = d2
  d3 = d3
  p1 = p1
  p2 = p2
  p3 = p3
  h1 = h1
  h2 = h2
  NoCall = NoCall
  Handlers = {h1, h2}
  Sellers = {alpha, beta}
  TaskTypes = {general, coding}
  General = general
  Verifications <- StoreVerifications
  Canaries <- StoreCanaries
  Queries <- StoreQueries
  MaxEvents = 4
  PageLimit = 2
INVARIANTS
  StoreTypeOK
  SnapshotIsOfTheCall
  SafeRouteIsJustified
  ChainVerifies
  ReceiptsResolve
PROPERTIES
  StoreIsAtomic
  CallsEnd
CHECK_DEADLOCK FALSE
