SPECIFICATION Spec
CONSTANTS
  s1 = s1
  s2 = s2
  Launchers = {l1, l2}
  Seats = {s1, s2}
  NoSeat = NoSeat
  MaxSignals = 3
  MaxSwitches = 2
INVARIANTS
  TypeOK
  NoOrphanBackend
  WatchedIsReachable
  
PROPERTIES
  EndsTogether
CHECK_DEADLOCK FALSE
