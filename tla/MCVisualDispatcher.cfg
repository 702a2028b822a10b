SPECIFICATION LiveSpec
CONSTANTS
  Requests = {r1, r2, r3}
  u1 = u1
  u2 = u2
  NoUav = NoUav
  NoKind = NoKind
  Nobody = Nobody
  Kinds <- OneVehicle
  MaxInflightGlobal = 1
  MaxInflightPerUav = 1
  MaxPendingPerUav = 1
  StarvationTimeout = 1
  MaxTime = 1
  MaxResults = 1
CHECK_DEADLOCK FALSE
INVARIANTS
  WorkHoldsLease
PROPERTIES
  EveryReviewAnswered
  ImplementsCalls
