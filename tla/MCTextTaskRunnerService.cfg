SPECIFICATION ServiceSpec
CONSTANTS
  Requests = {r1, r2, r3}
  u1 = u1
  u2 = u2
  u3 = u3
  NoUav = NoUav
  NoKind = NoKind
  Nobody = Nobody
  Kinds <- ServiceKinds
  MaxInflightGlobal = 2
  MaxInflightPerUav = 1
  MaxPendingPerUav = 1
  StarvationTimeout = 1
  MaxTime = 1
  MaxWorkers = 1
  MaxOutstanding = 2
CHECK_DEADLOCK FALSE
PROPERTIES
  AnsweredByDeadline
  ReviewServed
