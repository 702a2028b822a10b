SPECIFICATION RunnerSpec
CONSTANTS
  Requests = {r1, r2, r3}
  u1 = u1
  u2 = u2
  u3 = u3
  NoUav = NoUav
  NoKind = NoKind
  Nobody = Nobody
  Kinds <- MCKinds
  MaxInflightGlobal = 2
  MaxInflightPerUav = 1
  MaxPendingPerUav = 1
  StarvationTimeout = 1
  MaxTime = 1
  MaxWorkers = 2
  MaxOutstanding = 2
VIEW RunnerView
SYMMETRY Symmetry
CHECK_DEADLOCK FALSE
INVARIANTS
  LeasesMatch
  OneAnswer
  AuditComplete
PROPERTIES
  DeadlineRespected
