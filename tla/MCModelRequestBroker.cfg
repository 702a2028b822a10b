SPECIFICATION Spec
CONSTANTS
  Requests = {r1, r2, r3, r4}
  u1 = u1
  u2 = u2
  NoUav = NoUav
  NoKind = NoKind
  Kinds <- MCKinds
  MaxInflightGlobal = 3
  MaxInflightPerUav = 2
  MaxPendingPerUav = 2
  StarvationTimeout = 1
  MaxTime = 1
VIEW BrokerView
SYMMETRY Symmetry
CHECK_DEADLOCK FALSE
INVARIANTS
  OneVerdict
  WithinLimits
PROPERTIES
  TakenOnlyForUrgent
  NoBypass
  UrgentSettles
  AgedNotPassed
