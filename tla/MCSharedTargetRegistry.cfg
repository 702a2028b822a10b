SPECIFICATION RegistrySpec
CONSTANTS
  Assignments = {1, 2, 3}
  Uavs = {1, 2, 3}
  x1 = x1
  Targets <- OneTarget
  Priorities = {0, 1}
  Exclusive = TRUE
  Unbound = Unbound
  NoStage = NoStage
  MaxTime = 1
INVARIANTS
  NothingShared
PROPERTIES
  RankDecides
  HistoryKept
