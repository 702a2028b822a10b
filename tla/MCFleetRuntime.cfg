\* Two vehicles and a spare one under every policy and handler.
SPECIFICATION FleetFairSpec
CONSTANTS
  Assignments = {1, 2, 3}
  Uavs = {1, 2, 3}
  Targets = {"car", "boat"}
  Priorities <- MCPriorities
  Exclusive = TRUE
  Unbound = Unbound
  NoStage = NoStage
  MaxTime = 0
  InitialPlan <- MCTwoPlanned
  Required = {"car"}
  Policies = {"REPORT_AND_REPLAN", "REPORT_ONLY", "CANCEL_FLEET"}
  Handlers <- MCHandlers
INVARIANTS
  NoneForgotten
  ClaimsRouted
  GoalsReached
  GoalsKept
  NoStrayFlight
PROPERTIES
  TerminalKept
  OwnLandingNotHeld
  CancelEnds
