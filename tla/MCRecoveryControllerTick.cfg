SPECIFICATION RecoverySpec
CONSTANTS
  Uavs = {1, 2, 3}
  Assignments = {1, 2}
  FirstHolder <- MCFirstHolder
  Corridors <- MCCorridors
  FirstRoute <- MCFirstRoute
  Related <- MCRelated
  Modes = {"LOCAL_ONLY", "LOCAL_THEN_REASSIGN"}
  MaxLocalAttempts = 2
  MaxReassignAttempts = 2
  MaxScope = 2
  MaxFaults <- MCMaxFaults
  MaxHandOvers <- MCMaxHandOvers
INVARIANT TickReturns
