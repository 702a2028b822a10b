\* Hazards, reports and reviews of one mission.
SPECIFICATION LiveObstacleSpec
CONSTANTS
  NoStep = "none"
  Steps <- MCSteps
  SkillOf <- MCSkillOf
  RefOf <- MCRefOf
  Plans <- MCPlans
  Tasks <- MCTasks
  Revisions <- MCRevisions
  MaxAttempts = 1
  LocalRepair = FALSE
  MaxCalls = 4
  HoverFallback = "CANCEL_AND_LAND"
  MaxProposals = 2
INVARIANTS
  HoldIsOwned
  ReplanningAgrees
  FliesNewPlan
PROPERTY MissionEnds
