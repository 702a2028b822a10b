SPECIFICATION SkillSpec
CONSTANTS
  NoStep = "none"
  Steps <- MCSteps
  SkillOf <- MCSkillOf
  RefOf <- MCRefOf
  Plans <- MCPlans
  Tasks <- MCTasks
  Revisions <- MCDropInspect
  MaxAttempts = 1
  LocalRepair = TRUE
  MaxCalls = 4
PROPERTY SkipsInspected
