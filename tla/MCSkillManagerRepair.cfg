SPECIFICATION SkillSpec
CONSTANTS
  NoStep = "none"
  Steps <- MCSteps
  SkillOf <- MCSkillOf
  RefOf <- MCRefOf
  Plans <- MCPlans
  Tasks <- MCTasks
  Revisions <- MCAround
  MaxAttempts = 1
  LocalRepair = TRUE
  MaxCalls = 2
INVARIANT StepRunsOwnGoal
