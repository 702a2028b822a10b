SPECIFICATION LiveSkillSpec
CONSTANTS
  NoStep = "none"
  Steps <- MCSteps
  SkillOf <- MCSkillOf
  RefOf <- MCRefOf
  Plans <- MCPlans
  Tasks <- MCTasks
  Revisions <- MCRevisions
  MaxAttempts = 2
  LocalRepair = TRUE
  MaxCalls = 6
INVARIANTS
  SuccessIsEarned
PROPERTIES
  ImplementsLifecycle
  HoldLeavesNoTrace
  WorkKept
  TaskEnds
