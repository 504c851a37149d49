\* A phase succeeds, and its PhaseCompleted is lost.
SPECIFICATION EngineSpec
CONSTANTS
  PhaseName <- MCName
  Plans <- MCPlans
  U32 = 1000
  WorkflowMark = "workflow"
  MaxSteps = 3
  StoreFails = TRUE
INVARIANT CompletionRecorded
CHECK_DEADLOCK FALSE
