\* Every append may fail.
SPECIFICATION FairEngineSpec
CONSTANTS
  PhaseName <- MCName
  Plans <- MCPlans
  U32 = 8
  WorkflowMark = "workflow"
  MaxSteps = 3
  StoreFails = TRUE
INVARIANTS
  EngineTypeOK
  LogIsContiguous
  NothingInvented
PROPERTY EngineTerminates
CHECK_DEADLOCK FALSE
