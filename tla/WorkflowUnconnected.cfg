CONSTANTS
  PhaseName <- DefaultNames
  Plans <- DefaultPlans
  U32 = 65536
  WorkflowMark = "workflow"
  CandidateLists <- MCSoundCandidates
  MaxFaults = 1
  MaxRuns = 2
SPECIFICATION WorkflowSpec
CHECK_DEADLOCK FALSE
INVARIANT ReleasedIsConnected
