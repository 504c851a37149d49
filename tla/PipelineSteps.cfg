\* One process, one failed write, and a crash anywhere.
CONSTANTS
  Unreadable = Unreadable
  Intents <- MCIntents
  Autonomy = "Autonomous"
  Faults = {"crash", "write"}
  PhaseName <- DefaultNames
  Plans <- MCPlans
  U32 = 65536
  WorkflowMark = "workflow"
  CandidateLists <- MCCandidateLists
  MaxFaults = 1
  MaxRuns = 1
SPECIFICATION PipelineSpec
CHECK_DEADLOCK FALSE
INVARIANT ReleaseIsOnRecord
PROPERTIES
  ImplementsWorkflow
  ProcessEnds
