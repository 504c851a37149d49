CONSTANTS
  PhaseName <- DefaultNames
  Plans <- DefaultPlans
  U32 = 65536
  WorkflowMark = "workflow"
  CandidateLists <- MCCandidateLists
  MaxFaults = 1
  MaxRuns = 3
  Side <- MCSide
  PadRow <- MCPadRow
  OffPad <- MCOffPad
  MaxTracks = 3
SPECIFICATION FairWorkflowSpec
CHECK_DEADLOCK FALSE
INVARIANTS
  WorkflowTypeOK
  ReleasedIsVerified
  NothingTwice
  ReleasedIsComplete
  OpenIsCut
  CourtyardsNeverOverlap
  CopperInsideCourtyards
  StatedSpacingIsWaived
  CopperRuleIsExact
PROPERTIES
  FailureIsExplained
  ReentryMakesNothing
  RunReturns
