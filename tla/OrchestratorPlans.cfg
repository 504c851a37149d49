CONSTANTS
  p = p
  q = q
  r = r
  missing = missing
  MaxRetries = 2
  WorkflowMark = WorkflowMark
  U32 = 20
  PhaseName <- MCName
  Plans <- MCPlans
SPECIFICATION FairSpec
CHECK_DEADLOCK FALSE
INVARIANTS
  TypeOK
  CapNeverExceeded
  UpstreamPassed
  FailuresPaidFor
  RerunsPaidFor
  GivesUpLast
PROPERTIES
  ImplementsReworkLoop
  Terminates
