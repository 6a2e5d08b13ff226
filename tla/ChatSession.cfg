SPECIFICATION Spec
CONSTANTS
  Kind = {"plain", "bash"}
  Approvals = {TRUE, FALSE}
  MaxSteps = 2
  MaxRequests = 3
  MaxCalls = 3
  MaxCompactions = 1
  MaxFaults = 1
INVARIANTS
  ClientCanContinue
  SentWellFormed
  RunsOnce
  RanApproved
  AnswersAreTrue
  RememberedIsNotAsked
CHECK_DEADLOCK FALSE
