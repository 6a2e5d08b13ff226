SPECIFICATION FairSpec
CONSTANTS
  Kind = {"bash", "runbook"}
  MaxSteps = 2
  PoolSize = 1
  MaxQuestions = 2
  MaxCalls = 2
  MaxCompactions = 1
  MaxAborts = 1
INVARIANTS
  SentWellFormedUnlessAborted
  
  AnswersAreTrue
  RestrictedNeedsRunbook
PROPERTIES
  QuestionEnds
CHECK_DEADLOCK FALSE
