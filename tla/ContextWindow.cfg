CONSTANTS
  Window = 24
  MaxOutput = 4
  Reservation = 3
  ThresholdPct = 95
  Definitions = 4
  Note = 1
  Questions <- MCQuestions
  Outputs <- MCOutputs
  Completions <- MCCompletions
  Summaries <- MCSummaries
  PerToken <- MCPerToken
  MaxBatch = 3
  MaxSteps = 3
  MaxQuestions = 2
SPECIFICATION WindowSpec
INVARIANTS
  
  SpaceIsShared
  PromptsSurvive
CHECK_DEADLOCK FALSE
