CONSTANTS
  Exchange <- MCExchange
  Reply <- MCReply
  Filter = {f1, f2}
  NoFilter = none
  MaxCalls = 3
SPECIFICATION Spec
SYMMETRY Symmetric
INVARIANTS
  AnswersAreTrue
  RunsTwiceOnlyIf
  RefusalIsFounded
  
CHECK_DEADLOCK FALSE
