CONSTANTS
  NumWorkers = 3
  MaxPaths = 4
  Capacity = 2
  Fit = 2
  MaxCommands = 3
  MaxText = 1
SPECIFICATION FairSpec
INVARIANTS SearchTypeOK SharedInTurn AnswersPaired ListIsFresh
PROPERTIES FirstPathArrives SearchReplied ShutdownEndsEngine
CHECK_DEADLOCK FALSE
