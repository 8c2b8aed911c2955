CONSTANTS
  Pages <- MCPages
  MaxLength = 3
  Capacity = 24
SPECIFICATION Spec
INVARIANT FramesMatch
PROPERTIES ImplementsExchange AnsweredClientIsHarmless PageArrives ServerFreed
CHECK_DEADLOCK FALSE
