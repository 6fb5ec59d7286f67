SPECIFICATION Spec
CONSTANTS
  Kinds = {"good", "bad", "large", "over"}
  Faults = {"abandon", "scratch"}
  MaxRequests = 4
INVARIANT TypeOK
INVARIANT OneInside
INVARIANT AnswerIsOwn
PROPERTY ProcessedOnce
PROPERTY EveryRequestAnswered
CHECK_DEADLOCK FALSE
