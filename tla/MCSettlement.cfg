SPECIFICATION FairSpec
CONSTANTS
  Waiters = {w1}
  MaxRequeues = 1
  Failure <- MCFailure
  MaxDeliveries = 4
  Concurrency = 2
  MaxLosses = 1
INVARIANTS
  RequeuesBounded
  AnswersTrue
PROPERTIES
  MessageLeaves
  WaitersAnswered
CHECK_DEADLOCK FALSE
