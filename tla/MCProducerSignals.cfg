SPECIFICATION SignalsFairSpec
CONSTANTS
  Emitters = {"loop", "publisher", "shutdown"}
  Capacity = 2
  MaxEmits <- MCMaxEmits
  MaxNotices = 1
  MaxLosses = 1
  MaxPublishes = 1
INVARIANTS
  LossesAccounted
  CloseHasRoom
  BlockedFaithful
  LifecycleHeard
  OutageReported
PROPERTIES
  LivenessFinal
  StreamsClose
CHECK_DEADLOCK FALSE
