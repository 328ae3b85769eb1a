SPECIFICATION Spec
CONSTANTS
  None = None
  HandoffCapacity = 1
  PacketLimit = 1
  HasDeadline = FALSE
  PanicsPossible = TRUE
  CounterMax = 20
INVARIANTS
  ReleasedMeansQuiet
  EvaluationIsCurrent
  EvidenceIsWhatTheConsumerSaw
  DecisionFollowsTheStream
PROPERTIES
  EveryCallReturns
\* a supervisor may complete and never be called again
CHECK_DEADLOCK FALSE
