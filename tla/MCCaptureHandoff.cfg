SPECIFICATION Spec
CONSTANTS
  None = None
  HandoffCapacity = 2
  PacketLimit = 4
  HasDeadline = TRUE
  PanicsPossible = TRUE
INVARIANTS
  BuffersConserved
  ReleasedBeforeCompletion
  ShutdownOnlyWhenAsked
  FinishedIsWhatTheConsumerSaw
PROPERTIES
  ImplementsStreamContract
  ReleasedEventually
\* the owner may be dropped or completed for good
CHECK_DEADLOCK FALSE
