SPECIFICATION Spec
CONSTANTS
  None = None
  HandoffCapacity = 2
  PacketLimit = 4
  HasDeadline = FALSE
  PanicsPossible = FALSE
INVARIANTS
  StartedStreamIsEnded
CHECK_DEADLOCK FALSE
