SPECIFICATION Spec
CONSTANTS
  s1 = s1
  s2 = s2
  None = None
  Sessions = {s1}
  Capturing = {s1}
  Limit = 1
  QueueCapacity = 2
  PacketWindows = 2
  WindowLimit = 3
  OwnerErrors = {"SourceUnavailable"}
INVARIANTS
  SequenceIncreasesByOne
\* a service that was shut down has nothing left to do
CHECK_DEADLOCK FALSE
