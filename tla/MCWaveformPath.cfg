SPECIFICATION Spec
CONSTANTS
  a = a
  b = b
  None = None
  NanosPerSecond = 10
  WordMax = 85
  WindowDuration = 7
  MaxWindowsPerPush = 2
  Rates = {3, 4}
  Streams = {a, b}
  FirstPositions = {0, 5, 80}
  PacketFrames = {0, 1, 2, 3, 5, 7}
  FrameLimit = 10
  PushLimit = 4
INVARIANTS
  WindowsAreExact
  DeviceFramesAreAccepted
\* the streams end at their bounds
CHECK_DEADLOCK FALSE
