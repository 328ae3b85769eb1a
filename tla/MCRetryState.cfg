SPECIFICATION Spec
CONSTANTS
  c1 = c1
  f1 = f1
  f2 = f2
  m1 = m1
  m2 = m2
  e1 = e1
  None = None
  HistoryCapacity = 2
  CounterMax = 10
  MaxGenerations = 2
  Configurations = {c1}
  FailureClasses = {f1, f2}
  Markers = {m1, m2}
  Evaluators = {e1}
SYMMETRY Symmetry
INVARIANTS
  CurrentSnapshotIsExact
  TypeOK
  EvaluableIffEvidenceComplete
  StoppedIffIntentAbsent
  FailuresAccountForAttempts
  HistoryIsLatestFailures
  CooldownBelongsToWaitingAttempt
PROPERTIES
  StaleSnapshotNeverRevives
  NoOverlappingAttempts
  ExhaustionIsSticky
\* every counter may be at its maximum, where all transitions are refused
CHECK_DEADLOCK FALSE
