SPECIFICATION EvaluationSpec
CONSTANTS
  e1 = e1
  m1 = m1
  None = None
  HistoryCapacity = 1
  CounterMax = 12
  FirstAttemptRevisions = 8
  MaxGenerations = 2
  SecondIntentRevisions = 1
  Configurations <- MCConfigurations
  FailureClasses <- MCFailures
  Markers = {m1}
  Evaluators = {e1}
  Definitions <- MCDefinitions
  OptionalEvidence <- MCOptionalEvidence
CONSTRAINT RevisionBound
INVARIANTS
  BudgetIsRespected
  PermitHasItsEvidence
  PermittedRecoveryIsAccepted
  IdentityDistinguishes
PROPERTIES
  RecoveryWaitsForCooldown
\* every counter may be at its maximum, where all transitions are refused
CHECK_DEADLOCK FALSE
