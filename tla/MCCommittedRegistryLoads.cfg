SPECIFICATION Spec
CONSTANTS
  None = None
  PowerLossPossible = FALSE
  Continuities <- MCContinuities
  Names = {"n"}
  Observations <- MCObservations
  MaxEndpoints = 1
  MaxRevision <- Four
  MaxNamespaces = 1
INVARIANTS
  CommittedRegistryLoads
CHECK_DEADLOCK FALSE
