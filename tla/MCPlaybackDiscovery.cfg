SPECIFICATION Spec
CONSTANTS
  None = None
  PowerLossPossible = TRUE
  Continuities <- MCContinuities
  Names = {"n"}
  Observations <- MCObservations
  MaxEndpoints = 2
  MaxRevision <- FourThenTwo
  MaxNamespaces = 2
VIEW MCView
INVARIANTS
  OneIdentityPerContinuity
  PublishedIdsKeepTheirMeaning
  RevisionIdentifiesSnapshot
  ShownIsCommitted
  StartedOnTheIntendedSource
PROPERTIES
  AtomicReplacement
\* the bounds stop the revisions and the namespaces
CHECK_DEADLOCK FALSE
