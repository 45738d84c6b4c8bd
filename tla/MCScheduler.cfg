SPECIFICATION Spec
SYMMETRY Symmetry
CONSTANTS
  w1 = w1
  w2 = w2
  con = con
  mon = mon
  src = src
  None = None
  Workers = {w1, w2}
  RawWorkers = {w1, w2}
  Jobs = {con, mon}
  Sources = {src}
  SourceOf <- MCSourceOf
  KindOf <- MCKindOf
  Cadence <- MCCadence
  Jitter <- MCJitter
  LeaseSeconds = 60
  ClaimLimit = 20
  Instants = {0, 60}
  Offers <- MCNarrowOffers
  MaxDecisions = 2
  MaxActivations = 1
  MaxCrashes = 1
INVARIANTS TypeOK ExclusiveConnectorClaim PausedJobHoldsNoLease FailedAttemptIsAudited
PROPERTIES KillSwitchesHold ImplementsLedger
