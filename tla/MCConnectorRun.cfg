SPECIFICATION RunSpec
SYMMETRY Symmetry
CONSTANTS
  w1 = w1
  w2 = w2
  con = con
  src = src
  small = small
  large = large
  broken = broken
  None = None
  Workers = {w1, w2}
  RawWorkers = {w1, w2}
  Jobs = {con}
  Sources = {src}
  SourceOf <- MCSourceOf
  KindOf <- MCKindOf
  Cadence <- MCCadence
  Jitter <- MCJitter
  LeaseSeconds = 60
  ClaimLimit = 20
  Instants = {0, 60, 660}
  Offers <- MCOffers
  MaxDecisions = 2
  MaxActivations = 0
  MaxCrashes = 1
  Bodies = {small, large, broken}
  Malformed = {broken}
  RecordsOf <- MCRecordsOf
INVARIANTS RunTypeOK EvidenceBeforeRecords SuccessPublishesAll AttemptsLeaveTraces RunsKeepCadence
PROPERTIES ImplementsScheduler
