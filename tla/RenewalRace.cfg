SPECIFICATION Spec
CONSTANTS
  w1 = w1
  w2 = w2
  con = con
  mon = mon
  src = src
  None = None
  Workers = {w1}
  RawWorkers = {w1}
  Jobs = {con}
  Sources = {src}
  SourceOf <- MCSourceOf
  KindOf <- MCKindOf
  Cadence <- MCCadence
  Jitter <- MCJitter
  LeaseSeconds = 60
  ClaimLimit = 20
  Instants = {0, 60}
  Offers <- MCOffers
  MaxDecisions = 2
  MaxActivations = 1
  MaxCrashes = 0
PROPERTIES RenewalKeepsSchedule
