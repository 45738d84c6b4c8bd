SPECIFICATION FairSpec
CONSTANTS
  w1 = w1
  w2 = w2
  con = con
  mon = mon
  src = src
  None = None
  Workers = {w1, w2}
  RawWorkers = {w1}
  Jobs = {mon}
  Sources = {src}
  SourceOf <- MCSourceOf
  KindOf <- MCKindOf
  Cadence <- MCCadence
  Jitter <- MCJitter
  LeaseSeconds = 60
  ClaimLimit = 20
  Instants = {0, 60, 660}
  Offers <- MCExpiringOffers
  MaxDecisions = 2
  MaxActivations = 2
  MaxCrashes = 1
PROPERTIES UnauthorisedJobIsPaused DueJobIsRescheduled KillSwitchesHold
