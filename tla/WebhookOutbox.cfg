SPECIFICATION FairSpec
CONSTANTS
  s1 = s1
  s2 = s2
  e1 = e1
  p1 = p1
  p2 = p2
  Subs = {s1, s2}
  Events = {e1}
  Senders = {p1, p2}
  Instants = {0, 86400}
  BatchLimit = 2
  MaxCrashes = 1
  EventType <- MCEventType
  EventSource <- MCEventSource
  Topics <- MCTopics
  Scope <- MCScope
  MayBeSealed = {s2}
  NoDelivery = NoDelivery
INVARIANTS OutboxTypeOK OnlyVerifiedReceive DeliveredWasAccepted ExclusiveUnlessOverrun
PROPERTIES SettledStaysSettled DueIsAttempted
