SPECIFICATION FairSpec
CONSTANTS
  NumHares = 1
  NumBears = 2
  PartyCapacity = 5
  HareWeight = 1
  BearWeight = 4
  PartyIdOffset = 100
  PartyIdSpan = 1000
  MaxRequests <- Again0
  PartyOutlastsTraffic = TRUE
CHECK_DEADLOCK FALSE
INVARIANTS
  QueuedIsKnownToAll
  NoLostRequest
  OldestLeads
  HeadStartsParty
  LeadingNow
PROPERTIES
  LeaderIsFree
  DueUntilServed
  RequestsAreAnswered
  OldestIsServed
