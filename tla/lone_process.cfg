SPECIFICATION Spec
CONSTANTS
  NumHares = 1
  NumBears = 0
  PartyCapacity = 1
  HareWeight = 1
  BearWeight = 4
  PartyIdOffset = 100
  PartyIdSpan = 1000
  MaxRequests <- OneEach
  PartyOutlastsTraffic = FALSE
CHECK_DEADLOCK FALSE
INVARIANTS
  WaitingMissesReply
