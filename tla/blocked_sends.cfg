SPECIFICATION FairSpec
CONSTANTS
  NumHares = 2
  NumBears = 0
  PartyCapacity = 2
  HareWeight = 1
  BearWeight = 4
  PartyIdOffset = 100
  PartyIdSpan = 1000
  MaxRequests <- OneEach
  SendBuffer = 0
CHECK_DEADLOCK FALSE
PROPERTY MessagesAreHandled
