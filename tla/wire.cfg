SPECIFICATION Spec
CONSTANTS
  ByteSpan = 4
  PidSize = 1
  TimestampSize = 2
  PartyIdSize = 1
  CountSize = 1
  MaxParticipants = 2
  Participants = 3
  WidestId <- MCWidestId
  MaxLength = 8
INVARIANTS
  RoundTrip
  TruncationIsDetected
  NothingInvented
CHECK_DEADLOCK FALSE
