------------------------------ MODULE WireCheck ------------------------------
(***************************************************************************)
(* The wire protocol on every buffer: MpiTransport::Send serializes a      *)
(* message and Poll decodes what it finds; and any other sequence of bytes *)
(* that a buffer may hold, cut short or not a message at all.              *)
(***************************************************************************)
EXTENDS WireProtocol, SequencesExt

CONSTANTS
  Participants,  \* the longest list of participants of a message sent
  WidestId,      \* the largest id of a party: more than PartyIdSize holds
  MaxLength      \* the longest buffer of arbitrary bytes

\* A party has no more members than there are ranks, which an int counts.
ASSUME WireCheckAssumption ==
  /\ {WidestId, MaxLength} \subseteq Nat
  /\ Participants \in Unsigned(CountSize)

VARIABLES
  sent,  \* the message the buffer was made from, as a set
  data   \* the buffer

vars == <<sent, data>>

Tickets == [pid : Unsigned(PidSize), ts : Unsigned(TimestampSize)]

Messages ==
  {Request(t) : t \in Tickets}
    \union {Reply(s, t) : s, t \in Tickets}
    \union {PartyStart(s, id, pids) :
              s \in Tickets, id \in 0 .. WidestId,
              pids \in BoundedSeq(Unsigned(PidSize), Participants)}

Init == sent = {} /\ data = <<>>

\* MpiTransport::Send and Broadcast.
Transmit ==
  /\ data = <<>>
  /\ \E m \in Messages :
       /\ sent' = {m}
       /\ data' = Serialize(m)

\* One more byte of a buffer that no message was written to.
AnyByte ==
  /\ sent = {}
  /\ Len(data) < MaxLength
  /\ \E b \in Byte : data' = Append(data, b)
  /\ UNCHANGED sent

Next == Transmit \/ AnyByte

Spec == Init /\ [][Next]_vars
-----------------------------------------------------------------------------
\* A message as it comes out: the id of a PARTY_START has 64 bits in the message
\* and 32 on the wire, everything else has its width.
Narrowed(m) ==
  IF m.type = kPartyStart
  THEN [m EXCEPT !.id = @ % Power[PartyIdSize]]
  ELSE m

\* The receiver decodes what was sent, the id of the party narrowed to the width
\* it has in the program (CreatePartyId returns a PartyId); only a PARTY_START
\* with more participants than Deserialize accepts is lost.
RoundTrip ==
  \A m \in sent :
    Deserialize(data) =
      IF m.type = kPartyStart /\ Len(m.participants) > MaxParticipants
      THEN {}
      ELSE {Narrowed(m)}

\* A message that lost its tail is refused: it never turns into another message,
\* such as a party without its last members.
TruncationIsDetected ==
  \A m \in sent : \A n \in 0 .. Len(data) - 1 :
    Deserialize(SubSeq(data, 1, n)) = {}

\* Whatever a buffer holds, a message that comes out of it is written in it:
\* nothing is made up, and bytes behind the message change nothing.
NothingInvented ==
  \A m \in Deserialize(data) : IsPrefix(Serialize(m), data)
=============================================================================
