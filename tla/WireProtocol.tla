---------------------------- MODULE WireProtocol ----------------------------
(***************************************************************************)
(* Messages as bytes (wire/wire_protocol.cpp on wire/byte_io.hpp): a byte  *)
(* for the type, then integers of fixed size, least significant byte       *)
(* first, and for a PARTY_START the number of participants and their pids. *)
(* A buffer that is not a message decodes to nothing ({}), and             *)
(* MpiTransport::Poll drops it.                                            *)
(***************************************************************************)
EXTENDS Integers, Sequences

CONSTANTS
  ByteSpan,        \* 256: a byte is less than this
  PidSize,         \* sizeof(Pid) = 4
  TimestampSize,   \* sizeof(Timestamp) = 8
  PartyIdSize,     \* sizeof(PartyId) = 4
  CountSize,       \* sizeof(std::uint32_t) = 4
  MaxParticipants  \* 1 000 000: Deserialize refuses more

ASSUME WireAssumption ==
  /\ ByteSpan \in Nat /\ ByteSpan > 3
  /\ {PidSize, TimestampSize, PartyIdSize, CountSize} \subseteq Nat \ {0}
  /\ MaxParticipants \in Nat

Byte == 0 .. ByteSpan - 1

\* How many values n bytes have, and those of an unsigned integer of a size.
Power[n \in Nat] == IF n = 0 THEN 1 ELSE ByteSpan * Power[n - 1]
Unsigned(size) == 0 .. Power[size] - 1

kRequest == 1
kReply == 2
kPartyStart == 3

Request(t) == [type |-> kRequest, request |-> t]
Reply(s, t) == [type |-> kReply, sender |-> s, request |-> t]
PartyStart(s, id, pids) ==
  [type |-> kPartyStart, sender |-> s, id |-> id, participants |-> pids]
-----------------------------------------------------------------------------
\* Slips in the operators below: the most significant byte first, a limit that
\* is one too small, a list of participants that ends with the buffer, a reply
\* that names the process that asked where it should name the one that answers.
BigEndian(value, size) ==
  [i \in 1 .. size |-> (value \div Power[size - i]) % ByteSpan]
FewerThanLimit(count) == count < MaxParticipants

\* ByteWriter::u<T>: a value that is too large for T has been narrowed to it.
Bytes(value, size) ==
  [i \in 1 .. size |-> (value \div Power[i - 1]) % ByteSpan]

\* Integers of these sizes, one after another: the bytes of the first n.
Written(values, sizes) ==
  LET first[n \in 0 .. Len(values)] ==
        IF n = 0 THEN <<>> ELSE first[n - 1] \o Bytes(values[n], sizes[n])
  IN  first
WriteAll(values, sizes) == Written(values, sizes)[Len(values)]

\* What follows the type in a message, and the participants of a PARTY_START.
TicketSizes == <<PidSize, TimestampSize>>
ReplySizes == <<PidSize, TimestampSize, PidSize, TimestampSize>>
StartSizes == <<PidSize, TimestampSize, PartyIdSize, CountSize>>
PidSizes(count) == [i \in 1 .. count |-> PidSize]

ReplyFields(s, t) == WriteAll(<<s.pid, s.ts, t.pid, t.ts>>, ReplySizes)
ReplyBytesSwapped(m) == ReplyFields(m.request, m.sender)
ReplyBytes(m) == ReplyFields(m.sender, m.request)

Serialize(m) ==
  <<m.type>> \o
  CASE m.type = kRequest ->
         WriteAll(<<m.request.pid, m.request.ts>>, TicketSizes)
    [] m.type = kReply -> ReplyBytes(m)
    [] m.type = kPartyStart ->
         LET count == Len(m.participants)
         IN  WriteAll(<<m.sender.pid, m.sender.ts, m.id, count>>, StartSizes)
               \o WriteAll(m.participants, PidSizes(count))
-----------------------------------------------------------------------------
\* ByteReader: the bytes that are left and the integers read so far; `ok` is
\* FALSE after a read for which too few bytes were left.
Reader(bytes) == [ok |-> TRUE, rest |-> bytes, read |-> <<>>]

\* The value of the first n bytes, and of all of them.
Sums(bytes) ==
  LET first[n \in 0 .. Len(bytes)] ==
        IF n = 0 THEN 0 ELSE first[n - 1] + bytes[n] * Power[n - 1]
  IN  first
Value(bytes) == Sums(bytes)[Len(bytes)]

\* ByteReader::u<T> and ByteReader::byte.
ReadOne(r, size) ==
  IF r.ok /\ Len(r.rest) >= size
  THEN [ok |-> TRUE,
        rest |-> SubSeq(r.rest, size + 1, Len(r.rest)),
        read |-> Append(r.read, Value(SubSeq(r.rest, 1, size)))]
  ELSE [r EXCEPT !.ok = FALSE]

\* Integers of these sizes, one after another: the reader after the first n.
\* A read that fails ends it.
Readers(r, sizes) ==
  LET after[n \in 0 .. Len(sizes)] ==
        IF n = 0 THEN [r EXCEPT !.read = <<>>] ELSE ReadOne(after[n - 1], sizes[n])
  IN  after
ReadAll(r, sizes) == Readers(r, sizes)[Len(sizes)]

PidsUpToEnd(r, count) == [ReadAll(r, PidSizes(count)) EXCEPT !.ok = r.ok]
ReadPids(r, count) == ReadAll(r, PidSizes(count))

CountAccepted(count) == count <= MaxParticipants

TicketOf(read, i) == [pid |-> read[i], ts |-> read[i + 1]]

\* A message, unless a read failed on the way to it.
Decoded(r, m) == IF r.ok THEN {m} ELSE {}

Deserialize(bytes) ==
  LET type == ReadOne(Reader(bytes), 1)
      Is(k) == type.read = <<k>>
      asked == ReadAll(type, TicketSizes)
      answered == ReadAll(type, ReplySizes)
      start == ReadAll(type, StartSizes)
      pids == ReadPids(start, start.read[4])
  IN  CASE Is(kRequest) -> Decoded(asked, Request(TicketOf(asked.read, 1)))
        [] Is(kReply) ->
             Decoded(answered, Reply(TicketOf(answered.read, 1),
                                     TicketOf(answered.read, 3)))
        [] Is(kPartyStart) /\ start.ok /\ CountAccepted(start.read[4]) ->
             Decoded(pids, PartyStart(TicketOf(start.read, 1), start.read[3],
                                      pids.read))
        [] OTHER -> {}
=============================================================================
