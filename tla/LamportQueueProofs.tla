------------------------- MODULE LamportQueueProofs -------------------------
(***************************************************************************)
(* For any number of hares and bears, any capacity and any number of       *)
(* requests: every variable keeps its type; LocalThread, state, queue and  *)
(* pending request agree; channels carry messages in the order of their    *)
(* stamps, so replies fence requests; and an outstanding request is the    *)
(* newest ticket of its owner.                                             *)
(***************************************************************************)
EXTENDS LamportQueueProperties, PolicyProofs, SequenceTheorems
-----------------------------------------------------------------------------
\* Types, and the lemmas about the operators of the algorithm that every other
\* proof about it starts from.

Channels ==
  {n \in [Pid -> [Pid -> Seq(Message)]] : \A p \in Pid : n[p][p] = <<>>}

\* A party id fits its width.
LEMMA PartyIdType ==
  ASSUME NEW i \in Nat PROVE i % PartyIdSpan \in PartyId
BY AlgorithmAssumption DEF PartyId

\* Broadcasting a message keeps the channels well typed.
LEMMA BroadcastType ==
  ASSUME NEW n \in Channels, NEW p \in Pid, NEW m \in Message
  PROVE  Broadcast(n, p, m) \in Channels
<1>1. \A r \in Pid : Append(n[p][r], m) \in Seq(Message)
  BY AppendProperties DEF Channels
<1> QED
  BY <1>1 DEF Broadcast, Channels

\* Sending a message to another process keeps the channels well typed.
LEMMA SendType ==
  ASSUME NEW n \in Channels, NEW p \in Pid, NEW q \in Pid \ {p}, NEW m \in Message
  PROVE  [n EXCEPT ![p][q] = Append(@, m)] \in Channels
<1>1. Append(n[p][q], m) \in Seq(Message)
  BY AppendProperties DEF Channels
<1> QED
  BY <1>1 DEF Channels

\* The head of a channel is a message of its type, and taking it is well typed.
LEMMA ArrivesType ==
  ASSUME TypeOK, NEW p \in Pid, NEW q \in Pid \ {p}, NEW type, Arrives(p, q, type)
  PROVE  /\ Consumed(p, q) \in Channels
         /\ Head(net[q][p]) \in Message
         /\ Head(net[q][p]).type = type
<1>1. net[q][p] \in Seq(Message) /\ net[q][p] # <<>>
  BY DEF TypeOK, Arrives
<1>2. Tail(net[q][p]) \in Seq(Message) /\ Head(net[q][p]) \in Message
  BY <1>1, HeadTailProperties
<1>3. Consumed(p, q) \in Channels
  BY <1>2 DEF Consumed, Channels, TypeOK
<1> QED
  BY <1>2, <1>3 DEF Arrives

\* What a handler may hand over to Recompute and GoToParty.
Handed(now, q, n) == now \in Nat /\ q \in SUBSET Ticket /\ n \in Channels

\* OnReceive moves the clock past both times.
LEMMA OnReceiveType ==
  ASSUME NEW now \in Nat, NEW remote \in Nat
  PROVE  /\ OnReceive(now, remote) \in Nat
         /\ now < OnReceive(now, remote) /\ now <= OnReceive(now, remote)
         /\ remote < OnReceive(now, remote)
BY DEF OnReceive

\* A handler in which p enters a party leaves the channels n.
EntersParty(p, ps, now, q, n) == GoToParty(p, ps, now, q) /\ net' = n

\* Entering a party is well typed.
LEMMA GoToPartyType ==
  ASSUME TypeOK, NEW p \in Pid, NEW ps \in Message, ps.type = "PartyStart",
         NEW now, NEW q, NEW n, Handed(now, q, n),
         EntersParty(p, ps, now, q, n), partyCounter' \in [Pid -> PartyId]
  PROVE  TypeOK'
<1>1. ps.sender.pid \in Pid /\ ps.id \in PartyId /\ ps.participants \in SUBSET Pid
  BY DEF Message, Ticket
<1>2. [leader |-> ps.sender.pid, id |-> ps.id, members |-> ps.participants] \in Party
  BY <1>1 DEF Party
<1>3. Remove(q, ps.participants) \in SUBSET Ticket
  BY RemoveType DEF Handed
<1>4. party' \in [Pid -> SUBSET Party]
  BY <1>2 DEF EntersParty, GoToParty, TypeOK
<1>5. /\ state' \in [Pid -> AppState]
      /\ queue' \in [Pid -> SUBSET Ticket]
      /\ clock' \in [Pid -> Nat]
  BY <1>3 DEF EntersParty, GoToParty, TypeOK, AppState, Handed
<1>6. /\ pending' \in [Pid -> SUBSET Ticket]
      /\ replies' \in [Pid -> SUBSET Pid]
      /\ inside' \in [Pid -> BOOLEAN]
      /\ shouldWant' \in [Pid -> BOOLEAN]
      /\ issued' \in [Pid -> Nat]
  BY DEF EntersParty, GoToParty, TypeOK
<1>7. net' \in Channels
  BY DEF EntersParty, Handed
<1> QED
  BY <1>4, <1>5, <1>6, <1>7 DEF TypeOK, Channels

\* The PARTY_START that a leader composes is a message.
LEMMA StartType ==
  ASSUME TypeOK, NEW p \in Pid, NEW now \in Nat, NEW group \in SUBSET Pid
  PROVE  PartyStartMsg([pid |-> p, ts |-> now], CreatePartyId(p, now), group)
           \in Message
<1>1. CreatePartyId(p, now) \in PartyId
  <2>1. partyCounter[p] + now \in Nat
    BY DEF TypeOK, PartyId
  <2> QED
    BY <2>1, PartyIdType DEF CreatePartyId
<1> QED
  BY <1>1 DEF PartyStartMsg, Message, Ticket

\* The two ways in which Recompute ends.
StaysOut(p, now, q, got, n) ==
  /\ Starts(p, now, q, got) = {}
  /\ IF Queued(p, got)
     THEN /\ state[p] \in {"waiting", "queued"}
          /\ state' = [state EXCEPT ![p] = "queued"]
     ELSE state' = state
  /\ \E time \in {now, now + 1} : clock' = [clock EXCEPT ![p] = time]
  /\ queue' = [queue EXCEPT ![p] = q]
  /\ replies' = [replies EXCEPT ![p] = got]
  /\ net' = n
  /\ UNCHANGED <<pending, party, partyCounter, localVars>>

StartsParty(p, now, q, got, n) ==
  \E start \in Message :
    /\ start.type = "PartyStart"
    /\ start.sender.pid = p
    /\ start.sender.ts > now
    /\ p \in start.participants
    /\ start.participants = TryFormGroup(q)
    /\ Queued(p, got) /\ AmLeader(p, q)
    /\ state[p] \in {"waiting", "queued"}
    /\ EntersParty(p, start, start.sender.ts, q, Broadcast(n, p, start))
    /\ partyCounter' \in [Pid -> PartyId]

\* Recompute either leaves p out of a party or has p start one.
LEMMA RecomputeCases ==
  ASSUME TypeOK, NEW p \in Pid, NEW now, NEW q, NEW got, NEW n,
         Handed(now, q, n), Concludes(p, now, q, got, n)
  PROVE  StaysOut(p, now, q, got, n) \/ StartsParty(p, now, q, got, n)
<1> DEFINE time   == Time(p, now, got)
           starts == Starts(p, now, q, got)
           group  == IF Queued(p, got) /\ AmLeader(p, q) THEN TryFormGroup(q) ELSE {}
           start  == PartyStartMsg([pid |-> p, ts |-> Tick(time)],
                                   CreatePartyId(p, Tick(time)), group)
<1>1. time \in {now, now + 1} /\ time \in Nat /\ Tick(time) \in Nat /\ Tick(time) > now
  BY DEF Time, Tick, Handed
<1>2. group \in SUBSET Pid
  BY GroupIsPids DEF Handed, AmLeader
<1>3. Queued(p, got) => state[p] \in {"waiting", "queued"}
  BY DEF Queued, AllReplied
<1>4. starts = IF p \in group THEN {start} ELSE {}
  BY DEF Starts, MyTicket, PartyStartMsg
<1>5. CASE /\ starts = {}
           /\ state' = [state EXCEPT ![p] = IF Queued(p, got) THEN "queued" ELSE @]
           /\ clock' = [clock EXCEPT ![p] = time]
           /\ queue' = [queue EXCEPT ![p] = q]
           /\ replies' = [replies EXCEPT ![p] = got]
           /\ UNCHANGED <<pending, party, partyCounter, localVars>>
  <2> HIDE DEF time, starts
  <2>1. IF Queued(p, got)
        THEN /\ state[p] \in {"waiting", "queued"}
             /\ state' = [state EXCEPT ![p] = "queued"]
        ELSE state' = state
    BY <1>3, <1>5 DEF TypeOK
  <2>2. net' = n
    BY <1>5 DEF Concludes, Sends, starts
  <2> QED
    BY <1>1, <1>5, <2>1, <2>2 DEF StaysOut, starts
<1>6. ASSUME NEW m \in starts,
             GoToParty(p, m, m.sender.ts, q),
             partyCounter' = [partyCounter EXCEPT ![p] = (@ + 1) % PartyIdSpan]
      PROVE  StartsParty(p, now, q, got, n)
  <2> HIDE DEF time, group
  <2>1. p \in group /\ m = start /\ starts = {start}
    <3> HIDE DEF start, starts
    <3> QED BY <1>4
  <2>2. start \in Message
    BY <1>1, <1>2, StartType
  <2>3. /\ start.type = "PartyStart"
        /\ start.sender = [pid |-> p, ts |-> Tick(time)]
        /\ start.participants = group
    BY DEF PartyStartMsg
  <2>4. net' = Broadcast(n, p, start)
    <3> HIDE DEF start
    <3> QED BY <2>1 DEF Concludes, Sends
  <2>5. /\ state[p] \in {"waiting", "queued"}
        /\ Queued(p, got) /\ AmLeader(p, q) /\ group = TryFormGroup(q)
    BY <1>3, <2>1 DEF group
  <2>6. EntersParty(p, start, start.sender.ts, q, Broadcast(n, p, start))
    <3> HIDE DEF start, starts
    <3> QED BY <1>6, <2>1, <2>4 DEF EntersParty
  <2>7. partyCounter' \in [Pid -> PartyId]
    <3>1. partyCounter[p] + 1 \in Nat
      BY DEF TypeOK, PartyId
    <3> QED
      BY <1>6, <3>1, PartyIdType DEF TypeOK
  <2>8. start.sender.pid = p /\ start.sender.ts > now
    BY <1>1, <2>3
  <2> HIDE DEF start
  <2> QED
    BY <2>1, <2>2, <2>3, <2>5, <2>6, <2>7, <2>8 DEF StartsParty
<1> QED
  BY <1>5, <1>6 DEF Concludes, Recompute

\* Recompute is well typed.
LEMMA RecomputeType ==
  ASSUME TypeOK, NEW p \in Pid, NEW now, NEW q, NEW got \in SUBSET Pid, NEW n,
         Handed(now, q, n), Concludes(p, now, q, got, n)
  PROVE  TypeOK'
<1>1. CASE StaysOut(p, now, q, got, n)
  <2>1. state' \in [Pid -> AppState]
    BY <1>1 DEF StaysOut, TypeOK, AppState
  <2>2. queue' \in [Pid -> SUBSET Ticket] /\ net' \in Channels
    BY <1>1 DEF StaysOut, TypeOK, Handed
  <2>3. clock' \in [Pid -> Nat] /\ replies' \in [Pid -> SUBSET Pid]
    BY <1>1 DEF StaysOut, TypeOK, Handed
  <2> QED
    BY <1>1, <2>1, <2>2, <2>3 DEF StaysOut, TypeOK, Channels, localVars
<1>2. CASE StartsParty(p, now, q, got, n)
  <2>1. PICK start \in Message :
          /\ start.type = "PartyStart"
          /\ EntersParty(p, start, start.sender.ts, q, Broadcast(n, p, start))
          /\ partyCounter' \in [Pid -> PartyId]
    BY <1>2 DEF StartsParty
  <2>2. Handed(start.sender.ts, q, Broadcast(n, p, start))
    BY <2>1, BroadcastType DEF Handed, Message, Ticket
  <2> QED
    BY <2>1, <2>2, GoToPartyType
<1> QED
  BY <1>1, <1>2, RecomputeCases
-----------------------------------------------------------------------------
\* The initial state is well typed.
LEMMA InitType == Init => TypeOK
<1> SUFFICES ASSUME Init PROVE TypeOK
  OBVIOUS
<1>1. partyCounter \in [Pid -> PartyId]
  <2>1. \A p \in Pid : p * PartyIdOffset \in Nat
    BY ConfigAssumption, AlgorithmAssumption DEF Pid, WorldSize
  <2> QED
    BY <2>1, PartyIdType DEF Init, InitProcesses
<1> QED
  BY <1>1 DEF Init, TypeOK, AppState, InitProcesses

\* OnMsg(Request) is well typed (the other handlers follow).
LEMMA OnRequestType ==
  ASSUME TypeOK, NEW p \in Pid, NEW q \in Pid \ {p}, OnRequest(p, q)
  PROVE  TypeOK'
<1> DEFINE ticket == Head(net[q][p]).request
           now    == OnReceive(clock[p], ticket.ts)
           reply  == ReplyMsg([pid |-> p, ts |-> now], ticket)
           sent   == [Consumed(p, q) EXCEPT ![p][q] = Append(@, reply)]
<1>1. Consumed(p, q) \in Channels /\ Head(net[q][p]) \in Message
        /\ Head(net[q][p]).type = "Request"
  BY ArrivesType DEF OnRequest
<1>2. ticket \in Ticket
  BY <1>1 DEF Message
<1>3. now \in Nat
  BY <1>2, OnReceiveType DEF Ticket, TypeOK
<1> HIDE DEF ticket, now
<1>4. reply \in Message
  BY <1>2, <1>3 DEF ReplyMsg, Message, Ticket
<1> HIDE DEF reply
<1>5. Handed(now, Insert(queue[p], ticket), sent)
  BY <1>1, <1>2, <1>3, <1>4, SendType, InsertType DEF Handed, TypeOK
<1>6. Concludes(p, now, Insert(queue[p], ticket), replies[p], sent)
  BY DEF OnRequest, ticket, now, reply, MyTicket
<1> QED
  BY <1>5, <1>6, RecomputeType DEF TypeOK

\* OnMsg(Reply) is well typed.
LEMMA OnReplyType ==
  ASSUME TypeOK, NEW p \in Pid, NEW q \in Pid \ {p}, OnReply(p, q)
  PROVE  TypeOK'
<1> DEFINE now == OnReceive(clock[p], Head(net[q][p]).sender.ts)
<1>1. Consumed(p, q) \in Channels /\ Head(net[q][p]) \in Message
        /\ Head(net[q][p]).type = "Reply"
  BY ArrivesType DEF OnReply
<1>2. Head(net[q][p]).sender.ts \in Nat
  BY <1>1 DEF Message, Ticket
<1>3. now \in Nat
  BY <1>2, OnReceiveType DEF TypeOK
<1> HIDE DEF now
<1>4. CASE Concludes(p, now, queue[p], replies[p] \cup {q}, Consumed(p, q))
  <2>1. Handed(now, queue[p], Consumed(p, q))
    BY <1>1, <1>3 DEF Handed, TypeOK
  <2> QED
    BY <1>4, <2>1, RecomputeType DEF TypeOK
<1>5. CASE /\ clock' = [clock EXCEPT ![p] = now]
           /\ net' = Consumed(p, q)
           /\ UNCHANGED <<state, queue, pending, replies, party, partyCounter,
                          localVars>>
  BY <1>1, <1>3, <1>5 DEF TypeOK, Channels, localVars
<1> QED
  BY <1>4, <1>5 DEF OnReply, now, IgnoreReply

\* OnMsg(PartyStart) is well typed.
LEMMA OnPartyStartType ==
  ASSUME TypeOK, NEW p \in Pid, NEW q \in Pid \ {p}, OnPartyStart(p, q)
  PROVE  TypeOK'
<1> DEFINE start == Head(net[q][p])
           now   == OnReceive(clock[p], start.sender.ts)
           rest  == Remove(queue[p], start.participants)
<1>1. Consumed(p, q) \in Channels /\ start \in Message /\ start.type = "PartyStart"
  BY ArrivesType DEF OnPartyStart
<1>2. start.sender.ts \in Nat
  BY <1>1 DEF Message, Ticket
<1>3. now \in Nat
  BY <1>2, OnReceiveType DEF TypeOK
<1>4. rest \in SUBSET Ticket
  BY RemoveType DEF TypeOK
<1> HIDE DEF start, now, rest
<1>5. Handed(now, rest, Consumed(p, q))
  BY <1>1, <1>3, <1>4 DEF Handed
<1>6. CASE EntersParty(p, start, now, rest, Consumed(p, q)) /\ UNCHANGED partyCounter
  BY <1>1, <1>5, <1>6, GoToPartyType DEF TypeOK
<1>7. CASE Concludes(p, now, rest, replies[p], Consumed(p, q))
  BY <1>5, <1>7, RecomputeType DEF TypeOK
<1> QED
  BY <1>6, <1>7 DEF OnPartyStart, start, now, rest, EntersParty

\* OnEvent(kWantParty) is well typed.
LEMMA WantPartyType ==
  ASSUME TypeOK, NEW p \in Pid, WantParty(p)
  PROVE  TypeOK'
<1> DEFINE ticket == [pid |-> p, ts |-> Tick(clock[p])]
<1>1. Tick(clock[p]) \in Nat
  BY DEF Tick, TypeOK
<1>2. ticket \in Ticket /\ RequestMsg(ticket) \in Message
  BY <1>1 DEF Ticket, RequestMsg, Message
<1>3. Broadcast(net, p, RequestMsg(ticket)) \in Channels
  BY <1>2, BroadcastType DEF TypeOK, Channels
<1>4. Insert(queue[p], ticket) \in SUBSET Ticket
  BY <1>2, InsertType DEF TypeOK
<1> HIDE DEF ticket
<1>5. /\ clock' \in [Pid -> Nat]
      /\ shouldWant' \in [Pid -> BOOLEAN]
      /\ UNCHANGED <<party, partyCounter, inside>>
  BY <1>1 DEF WantParty, Want, TypeOK
<1>6. CASE state[p] = "idle"
  <2>1. /\ state' = [state EXCEPT ![p] = "waiting"]
        /\ replies' = [replies EXCEPT ![p] = {p}]
        /\ pending' = [pending EXCEPT ![p] = {ticket}]
        /\ queue' = [queue EXCEPT ![p] = Insert(@, ticket)]
        /\ net' = Broadcast(net, p, RequestMsg(ticket))
        /\ issued' = [issued EXCEPT ![p] = @ + 1]
    BY <1>6 DEF WantParty, ticket, Want, Sends, Asks, MyTicket
  <2> QED
    BY <1>2, <1>3, <1>4, <1>5, <2>1 DEF TypeOK, AppState, Channels
<1>7. CASE state[p] # "idle"
  BY <1>5, <1>7 DEF WantParty, TypeOK, Want, Sends, Asks, MyTicket
<1> QED
  BY <1>6, <1>7

\* OnEvent(kReleaseParty) is well typed.
LEMMA ReleasePartyType ==
  ASSUME TypeOK, NEW p \in Pid, ReleaseParty(p)
  PROVE  TypeOK'
BY DEF ReleaseParty, TypeOK, AppState, Tick, Release

\* Every step preserves the types.
LEMMA NextType == TypeOK /\ [Next]_vars => TypeOK'
<1> SUFFICES ASSUME TypeOK, [Next]_vars PROVE TypeOK'
  OBVIOUS
<1>1. ASSUME NEW p \in Pid, WantParty(p) PROVE TypeOK'
  BY <1>1, WantPartyType
<1>2. ASSUME NEW p \in Pid, ReleaseParty(p) PROVE TypeOK'
  BY <1>2, ReleasePartyType
<1>3. ASSUME NEW p \in Pid, NEW q \in Pid \ {p}, Handle(p, q) PROVE TypeOK'
  BY <1>3, OnRequestType, OnReplyType, OnPartyStartType DEF Handle
<1>4. CASE UNCHANGED vars
  BY <1>4 DEF vars, TypeOK
<1> QED
  BY <1>1, <1>2, <1>3, <1>4 DEF Next

\* The variables of the algorithm keep their types, the party ids their width,
\* and no process ever sends to itself.
THEOREM TypeCorrect == Spec => []TypeOK
BY InitType, NextType, PTL DEF Spec
-----------------------------------------------------------------------------
\* The inductive invariant.

\* What TicketsAreNewest says of the tickets in the queues qs and of the
\* requests in the channels n.
Newest(qs, n, ck, pd) ==
  \A p, q \in Pid :
    /\ \A t \in qs[q] : t.pid = p => t.ts <= ck[p] /\ \A u \in pd[p] : t.ts <= u.ts
    /\ \A i \in DOMAIN n[p][q] : n[p][q][i].type = "Request" =>
         \A u \in pd[p] : n[p][q][i].request.ts <= u.ts

IInv ==
  /\ TypeOK
  /\ LocalThreadAgrees
  /\ OwnRequestQueued
  /\ ChannelsInOrder
  /\ Newest(queue, net, clock, pending)
-----------------------------------------------------------------------------
\* Channels, one at a time.

\* The stamp of a message is a time.
LEMMA StampType ==
  ASSUME NEW m \in Message PROVE Stamp(m) \in Nat
BY DEF Message, Ticket, Stamp

WellFormed(m, sender) ==
  /\ m.type = "Request" => m.request.pid = sender
  /\ m.type = "Reply" => m.request.ts < m.sender.ts

\* What Append does to the indices of a sequence.
LEMMA AppendFacts ==
  ASSUME NEW s \in Seq(Message), NEW m \in Message
  PROVE  /\ Append(s, m) \in Seq(Message)
         /\ Len(Append(s, m)) = Len(s) + 1
         /\ DOMAIN Append(s, m) = 1 .. Len(s) + 1
         /\ DOMAIN s = 1 .. Len(s)
         /\ Len(s) \in Nat
         /\ \A i \in 1 .. Len(s) : Append(s, m)[i] = s[i]
         /\ Append(s, m)[Len(s) + 1] = m
BY AppendProperties, LenProperties

\* What Tail does to the indices of a non-empty sequence.
LEMMA TailFacts ==
  ASSUME NEW s \in Seq(Message), s # <<>>
  PROVE  /\ Tail(s) \in Seq(Message)
         /\ Len(s) \in Nat
         /\ DOMAIN s = 1 .. Len(s)
         /\ DOMAIN Tail(s) = 1 .. Len(s) - 1
         /\ \A i \in 1 .. Len(s) - 1 : Tail(s)[i] = s[i + 1]
         /\ 1 \in DOMAIN s /\ Head(s) = s[1]
BY HeadTailProperties, LenProperties, EmptySeq

\* A channel stays in order when its sender's clock moves on.
LEMMA ChannelLater ==
  ASSUME NEW s \in Seq(Message), NEW a, NEW c \in Nat, NEW d \in Nat, c <= d,
         ChannelOK(s, a, c)
  PROVE  ChannelOK(s, a, d)
<1>1. \A i \in DOMAIN s : Stamp(s[i]) \in Nat
  BY ElementOfSeq, LenProperties, StampType
<1> QED
  BY <1>1 DEF ChannelOK

\* A channel stays in order when a message with the sender's time is appended.
LEMMA ChannelAppend ==
  ASSUME NEW s \in Seq(Message), NEW a, NEW c \in Nat, ChannelOK(s, a, c),
         NEW m \in Message, WellFormed(m, a), c < Stamp(m)
  PROVE  ChannelOK(Append(s, m), a, Stamp(m))
<1> DEFINE r == Append(s, m)
<1>1. /\ DOMAIN r = 1 .. Len(s) + 1
      /\ DOMAIN s = 1 .. Len(s)
      /\ Len(s) \in Nat
      /\ \A i \in 1 .. Len(s) : r[i] = s[i]
      /\ r[Len(s) + 1] = m
  BY AppendFacts
<1>2. \A i \in DOMAIN s : Stamp(s[i]) \in Nat
  BY ElementOfSeq, LenProperties, StampType
<1>3. Stamp(m) \in Nat
  BY StampType
<1> HIDE DEF r
<1>4. ASSUME NEW i \in DOMAIN r
      PROVE  /\ Stamp(r[i]) <= Stamp(m)
             /\ r[i].type = "Request" => r[i].request.pid = a
             /\ r[i].type = "Reply" => r[i].request.ts < r[i].sender.ts
  <2>1. CASE i = Len(s) + 1
    BY <1>1, <1>3, <2>1 DEF WellFormed
  <2>2. CASE i \in 1 .. Len(s)
    BY <1>1, <1>2, <1>3, <2>2 DEF ChannelOK
  <2> QED
    BY <1>1, <2>1, <2>2
<1>5. ASSUME NEW i \in DOMAIN r, NEW j \in DOMAIN r, i < j
      PROVE  Stamp(r[i]) < Stamp(r[j])
  <2>1. i \in 1 .. Len(s) /\ (j \in 1 .. Len(s) \/ j = Len(s) + 1)
    BY <1>1, <1>5
  <2>2. CASE j \in 1 .. Len(s)
    BY <1>1, <1>5, <2>1, <2>2 DEF ChannelOK
  <2>3. CASE j = Len(s) + 1
    BY <1>1, <1>2, <1>3, <2>1, <2>3 DEF ChannelOK
  <2> QED
    BY <2>1, <2>2, <2>3
<1> QED
  BY <1>4, <1>5 DEF ChannelOK, r

\* A channel stays in order when its head is taken.
LEMMA ChannelTail ==
  ASSUME NEW s \in Seq(Message), s # <<>>, NEW a, NEW c \in Nat, ChannelOK(s, a, c)
  PROVE  ChannelOK(Tail(s), a, c)
<1> DEFINE r == Tail(s)
<1>1. /\ Len(s) \in Nat
      /\ DOMAIN s = 1 .. Len(s)
      /\ DOMAIN r = 1 .. Len(s) - 1
      /\ \A i \in 1 .. Len(s) - 1 : r[i] = s[i + 1]
  BY TailFacts
<1> HIDE DEF r
<1>2. \A i \in DOMAIN r : i + 1 \in DOMAIN s /\ r[i] = s[i + 1]
  BY <1>1
<1>3. \A i, j \in DOMAIN r : i < j => i + 1 < j + 1
  BY <1>1
<1> QED
  BY <1>2, <1>3 DEF ChannelOK, r
-----------------------------------------------------------------------------
\* All channels, as a handler changes them.

\* All channels stay in order when one clock moves on.
LEMMA InOrderLater ==
  ASSUME NEW n \in Channels, NEW ck \in [Pid -> Nat], InOrder(n, ck),
         NEW p \in Pid, NEW now \in Nat, ck[p] <= now
  PROVE  InOrder(n, [ck EXCEPT ![p] = now])
<1> SUFFICES ASSUME NEW a \in Pid, NEW b \in Pid
             PROVE  ChannelOK(n[a][b], a, [ck EXCEPT ![p] = now][a])
  BY DEF InOrder
<1>1. n[a][b] \in Seq(Message)
  BY DEF Channels
<1>2. /\ ck[a] \in Nat
      /\ [ck EXCEPT ![p] = now][a] \in Nat
      /\ ck[a] <= [ck EXCEPT ![p] = now][a]
  OBVIOUS
<1>3. ChannelOK(n[a][b], a, ck[a])
  BY DEF InOrder
<1> QED
  BY <1>1, <1>2, <1>3, ChannelLater

\* All channels stay in order when p sends one message to q.
LEMMA InOrderSend ==
  ASSUME NEW n \in Channels, NEW ck \in [Pid -> Nat], InOrder(n, ck),
         NEW p \in Pid, NEW q \in Pid \ {p}, NEW m \in Message,
         WellFormed(m, p), ck[p] < Stamp(m)
  PROVE  InOrder([n EXCEPT ![p][q] = Append(@, m)], [ck EXCEPT ![p] = Stamp(m)])
<1> DEFINE sent == [n EXCEPT ![p][q] = Append(@, m)]
           now  == Stamp(m)
<1>1. now \in Nat /\ ck[p] <= now
  BY StampType
<1>2. InOrder(n, [ck EXCEPT ![p] = now])
  BY <1>1, InOrderLater
<1> SUFFICES ASSUME NEW a \in Pid, NEW b \in Pid
             PROVE  ChannelOK(sent[a][b], a, [ck EXCEPT ![p] = now][a])
  BY DEF InOrder
<1>3. CASE a = p /\ b = q
  <2>1. sent[a][b] = Append(n[p][q], m) /\ [ck EXCEPT ![p] = now][a] = now
    BY <1>3 DEF Channels
  <2>2. n[p][q] \in Seq(Message) /\ ck[p] \in Nat /\ ChannelOK(n[p][q], p, ck[p])
    BY DEF Channels, InOrder
  <2>3. ChannelOK(Append(n[p][q], m), p, Stamp(m))
    BY <2>2, ChannelAppend
  <2> QED
    BY <1>3, <2>1, <2>3
<1>4. CASE ~(a = p /\ b = q)
  <2>1. sent[a][b] = n[a][b]
    BY <1>4 DEF Channels
  <2> QED
    BY <1>2, <2>1 DEF InOrder
<1> QED
  BY <1>3, <1>4

\* All channels stay in order when p broadcasts a message.
LEMMA InOrderBroadcast ==
  ASSUME NEW n \in Channels, NEW ck \in [Pid -> Nat], InOrder(n, ck),
         NEW p \in Pid, NEW m \in Message, WellFormed(m, p), ck[p] < Stamp(m)
  PROVE  InOrder(Broadcast(n, p, m), [ck EXCEPT ![p] = Stamp(m)])
<1> DEFINE sent == Broadcast(n, p, m)
           now  == Stamp(m)
<1>1. now \in Nat /\ ck[p] <= now
  BY StampType
<1>2. InOrder(n, [ck EXCEPT ![p] = now])
  BY <1>1, InOrderLater
<1> SUFFICES ASSUME NEW a \in Pid, NEW b \in Pid
             PROVE  ChannelOK(sent[a][b], a, [ck EXCEPT ![p] = now][a])
  BY DEF InOrder
<1>3. CASE a = p /\ b # p
  <2>1. sent[a][b] = Append(n[p][b], m) /\ [ck EXCEPT ![p] = now][a] = now
    BY <1>3 DEF Channels, Broadcast
  <2>2. n[p][b] \in Seq(Message) /\ ck[p] \in Nat /\ ChannelOK(n[p][b], p, ck[p])
    BY DEF Channels, InOrder
  <2>3. ChannelOK(Append(n[p][b], m), p, Stamp(m))
    BY <2>2, ChannelAppend
  <2> QED
    BY <1>3, <2>1, <2>3
<1>4. CASE ~(a = p /\ b # p)
  <2>1. sent[a][b] = n[a][b]
    BY <1>4 DEF Channels, Broadcast
  <2> QED
    BY <1>2, <2>1 DEF InOrder
<1> QED
  BY <1>3, <1>4

\* All channels stay in order when p takes the head of one.
LEMMA InOrderConsume ==
  ASSUME TypeOK, ChannelsInOrder, NEW p \in Pid, NEW q \in Pid \ {p},
         NEW type, Arrives(p, q, type)
  PROVE  InOrder(Consumed(p, q), clock)
<1> SUFFICES ASSUME NEW a \in Pid, NEW b \in Pid
             PROVE  ChannelOK(Consumed(p, q)[a][b], a, clock[a])
  BY DEF InOrder
<1>1. net[a][b] \in Seq(Message) /\ clock[a] \in Nat /\ ChannelOK(net[a][b], a, clock[a])
  BY DEF TypeOK, ChannelsInOrder, InOrder
<1>2. CASE a = q /\ b = p
  <2>1. Consumed(p, q)[a][b] = Tail(net[a][b]) /\ net[a][b] # <<>>
    BY <1>2 DEF Consumed, TypeOK, Arrives
  <2> QED
    BY <1>1, <2>1, ChannelTail
<1>3. CASE ~(a = q /\ b = p)
  <2>1. Consumed(p, q)[a][b] = net[a][b]
    BY <1>3 DEF Consumed, TypeOK
  <2> QED
    BY <1>1, <2>1
<1> QED
  BY <1>2, <1>3

\* The message at the head of a channel.
LEMMA HeadInOrder ==
  ASSUME TypeOK, ChannelsInOrder, NEW p \in Pid, NEW q \in Pid \ {p},
         NEW type, Arrives(p, q, type)
  PROVE  LET m == Head(net[q][p])
         IN  /\ m \in Message
             /\ m.type = type
             /\ WellFormed(m, q)
             /\ Stamp(m) \in Nat
             /\ Stamp(m) <= clock[q]
<1>1. net[q][p] \in Seq(Message) /\ ChannelOK(net[q][p], q, clock[q])
  BY DEF TypeOK, ChannelsInOrder, InOrder
<1>2. 1 \in DOMAIN net[q][p] /\ Head(net[q][p]) = net[q][p][1]
  BY <1>1, TailFacts DEF Arrives
<1>3. Head(net[q][p]) \in Message /\ Head(net[q][p]).type = type
  BY ArrivesType
<1> QED
  BY <1>1, <1>2, <1>3, StampType DEF ChannelOK, WellFormed
-----------------------------------------------------------------------------
\* Tickets, as a handler changes queues and channels.

\* The requests in the channels n2 are among those in n1.
NoNewRequest(n1, n2) ==
  \A a, b \in Pid : \A i \in DOMAIN n2[a][b] : n2[a][b][i].type = "Request" =>
    \E j \in DOMAIN n1[a][b] : n1[a][b][j] = n2[a][b][i]

\* Sending something else than a request adds no request.
LEMMA SendNoNewRequest ==
  ASSUME NEW n \in Channels, NEW p \in Pid, NEW q \in Pid \ {p},
         NEW m \in Message, m.type # "Request"
  PROVE  NoNewRequest(n, [n EXCEPT ![p][q] = Append(@, m)])
<1> DEFINE sent == [n EXCEPT ![p][q] = Append(@, m)]
<1> SUFFICES ASSUME NEW a \in Pid, NEW b \in Pid, NEW i \in DOMAIN sent[a][b],
                    sent[a][b][i].type = "Request"
             PROVE  \E j \in DOMAIN n[a][b] : n[a][b][j] = sent[a][b][i]
  BY DEF NoNewRequest
<1>1. CASE a = p /\ b = q
  <2>1. sent[a][b] = Append(n[a][b], m) /\ n[a][b] \in Seq(Message)
    BY <1>1 DEF Channels
  <2> HIDE DEF sent
  <2> QED
    BY <2>1, AppendFacts
<1>2. CASE ~(a = p /\ b = q)
  BY <1>2 DEF Channels
<1> QED
  BY <1>1, <1>2

\* Broadcasting something else than a request adds no request.
LEMMA BroadcastNoNewRequest ==
  ASSUME NEW n \in Channels, NEW p \in Pid, NEW m \in Message, m.type # "Request"
  PROVE  NoNewRequest(n, Broadcast(n, p, m))
<1> DEFINE sent == Broadcast(n, p, m)
<1> SUFFICES ASSUME NEW a \in Pid, NEW b \in Pid, NEW i \in DOMAIN sent[a][b],
                    sent[a][b][i].type = "Request"
             PROVE  \E j \in DOMAIN n[a][b] : n[a][b][j] = sent[a][b][i]
  BY DEF NoNewRequest
<1>1. CASE a = p /\ b # p
  <2>1. sent[a][b] = Append(n[a][b], m) /\ n[a][b] \in Seq(Message)
    BY <1>1 DEF Channels, Broadcast
  <2> HIDE DEF sent
  <2> QED
    BY <2>1, AppendFacts
<1>2. CASE ~(a = p /\ b # p)
  BY <1>2 DEF Channels, Broadcast
<1> QED
  BY <1>1, <1>2

\* Taking a message adds no request.
LEMMA ConsumeNoNewRequest ==
  ASSUME TypeOK, NEW p \in Pid, NEW q \in Pid \ {p}, NEW type, Arrives(p, q, type)
  PROVE  NoNewRequest(net, Consumed(p, q))
<1> DEFINE left == Consumed(p, q)
<1> SUFFICES ASSUME NEW a \in Pid, NEW b \in Pid, NEW i \in DOMAIN left[a][b]
             PROVE  \E j \in DOMAIN net[a][b] : net[a][b][j] = left[a][b][i]
  BY DEF NoNewRequest
<1>1. CASE a = q /\ b = p
  <2>1. left[a][b] = Tail(net[a][b]) /\ net[a][b] \in Seq(Message) /\ net[a][b] # <<>>
    BY <1>1 DEF Consumed, TypeOK, Arrives
  <2> HIDE DEF left
  <2>2. i + 1 \in DOMAIN net[a][b] /\ net[a][b][i + 1] = left[a][b][i]
    BY <2>1, TailFacts
  <2> QED
    BY <2>2
<1>2. CASE ~(a = q /\ b = p)
  BY <1>2 DEF Consumed, TypeOK
<1> QED
  BY <1>1, <1>2

\* Fewer tickets and requests, later clocks, fewer pending requests.
LEMMA NewestKept ==
  ASSUME NEW qs, NEW n \in Channels, NEW ck \in [Pid -> Nat], NEW pd,
         NEW qs2, NEW n2 \in Channels, NEW ck2 \in [Pid -> Nat], NEW pd2,
         \A p \in Pid : qs[p] \in SUBSET Ticket,
         Newest(qs, n, ck, pd),
         \A p \in Pid : qs2[p] \subseteq qs[p],
         NoNewRequest(n, n2),
         \A p \in Pid : ck[p] <= ck2[p],
         \A p \in Pid : pd2[p] \subseteq pd[p]
  PROVE  Newest(qs2, n2, ck2, pd2)
<1> SUFFICES ASSUME NEW p \in Pid, NEW q \in Pid
    PROVE
    /\ \A t \in qs2[q] : t.pid = p => t.ts <= ck2[p] /\ \A u \in pd2[p] : t.ts <= u.ts
    /\ \A i \in DOMAIN n2[p][q] : n2[p][q][i].type = "Request" =>
         \A u \in pd2[p] : n2[p][q][i].request.ts <= u.ts
  BY DEF Newest
<1>1. ASSUME NEW t \in qs2[q], t.pid = p
      PROVE  t.ts <= ck2[p] /\ \A u \in pd2[p] : t.ts <= u.ts
  <2>1. t \in qs[q] /\ t.ts \in Nat /\ ck[p] \in Nat /\ ck2[p] \in Nat
    BY DEF Ticket
  <2> QED
    BY <1>1, <2>1 DEF Newest
<1>2. ASSUME NEW i \in DOMAIN n2[p][q], n2[p][q][i].type = "Request"
      PROVE  \A u \in pd2[p] : n2[p][q][i].request.ts <= u.ts
  <2>1. PICK j \in DOMAIN n[p][q] : n[p][q][j] = n2[p][q][i]
    BY <1>2 DEF NoNewRequest
  <2> QED
    BY <1>2, <2>1 DEF Newest
<1> QED
  BY <1>1, <1>2
-----------------------------------------------------------------------------
\* The invariant through GoToParty and Recompute.

\* Entering a party keeps the invariant.
LEMMA GoToPartyIInv ==
  ASSUME IInv, NEW p \in Pid, NEW ps \in Message, p \in ps.participants,
         NEW now, NEW q, NEW n, Handed(now, q, n),
         InOrder(n, [clock EXCEPT ![p] = now]),
         Newest([queue EXCEPT ![p] = q], n, [clock EXCEPT ![p] = now], pending),
         EntersParty(p, ps, now, q, n), TypeOK'
  PROVE  IInv'
<1>1. /\ state' = [state EXCEPT ![p] = "inParty"]
      /\ inside' = [inside EXCEPT ![p] = TRUE]
      /\ shouldWant' = shouldWant
      /\ pending' = [pending EXCEPT ![p] = {}]
      /\ queue' = [queue EXCEPT ![p] = Remove(q, ps.participants)]
      /\ clock' = [clock EXCEPT ![p] = now]
      /\ net' = n
  BY DEF EntersParty, GoToParty
<1>2. LocalThreadAgrees'
  BY <1>1 DEF IInv, TypeOK, LocalThreadAgrees
<1>3. OwnRequestQueued'
  <2> SUFFICES ASSUME NEW r \in Pid
      PROVE  /\ {t \in queue'[r] : t.pid = r} = pending'[r]
             /\ pending'[r] # {} <=> state'[r] \in {"waiting", "queued"}
    BY DEF OwnRequestQueued
  <2>1. CASE r = p
    BY <1>1, <2>1 DEF IInv, TypeOK, Remove
  <2>2. CASE r # p
    BY <1>1, <2>2 DEF IInv, TypeOK, OwnRequestQueued
  <2> QED
    BY <2>1, <2>2
<1>4. ChannelsInOrder'
  BY <1>1 DEF ChannelsInOrder
<1>5. Newest(queue, net, clock, pending)'
  <2>1. Remove(q, ps.participants) \subseteq q
    BY DEF Remove
  <2>2. \A r \in Pid : queue'[r] \subseteq [queue EXCEPT ![p] = q][r]
    BY <1>1, <2>1 DEF IInv, TypeOK
  <2>3. \A r \in Pid : pending'[r] \subseteq pending[r]
    BY <1>1 DEF IInv, TypeOK
  <2>4. \A r \in Pid : [queue EXCEPT ![p] = q][r] \in SUBSET Ticket
    BY DEF Handed, IInv, TypeOK
  <2>5. /\ n \in Channels /\ NoNewRequest(n, n)
        /\ clock' \in [Pid -> Nat]
        /\ \A r \in Pid : clock'[r] <= clock'[r]
    BY DEF Handed, NoNewRequest, TypeOK
  <2> QED
    BY <1>1, <2>2, <2>3, <2>4, <2>5, NewestKept
<1> QED
  BY <1>2, <1>3, <1>4, <1>5 DEF IInv

\* Recompute keeps the invariant when the process stays out of a party.
LEMMA StaysOutIInv ==
  ASSUME IInv, NEW p \in Pid, NEW now, NEW q, NEW got, NEW n, Handed(now, q, n),
         {t \in q : t.pid = p} = pending[p],
         InOrder(n, [clock EXCEPT ![p] = now]),
         Newest([queue EXCEPT ![p] = q], n, [clock EXCEPT ![p] = now], pending),
         StaysOut(p, now, q, got, n), TypeOK'
  PROVE  IInv'
<1>1. /\ queue' = [queue EXCEPT ![p] = q]
      /\ net' = n
      /\ pending' = pending /\ inside' = inside /\ shouldWant' = shouldWant
  BY DEF StaysOut, localVars
<1>2. \/ state' = state
      \/ state[p] \in {"waiting", "queued"} /\ state' = [state EXCEPT ![p] = "queued"]
  BY DEF StaysOut
<1>3. PICK time \in {now, now + 1} : clock' = [clock EXCEPT ![p] = time]
  BY DEF StaysOut
<1>4. LocalThreadAgrees'
  BY <1>1, <1>2 DEF IInv, TypeOK, LocalThreadAgrees
<1>5. OwnRequestQueued'
  <2> SUFFICES ASSUME NEW r \in Pid
      PROVE  /\ {t \in queue'[r] : t.pid = r} = pending'[r]
             /\ pending'[r] # {} <=> state'[r] \in {"waiting", "queued"}
    BY DEF OwnRequestQueued
  <2>1. {t \in queue'[r] : t.pid = r} = pending'[r]
    BY <1>1 DEF IInv, TypeOK, OwnRequestQueued
  <2>2. pending'[r] # {} <=> state'[r] \in {"waiting", "queued"}
    BY <1>1, <1>2 DEF IInv, TypeOK, OwnRequestQueued
  <2> QED
    BY <2>1, <2>2
<1> DEFINE ck == [clock EXCEPT ![p] = now]
<1>6. /\ ck \in [Pid -> Nat]
      /\ now \in Nat /\ time \in Nat
      /\ ck[p] <= time
      /\ clock' = [ck EXCEPT ![p] = time]
      /\ clock' \in [Pid -> Nat]
      /\ \A r \in Pid : ck[r] <= clock'[r]
  <2>1. clock \in [Pid -> Nat] /\ now \in Nat /\ time \in Nat /\ now <= time
    BY DEF IInv, TypeOK, Handed
  <2>2. ck \in [Pid -> Nat] /\ ck[p] = now /\ clock' \in [Pid -> Nat]
    BY <1>3, <2>1
  <2>3. clock' = [ck EXCEPT ![p] = time]
    BY <1>3, <2>1
  <2>4. \A r \in Pid : ck[r] <= clock'[r]
    BY <1>3, <2>1
  <2> QED
    BY <2>1, <2>2, <2>3, <2>4
<1> HIDE DEF ck
<1>7. ChannelsInOrder'
  <2>1. InOrder(n, ck)
    BY DEF ck
  <2>2. InOrder(n, [ck EXCEPT ![p] = time])
    BY <1>6, <2>1, InOrderLater DEF Handed
  <2> QED
    BY <1>1, <1>6, <2>2 DEF ChannelsInOrder
<1>8. Newest(queue, net, clock, pending)'
  <2>1. Newest([queue EXCEPT ![p] = q], n, ck, pending)
    BY DEF ck
  <2>2. \A r \in Pid : [queue EXCEPT ![p] = q][r] \in SUBSET Ticket
    BY DEF Handed, IInv, TypeOK
  <2>3. n \in Channels /\ NoNewRequest(n, n)
    BY DEF Handed, NoNewRequest
  <2>4. \A r \in Pid : queue'[r] \subseteq [queue EXCEPT ![p] = q][r]
    BY <1>1
  <2>5. \A r \in Pid : pending'[r] \subseteq pending[r]
    BY <1>1
  <2> QED
    BY <1>1, <1>6, <2>1, <2>2, <2>3, <2>4, <2>5, NewestKept
<1> QED
  BY <1>4, <1>5, <1>7, <1>8 DEF IInv

\* Recompute keeps the invariant.
LEMMA RecomputeIInv ==
  ASSUME IInv, NEW p \in Pid, NEW now, NEW q, NEW got \in SUBSET Pid, NEW n,
         Handed(now, q, n),
         {t \in q : t.pid = p} = pending[p],
         InOrder(n, [clock EXCEPT ![p] = now]),
         Newest([queue EXCEPT ![p] = q], n, [clock EXCEPT ![p] = now], pending),
         Concludes(p, now, q, got, n)
  PROVE  IInv'
<1>1. TypeOK
  BY DEF IInv
<1>2. TypeOK'
  BY <1>1, RecomputeType
<1>3. CASE StaysOut(p, now, q, got, n)
  BY <1>2, <1>3, StaysOutIInv
<1>4. CASE StartsParty(p, now, q, got, n)
  <2>1. PICK start \in Message :
          /\ start.type = "PartyStart"
          /\ start.sender.ts > now
          /\ p \in start.participants
          /\ EntersParty(p, start, start.sender.ts, q, Broadcast(n, p, start))
    BY <1>4 DEF StartsParty
  <2> DEFINE later == start.sender.ts
             sent  == Broadcast(n, p, start)
             ck    == [clock EXCEPT ![p] = now]
  <2>2. /\ ck \in [Pid -> Nat] /\ ck[p] = now
        /\ [ck EXCEPT ![p] = later] = [clock EXCEPT ![p] = later]
        /\ later \in Nat /\ Stamp(start) = later /\ now \in Nat
    BY <1>1, <2>1, StampType DEF TypeOK, Handed, Stamp
  <2>3. n \in Channels /\ sent \in Channels /\ Handed(later, q, sent)
    BY <2>1, <2>2, BroadcastType DEF Handed
  <2>4. WellFormed(start, p)
    BY <2>1 DEF WellFormed
  <2>5. InOrder(sent, [clock EXCEPT ![p] = later])
    <3> HIDE DEF ck, later, sent
    <3>1. InOrder(n, ck) /\ ck[p] < Stamp(start)
      BY <2>1, <2>2 DEF ck, later
    <3>2. InOrder(Broadcast(n, p, start), [ck EXCEPT ![p] = Stamp(start)])
      BY <2>2, <2>3, <2>4, <3>1, InOrderBroadcast
    <3> QED
      BY <2>2, <3>2 DEF sent
  <2>6. Newest([queue EXCEPT ![p] = q], sent, [clock EXCEPT ![p] = later], pending)
    <3> DEFINE qs == [queue EXCEPT ![p] = q]
               ck2 == [clock EXCEPT ![p] = later]
    <3>1. \A r \in Pid : qs[r] \in SUBSET Ticket
      BY <1>1 DEF Handed, TypeOK
    <3>2. ck2 \in [Pid -> Nat] /\ \A r \in Pid : ck[r] <= ck2[r]
      BY <1>1, <2>1, <2>2 DEF TypeOK
    <3>3. NoNewRequest(n, sent)
      BY <2>1, <2>3, BroadcastNoNewRequest
    <3>4. Newest(qs, n, ck, pending)
      OBVIOUS
    <3> HIDE DEF qs, ck, ck2, sent
    <3>5. Newest(qs, sent, ck2, pending)
      BY <2>2, <2>3, <3>1, <3>2, <3>3, <3>4, NewestKept
    <3> QED
      BY <3>5 DEF qs, ck2
  <2> HIDE DEF later, sent
  <2>7. EntersParty(p, start, later, q, sent)
    BY <2>1 DEF later, sent
  <2> QED
    BY <1>2, <2>1, <2>3, <2>5, <2>6, <2>7, GoToPartyIInv
<1> QED
  BY <1>1, <1>3, <1>4, RecomputeCases
-----------------------------------------------------------------------------
\* The invariant through each action.

\* The invariant holds initially.
LEMMA InitIInv == Init => IInv
<1> SUFFICES ASSUME Init PROVE IInv
  OBVIOUS
<1>1. TypeOK
  BY InitType
<1>2. LocalThreadAgrees /\ OwnRequestQueued
  BY DEF Init, LocalThreadAgrees, OwnRequestQueued, InitProcesses
<1>3. \A p, q \in Pid : net[p][q] = <<>> /\ DOMAIN net[p][q] = {}
  BY DEF Init, InitProcesses
<1>4. ChannelsInOrder /\ Newest(queue, net, clock, pending)
  BY <1>3 DEF Init, ChannelsInOrder, InOrder, ChannelOK, Newest, InitProcesses
<1> QED
  BY <1>1, <1>2, <1>4 DEF IInv

\* The hypotheses of RecomputeIInv and GoToPartyIInv, for a handler that takes
\* a message, sets the clock forward, drops tickets and sends nothing yet.
LEMMA Taken ==
  ASSUME IInv, NEW p \in Pid, NEW q \in Pid \ {p}, NEW type, Arrives(p, q, type),
         NEW now \in Nat, clock[p] <= now, NEW rest, rest \subseteq queue[p]
  PROVE  /\ Handed(now, rest, Consumed(p, q))
         /\ InOrder(Consumed(p, q), [clock EXCEPT ![p] = now])
         /\ Newest([queue EXCEPT ![p] = rest], Consumed(p, q),
                   [clock EXCEPT ![p] = now], pending)
<1>1. /\ TypeOK
      /\ clock \in [Pid -> Nat] /\ net \in Channels
      /\ \A r \in Pid : queue[r] \in SUBSET Ticket
  BY DEF IInv, TypeOK, Channels
<1>2. Consumed(p, q) \in Channels
  BY <1>1, ArrivesType
<1>3. Handed(now, rest, Consumed(p, q))
  BY <1>1, <1>2 DEF Handed
<1>4. InOrder(Consumed(p, q), [clock EXCEPT ![p] = now])
  BY <1>1, <1>2, InOrderConsume, InOrderLater DEF IInv
<1> DEFINE ck == [clock EXCEPT ![p] = now]
           qs == [queue EXCEPT ![p] = rest]
<1>5. ck \in [Pid -> Nat] /\ \A r \in Pid : clock[r] <= ck[r]
  BY <1>1
<1>6. \A r \in Pid : qs[r] \subseteq queue[r]
  BY <1>1 DEF IInv, TypeOK
<1>7. NoNewRequest(net, Consumed(p, q))
  BY <1>1, ConsumeNoNewRequest
<1>8. Newest(queue, net, clock, pending) /\ \A r \in Pid : pending[r] \subseteq pending[r]
  BY DEF IInv
<1> HIDE DEF ck, qs
<1>9. Newest(qs, Consumed(p, q), ck, pending)
  BY <1>1, <1>2, <1>5, <1>6, <1>7, <1>8, NewestKept
<1> QED
  BY <1>3, <1>4, <1>9 DEF ck, qs

\* OnMsg(Reply) keeps the invariant.
LEMMA OnReplyIInv ==
  ASSUME IInv, NEW p \in Pid, NEW q \in Pid \ {p}, OnReply(p, q)
  PROVE  IInv'
<1> DEFINE now == OnReceive(clock[p], Head(net[q][p]).sender.ts)
<1>1. TypeOK /\ Arrives(p, q, "Reply")
  BY DEF IInv, OnReply
<1>2. Head(net[q][p]).sender.ts \in Nat
  BY <1>1, ArrivesType DEF Message, Ticket
<1>3. now \in Nat /\ clock[p] <= now
  <2>1. clock[p] \in Nat
    BY <1>1 DEF TypeOK
  <2> QED
    BY <1>2, <2>1, OnReceiveType
<1> HIDE DEF now
<1>4. /\ Handed(now, queue[p], Consumed(p, q))
      /\ InOrder(Consumed(p, q), [clock EXCEPT ![p] = now])
      /\ Newest([queue EXCEPT ![p] = queue[p]], Consumed(p, q),
                [clock EXCEPT ![p] = now], pending)
  BY <1>1, <1>3, Taken
<1>5. {t \in queue[p] : t.pid = p} = pending[p]
  BY DEF IInv, OwnRequestQueued
<1>6. CASE Concludes(p, now, queue[p], replies[p] \cup {q}, Consumed(p, q))
  <2>1. replies[p] \cup {q} \in SUBSET Pid
    BY <1>1 DEF TypeOK
  <2> QED
    BY <1>4, <1>5, <1>6, <2>1, RecomputeIInv
<1>7. CASE /\ clock' = [clock EXCEPT ![p] = now]
           /\ net' = Consumed(p, q)
           /\ UNCHANGED <<state, queue, pending, replies, party, partyCounter,
                          localVars>>
  <2>1. TypeOK'
    BY <1>1, OnReplyType
  <2>2. LocalThreadAgrees' /\ OwnRequestQueued'
    BY <1>7 DEF IInv, LocalThreadAgrees, OwnRequestQueued, localVars
  <2>3. ChannelsInOrder'
    BY <1>4, <1>7 DEF ChannelsInOrder
  <2>4. [queue EXCEPT ![p] = queue[p]] = queue'
    BY <1>1, <1>7 DEF TypeOK
  <2>5. Newest(queue, net, clock, pending)'
    BY <1>4, <1>7, <2>4
  <2> QED
    BY <2>1, <2>2, <2>3, <2>5 DEF IInv
<1> QED
  BY <1>6, <1>7 DEF OnReply, now, IgnoreReply

\* OnMsg(PartyStart) keeps the invariant.
LEMMA OnPartyStartIInv ==
  ASSUME IInv, NEW p \in Pid, NEW q \in Pid \ {p}, OnPartyStart(p, q)
  PROVE  IInv'
<1> DEFINE start == Head(net[q][p])
           now   == OnReceive(clock[p], start.sender.ts)
           rest  == Remove(queue[p], start.participants)
<1>1. TypeOK /\ Arrives(p, q, "PartyStart")
  BY DEF IInv, OnPartyStart
<1>2. start \in Message /\ start.sender.ts \in Nat
  BY <1>1, ArrivesType DEF Message, Ticket
<1>3. now \in Nat /\ clock[p] <= now
  <2>1. clock[p] \in Nat
    BY <1>1 DEF TypeOK
  <2> QED
    BY <1>2, <2>1, OnReceiveType
<1>4. rest \subseteq queue[p]
  BY DEF Remove
<1>5. p \notin start.participants => {t \in rest : t.pid = p} = {t \in queue[p] : t.pid = p}
  BY DEF Remove
<1>6. \/ EntersParty(p, start, now, rest, Consumed(p, q)) /\ p \in start.participants
      \/ /\ p \notin start.participants
         /\ Concludes(p, now, rest, replies[p], Consumed(p, q))
  BY DEF OnPartyStart, EntersParty
<1> HIDE DEF start, now, rest
<1>7. /\ Handed(now, rest, Consumed(p, q))
      /\ InOrder(Consumed(p, q), [clock EXCEPT ![p] = now])
      /\ Newest([queue EXCEPT ![p] = rest], Consumed(p, q),
                [clock EXCEPT ![p] = now], pending)
  BY <1>1, <1>3, <1>4, Taken
<1>8. TypeOK'
  BY <1>1, OnPartyStartType
<1>9. CASE p \in start.participants
  BY <1>2, <1>6, <1>7, <1>8, <1>9, GoToPartyIInv
<1>10. CASE p \notin start.participants
  <2>1. {t \in rest : t.pid = p} = pending[p]
    BY <1>5, <1>10 DEF IInv, OwnRequestQueued
  <2>2. replies[p] \in SUBSET Pid
    BY <1>1 DEF TypeOK
  <2> QED
    BY <1>6, <1>7, <1>10, <2>1, <2>2, RecomputeIInv
<1> QED
  BY <1>9, <1>10

\* A queue gets one more ticket, which is not ahead of its owner.
LEMMA NewestInsert ==
  ASSUME NEW qs, NEW n, NEW ck, NEW pd, Newest(qs, n, ck, pd),
         NEW qs2, NEW p \in Pid, NEW t,
         t.ts <= ck[t.pid], \A u \in pd[t.pid] : t.ts <= u.ts,
         \A r \in Pid \ {p} : qs2[r] = qs[r],
         qs2[p] \subseteq qs[p] \cup {t}
  PROVE  Newest(qs2, n, ck, pd)
<1> SUFFICES ASSUME NEW a \in Pid, NEW b \in Pid, NEW s \in qs2[b], s.pid = a
             PROVE  s.ts <= ck[a] /\ \A u \in pd[a] : s.ts <= u.ts
  BY DEF Newest
<1>1. CASE s = t
  BY <1>1
<1>2. CASE s # t
  <2>1. s \in qs[b]
    BY <1>2
  <2> QED
    BY <2>1 DEF Newest
<1> QED
  BY <1>1, <1>2

\* OnMsg(Request) keeps the invariant.
LEMMA OnRequestIInv ==
  ASSUME IInv, NEW p \in Pid, NEW q \in Pid \ {p}, OnRequest(p, q)
  PROVE  IInv'
<1> DEFINE m      == Head(net[q][p])
           ticket == m.request
           now    == OnReceive(clock[p], ticket.ts)
           reply  == ReplyMsg([pid |-> p, ts |-> now], ticket)
           sent   == [Consumed(p, q) EXCEPT ![p][q] = Append(@, reply)]
           rest   == Remove(queue[p], {q})
           after  == Insert(queue[p], ticket)
<1>1. /\ TypeOK /\ ChannelsInOrder /\ Arrives(p, q, "Request")
      /\ clock \in [Pid -> Nat]
      /\ \A r \in Pid : queue[r] \in SUBSET Ticket
  BY DEF IInv, OnRequest, TypeOK
<1>2. /\ m \in Message /\ m.type = "Request"
      /\ WellFormed(m, q) /\ Stamp(m) <= clock[q]
  BY <1>1, HeadInOrder
<1>3. ticket \in Ticket /\ ticket.pid = q /\ ticket.ts \in Nat /\ ticket.ts <= clock[q]
  BY <1>2 DEF Message, Ticket, WellFormed, Stamp
<1>4. \A u \in pending[q] : ticket.ts <= u.ts
  <2>1. net[q][p] \in Seq(Message) /\ net[q][p] # <<>>
    BY <1>1 DEF TypeOK, Arrives
  <2>2. 1 \in DOMAIN net[q][p] /\ m = net[q][p][1]
    BY <2>1, TailFacts
  <2> QED
    BY <1>2, <2>2 DEF IInv, Newest
<1>5. now \in Nat /\ clock[p] < now /\ clock[p] <= now /\ ticket.ts < now
  <2>1. clock[p] \in Nat
    BY <1>1
  <2> QED
    BY <1>3, <2>1, OnReceiveType
<1>6. /\ after = rest \cup {ticket}
      /\ after \in SUBSET Ticket
      /\ rest \subseteq queue[p]
      /\ {t \in after : t.pid = p} = pending[p]
  BY <1>1, <1>3 DEF Insert, Remove, IInv, OwnRequestQueued
<1>7. Concludes(p, now, after, replies[p], sent)
  BY DEF OnRequest, MyTicket
<1> HIDE DEF m, ticket, now, rest, after
<1>8. reply \in Message /\ reply.type # "Request"
        /\ Stamp(reply) = now /\ WellFormed(reply, p)
  BY <1>3, <1>5 DEF ReplyMsg, Message, Ticket, Stamp, WellFormed
<1> HIDE DEF reply
<1>9. Consumed(p, q) \in Channels /\ sent \in Channels
  BY <1>1, <1>8, ArrivesType, SendType
<1>10. Handed(now, after, sent)
  BY <1>5, <1>6, <1>9 DEF Handed
<1>11. InOrder(sent, [clock EXCEPT ![p] = now])
  <2>1. InOrder(Consumed(p, q), clock)
    BY <1>1, InOrderConsume
  <2> QED
    BY <1>1, <1>5, <1>8, <1>9, <2>1, InOrderSend
<1>12. Newest([queue EXCEPT ![p] = after], sent, [clock EXCEPT ![p] = now], pending)
  <2> DEFINE ck == [clock EXCEPT ![p] = now]
             qs == [queue EXCEPT ![p] = rest]
             qs2 == [queue EXCEPT ![p] = after]
  <2>1. Newest(qs, Consumed(p, q), ck, pending)
    BY <1>1, <1>5, <1>6, Taken
  <2>2. /\ NoNewRequest(Consumed(p, q), sent)
        /\ ck \in [Pid -> Nat]
        /\ \A r \in Pid : ck[r] <= ck[r]
        /\ \A r \in Pid : qs[r] \in SUBSET Ticket
    BY <1>1, <1>5, <1>6, <1>8, <1>9, SendNoNewRequest
  <2>3. \A r \in Pid \ {p} : qs2[r] = qs[r]
    BY <1>1 DEF TypeOK
  <2>4. qs2[p] \subseteq qs[p] \cup {ticket}
    BY <1>1, <1>6 DEF TypeOK
  <2>5. ticket.ts <= ck[ticket.pid]
    BY <1>1, <1>3
  <2> HIDE DEF ck, qs, qs2, sent
  <2>6. Newest(qs, sent, ck, pending)
    BY <1>9, <2>1, <2>2, NewestKept
  <2>7. Newest(qs2, sent, ck, pending)
    BY <1>3, <1>4, <2>3, <2>4, <2>5, <2>6, NewestInsert
  <2> QED
    BY <2>7 DEF qs2, ck
<1>13. replies[p] \in SUBSET Pid
  BY <1>1 DEF TypeOK
<1> HIDE DEF sent
<1> QED
  BY <1>6, <1>7, <1>10, <1>11, <1>12, <1>13, RecomputeIInv

\* OnEvent(kWantParty) keeps the invariant.
LEMMA WantPartyIInv ==
  ASSUME IInv, NEW p \in Pid, WantParty(p)
  PROVE  IInv'
<1> DEFINE now    == Tick(clock[p])
           ticket == [pid |-> p, ts |-> now]
           m      == RequestMsg(ticket)
<1>1. TypeOK /\ clock \in [Pid -> Nat] /\ net \in Channels
        /\ \A r \in Pid : queue[r] \in SUBSET Ticket
  BY DEF IInv, TypeOK, Channels
<1>2. now \in Nat /\ clock[p] < now
  BY <1>1 DEF Tick
<1>3. state[p] = "idle"
  BY DEF IInv, LocalThreadAgrees, WantParty, MayWant, Want
<1>4. /\ shouldWant' = [shouldWant EXCEPT ![p] = FALSE]
      /\ clock' = [clock EXCEPT ![p] = now]
      /\ state' = [state EXCEPT ![p] = "waiting"]
      /\ pending' = [pending EXCEPT ![p] = {ticket}]
      /\ queue' = [queue EXCEPT ![p] = Insert(queue[p], ticket)]
      /\ net' = Broadcast(net, p, m)
      /\ inside' = inside
  BY <1>3 DEF WantParty, Want, Sends, Asks, MyTicket
<1>5. ticket \in Ticket /\ m \in Message /\ Stamp(m) = now /\ WellFormed(m, p)
        /\ ticket.pid = p /\ ticket.ts = now
  BY <1>2 DEF Ticket, RequestMsg, Message, Stamp, WellFormed
<1> HIDE DEF now, ticket, m
<1>6. TypeOK'
  BY <1>1, WantPartyType
<1>7. LocalThreadAgrees'
  BY <1>1, <1>3, <1>4 DEF IInv, TypeOK, LocalThreadAgrees
<1>8. OwnRequestQueued'
  <2> SUFFICES ASSUME NEW r \in Pid
      PROVE  /\ {t \in queue'[r] : t.pid = r} = pending'[r]
             /\ pending'[r] # {} <=> state'[r] \in {"waiting", "queued"}
    BY DEF OwnRequestQueued
  <2>1. CASE r = p
    BY <1>1, <1>4, <1>5, <2>1 DEF TypeOK, Insert
  <2>2. CASE r # p
    BY <1>1, <1>4, <2>2 DEF IInv, TypeOK, OwnRequestQueued
  <2> QED
    BY <2>1, <2>2
<1>9. ChannelsInOrder'
  <2>1. InOrder(net, clock)
    BY DEF IInv, ChannelsInOrder
  <2>2. InOrder(Broadcast(net, p, m), [clock EXCEPT ![p] = now])
    BY <1>1, <1>2, <1>5, <2>1, InOrderBroadcast
  <2> QED
    BY <1>4, <2>2 DEF ChannelsInOrder
<1>10. Newest(queue, net, clock, pending)'
  <2> SUFFICES ASSUME NEW a \in Pid, NEW b \in Pid
      PROVE
      /\ \A t \in queue'[b] : t.pid = a =>
           t.ts <= clock'[a] /\ \A u \in pending'[a] : t.ts <= u.ts
      /\ \A i \in DOMAIN net'[a][b] : net'[a][b][i].type = "Request" =>
           \A u \in pending'[a] : net'[a][b][i].request.ts <= u.ts
    BY DEF Newest
  <2>1. \A t \in queue'[b] : t \in queue[b] \/ t = ticket
    BY <1>1, <1>4 DEF TypeOK, Insert
  <2>2. \A t \in queue[b] : t.pid = a =>
           t.ts \in Nat /\ t.ts <= clock[a] /\ \A u \in pending[a] : t.ts <= u.ts
    BY <1>1 DEF IInv, Newest, Ticket
  <2>3. CASE a = p
    <3>1. clock'[a] = now /\ pending'[a] = {ticket} /\ clock[a] \in Nat
      BY <1>1, <1>4, <2>3 DEF TypeOK
    <3>2. \A i \in DOMAIN net'[a][b] : net'[a][b][i].type = "Request" =>
            net'[a][b][i].request.ts <= now
      BY <1>9, <3>1 DEF ChannelsInOrder, InOrder, ChannelOK, Stamp
    <3> QED
      BY <1>2, <1>5, <2>1, <2>2, <2>3, <3>1, <3>2
  <2>4. CASE a # p
    <3>1. clock'[a] = clock[a] /\ pending'[a] = pending[a] /\ net'[a][b] = net[a][b]
      BY <1>1, <1>4, <2>4 DEF TypeOK, Broadcast, Channels
    <3> QED
      BY <1>5, <2>1, <2>2, <2>4, <3>1 DEF IInv, Newest
  <2> QED
    BY <2>3, <2>4
<1> QED
  BY <1>6, <1>7, <1>8, <1>9, <1>10 DEF IInv

\* OnEvent(kReleaseParty) keeps the invariant.
LEMMA ReleasePartyIInv ==
  ASSUME IInv, NEW p \in Pid, ReleaseParty(p)
  PROVE  IInv'
<1>1. TypeOK /\ clock \in [Pid -> Nat] /\ net \in Channels
        /\ \A r \in Pid : queue[r] \in SUBSET Ticket
  BY DEF IInv, TypeOK, Channels
<1>2. /\ inside[p]
      /\ clock' = [clock EXCEPT ![p] = Tick(clock[p])]
      /\ pending' = [pending EXCEPT ![p] = {}]
      /\ state' = [state EXCEPT ![p] = "idle"]
      /\ inside' = [inside EXCEPT ![p] = FALSE]
      /\ shouldWant' = [shouldWant EXCEPT ![p] = TRUE]
      /\ queue' = queue /\ net' = net
  BY DEF ReleaseParty, Release
<1>3. state[p] = "inParty" /\ pending[p] = {}
  BY <1>2 DEF IInv, LocalThreadAgrees, OwnRequestQueued
<1>4. Tick(clock[p]) \in Nat /\ clock[p] <= Tick(clock[p])
  BY <1>1 DEF Tick
<1>5. TypeOK'
  BY <1>1, ReleasePartyType
<1>6. LocalThreadAgrees'
  BY <1>1, <1>2 DEF IInv, TypeOK, LocalThreadAgrees
<1>7. OwnRequestQueued'
  BY <1>1, <1>2, <1>3 DEF IInv, TypeOK, OwnRequestQueued
<1>8. ChannelsInOrder'
  BY <1>1, <1>2, <1>4, InOrderLater DEF IInv, ChannelsInOrder
<1>9. Newest(queue, net, clock, pending)'
  <2>1. clock' \in [Pid -> Nat] /\ \A r \in Pid : clock[r] <= clock'[r]
    BY <1>1, <1>2, <1>4
  <2>2. \A r \in Pid : pending'[r] \subseteq pending[r]
    BY <1>1, <1>2 DEF TypeOK
  <2>3. NoNewRequest(net, net) /\ Newest(queue, net, clock, pending)
    BY DEF NoNewRequest, IInv
  <2>4. \A r \in Pid : queue'[r] \subseteq queue[r]
    BY <1>2
  <2> QED
    BY <1>1, <1>2, <2>1, <2>2, <2>3, <2>4, NewestKept
<1> QED
  BY <1>5, <1>6, <1>7, <1>8, <1>9 DEF IInv

\* Every step keeps the invariant.
LEMMA NextIInv == IInv /\ [Next]_vars => IInv'
<1> SUFFICES ASSUME IInv, [Next]_vars PROVE IInv'
  OBVIOUS
<1>1. ASSUME NEW p \in Pid, WantParty(p) PROVE IInv'
  BY <1>1, WantPartyIInv
<1>2. ASSUME NEW p \in Pid, ReleaseParty(p) PROVE IInv'
  BY <1>2, ReleasePartyIInv
<1>3. ASSUME NEW p \in Pid, NEW q \in Pid \ {p}, Handle(p, q) PROVE IInv'
  BY <1>3, OnRequestIInv, OnReplyIInv, OnPartyStartIInv DEF Handle
<1>4. CASE UNCHANGED vars
  BY <1>4 DEF vars, IInv, TypeOK, LocalThreadAgrees, OwnRequestQueued,
              ChannelsInOrder
<1> QED
  BY <1>1, <1>2, <1>3, <1>4 DEF Next
-----------------------------------------------------------------------------
\* What the invariant gives.

\* A reply answers a request older than itself, and what follows it is younger.
LEMMA FenceFromOrder == TypeOK /\ ChannelsInOrder => RepliesFenceRequests
<1> SUFFICES ASSUME TypeOK, ChannelsInOrder,
                    NEW p \in Pid, NEW q \in Pid,
                    NEW i \in DOMAIN net[q][p], NEW j \in DOMAIN net[q][p], i < j,
                    net[q][p][i].type = "Reply", net[q][p][j].type = "Request"
             PROVE  Before(net[q][p][i].request, net[q][p][j].request)
  BY DEF RepliesFenceRequests
<1> DEFINE r == net[q][p][i]
           s == net[q][p][j]
<1>1. r \in Message /\ s \in Message
  BY ElementOfSeq, LenProperties DEF TypeOK
<1>2. r.request.ts \in Nat /\ r.sender.ts \in Nat /\ s.request.ts \in Nat
  BY <1>1 DEF Message, Ticket
<1>3. r.request.ts < r.sender.ts /\ Stamp(r) < Stamp(s)
  BY DEF ChannelsInOrder, InOrder, ChannelOK
<1>4. Stamp(r) = r.sender.ts /\ Stamp(s) = s.request.ts
  BY DEF Stamp
<1> QED
  BY <1>2, <1>3, <1>4 DEF Before

\* The invariant bounds the tickets in queues and in channels alike.
LEMMA NewestTickets == IInv => TicketsAreNewest
<1> SUFFICES ASSUME IInv, NEW p \in Pid, NEW t \in KnownTickets(p)
             PROVE  t.ts <= clock[p] /\ \A u \in pending[p] : t.ts <= u.ts
  BY DEF TicketsAreNewest
<1>1. CASE t.pid = p /\ t \in UNION {queue[q] : q \in Pid}
  <2>1. PICK q \in Pid : t \in queue[q]
    BY <1>1
  <2> QED
    BY <1>1, <2>1 DEF IInv, Newest
<1>2. CASE t \in {m.request : m \in {n \in UNION {InFlight(p, q) : q \in Pid} :
                                       n.type = "Request"}}
  <2>1. PICK q \in Pid : \E m \in InFlight(p, q) : m.type = "Request" /\ t = m.request
    BY <1>2
  <2>2. PICK i \in DOMAIN net[p][q] :
          net[p][q][i].type = "Request" /\ t = net[p][q][i].request
    BY <2>1 DEF InFlight, Range
  <2> QED
    BY <2>2 DEF IInv, Newest, ChannelsInOrder, InOrder, ChannelOK, Stamp
<1> QED
  BY <1>1, <1>2 DEF KnownTickets
-----------------------------------------------------------------------------
\* Waiting processes, in a world of two or more.

\* What a step of p must do to the replies for nobody to wait in vain.
AwaitsReply(p) ==
  /\ \E s \in AppState : state' = [state EXCEPT ![p] = s]
  /\ \E got \in SUBSET Pid : replies' = [replies EXCEPT ![p] = got]
  /\ state'[p] = "waiting" => replies'[p] # Pid

\* Recompute leaves p waiting only when a reply is missing.
LEMMA RecomputeAwaits ==
  ASSUME TypeOK, NEW p \in Pid, NEW now, NEW q, NEW got \in SUBSET Pid, NEW n,
         Concludes(p, now, q, got, n)
  PROVE  AwaitsReply(p)
<1> DEFINE queued == (state[p] = "waiting" /\ AllRepliesReceived(got))
                       \/ state[p] = "queued"
<1>1. CASE /\ state' = [state EXCEPT ![p] = IF queued THEN "queued" ELSE @]
           /\ replies' = [replies EXCEPT ![p] = got]
  <2>1. state'[p] = "waiting" => state[p] = "waiting" /\ ~queued
    BY <1>1 DEF TypeOK
  <2>2. replies'[p] = got
    BY <1>1 DEF TypeOK
  <2>3. (IF queued THEN "queued" ELSE state[p]) \in AppState
    BY DEF TypeOK, AppState
  <2> QED
    BY <1>1, <2>1, <2>2, <2>3 DEF AwaitsReply, AllRepliesReceived
<1>2. CASE /\ state' = [state EXCEPT ![p] = "inParty"]
           /\ replies' = [replies EXCEPT ![p] = {}]
  BY <1>2 DEF AwaitsReply, TypeOK, AppState
<1> QED
  BY <1>1, <1>2 DEF Concludes, Recompute, Queued, AllReplied, GoToParty

\* One reply is missing at first, when there is another process; a handler that
\* marks one runs Recompute.
LEMMA NextAwaits ==
  ASSUME WorldSize > 1, TypeOK, WaitingMissesReply, [Next]_vars
  PROVE  WaitingMissesReply'
<1>1. ASSUME NEW p \in Pid, AwaitsReply(p) PROVE WaitingMissesReply'
  BY <1>1 DEF AwaitsReply, WaitingMissesReply, TypeOK
<1>2. ASSUME NEW p \in Pid, NEW q \in Pid \ {p}, OnRequest(p, q)
      PROVE  WaitingMissesReply'
  <2>1. replies[p] \in SUBSET Pid
    BY DEF TypeOK
  <2> QED
    BY <1>1, <1>2, <2>1, RecomputeAwaits DEF OnRequest
<1>3. ASSUME NEW p \in Pid, NEW q \in Pid \ {p}, OnReply(p, q)
      PROVE  WaitingMissesReply'
  <2>1. CASE UNCHANGED <<state, replies>>
    BY <2>1 DEF WaitingMissesReply
  <2>2. replies[p] \cup {q} \in SUBSET Pid
    BY DEF TypeOK
  <2> QED
    BY <1>1, <1>3, <2>1, <2>2, RecomputeAwaits DEF OnReply, IgnoreReply
<1>4. ASSUME NEW p \in Pid, NEW q \in Pid \ {p}, OnPartyStart(p, q)
      PROVE  WaitingMissesReply'
  <2>1. replies[p] \in SUBSET Pid
    BY DEF TypeOK
  <2>2. CASE /\ state' = [state EXCEPT ![p] = "inParty"]
             /\ replies' = [replies EXCEPT ![p] = {}]
    BY <1>1, <2>2 DEF AwaitsReply, TypeOK, AppState
  <2> QED
    BY <1>1, <1>4, <2>1, <2>2, RecomputeAwaits DEF OnPartyStart, GoToParty
<1>5. ASSUME NEW p \in Pid, WantParty(p) PROVE WaitingMissesReply'
  <2>1. {p} # Pid
    <3>1. 0 \in Pid /\ 1 \in Pid
      BY ConfigAssumption DEF Pid, WorldSize
    <3> QED
      BY <3>1
  <2>2. CASE /\ state' = [state EXCEPT ![p] = "waiting"]
             /\ replies' = [replies EXCEPT ![p] = {p}]
    BY <1>1, <2>1, <2>2 DEF AwaitsReply, TypeOK, AppState
  <2>3. CASE UNCHANGED <<state, replies>>
    BY <2>3 DEF WaitingMissesReply
  <2> QED
    BY <1>5, <2>2, <2>3 DEF WantParty, Want
<1>6. ASSUME NEW p \in Pid, ReleaseParty(p) PROVE WaitingMissesReply'
  BY <1>1, <1>6 DEF ReleaseParty, AwaitsReply, TypeOK, AppState, Release
<1>7. CASE UNCHANGED vars
  BY <1>7 DEF vars, WaitingMissesReply
<1> QED
  BY <1>2, <1>3, <1>4, <1>5, <1>6, <1>7 DEF Next, Handle

-----------------------------------------------------------------------------
\* A wish is drawn only when the algorithm is idle (WantOnlyWhenIdle): a process
\* pulled into a party while idle cannot ask for another one meanwhile.
THEOREM WishesComeWhenIdle == Spec => []WantOnlyWhenIdle
<1>1. IInv => WantOnlyWhenIdle
  BY DEF IInv, LocalThreadAgrees, WantOnlyWhenIdle, MayWant
<1> QED
  BY InitIInv, NextIInv, <1>1, PTL DEF Spec

\* A process has its own ticket in its replica exactly while its request is
\* outstanding (OwnRequestQueued).
THEOREM OwnRequestIsQueued == Spec => []OwnRequestQueued
<1>1. IInv => OwnRequestQueued
  BY DEF IInv
<1> QED
  BY InitIInv, NextIInv, <1>1, PTL DEF Spec

\* Behind a reply travel only later requests (RepliesFenceRequests), which is
\* what Lamport's argument asks of the channels.
THEOREM RepliesFence == Spec => []RepliesFenceRequests
<1>1. IInv => RepliesFenceRequests
  BY FenceFromOrder DEF IInv
<1> QED
  BY InitIInv, NextIInv, <1>1, PTL DEF Spec

\* The request a process waits for is its newest ticket, in every queue and
\* channel (TicketsAreNewest).
THEOREM RequestIsNewest == Spec => []TicketsAreNewest
BY InitIInv, NextIInv, NewestTickets, PTL DEF Spec

\* A waiting process misses a reply (WaitingMissesReply), if there is another
\* process; the run lone_process shows why that is needed.
THEOREM WaitersMissReply == WorldSize > 1 => (Spec => []WaitingMissesReply)
<1> SUFFICES ASSUME WorldSize > 1 PROVE Spec => []WaitingMissesReply
  OBVIOUS
<1>1. Init => WaitingMissesReply
  BY DEF Init, InitProcesses, WaitingMissesReply
<1>2. TypeOK /\ WaitingMissesReply /\ [Next]_vars => WaitingMissesReply'
  BY NextAwaits
<1> QED
  BY TypeCorrect, <1>1, <1>2, PTL DEF Spec
=============================================================================
