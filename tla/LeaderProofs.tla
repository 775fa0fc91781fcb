---------------------------- MODULE LeaderProofs ----------------------------
(***************************************************************************)
(* When a party outlasts the traffic about it: LeadingNow is an invariant, *)
(* for any number of hares and bears, any capacity and any number of       *)
(* requests, and with it the queues agree on one leader at a time, no      *)
(* request is lost and a leader is never on its way into another party.    *)
(***************************************************************************)
EXTENDS LeaderStageProofs, LamportQueueProofs
-----------------------------------------------------------------------------
\* Channels as sets of messages.

\* The messages in channels of the right type.
LEMMA FlightsType ==
  ASSUME NEW n \in Channels
  PROVE  /\ Flights(n) \in [Pid -> [Pid -> SUBSET Message]]
         /\ \A a \in Pid : Flights(n)[a][a] = {}
         /\ \A a, b \in Pid : Flights(n)[a][b] = Range(n[a][b])
<1>1. \A a, b \in Pid : Range(n[a][b]) \in SUBSET Message
  BY ElementOfSeq, LenProperties DEF Channels, Range
<1>2. \A a \in Pid : Range(n[a][a]) = {}
  BY DEF Channels, Range
<1> QED
  BY <1>1, <1>2 DEF Flights

\* Append adds a message.
LEMMA RangeAppend ==
  ASSUME NEW s \in Seq(Message), NEW m \in Message
  PROVE  Range(Append(s, m)) = Range(s) \cup {m}
<1> DEFINE r == Append(s, m)
<1>1. /\ DOMAIN r = 1 .. Len(s) + 1
      /\ DOMAIN s = 1 .. Len(s)
      /\ Len(s) \in Nat
      /\ \A i \in 1 .. Len(s) : r[i] = s[i]
      /\ r[Len(s) + 1] = m
  BY AppendFacts
<1> HIDE DEF r
<1>2. \A i \in DOMAIN r : r[i] = m \/ (i \in DOMAIN s /\ r[i] = s[i])
  BY <1>1
<1>3. \A i \in DOMAIN s : i \in DOMAIN r /\ r[i] = s[i]
  BY <1>1
<1>4. Len(s) + 1 \in DOMAIN r /\ r[Len(s) + 1] = m
  BY <1>1
<1>5. Range(r) = Range(s) \cup {m}
  BY <1>2, <1>3, <1>4 DEF Range
<1> QED
  BY <1>5 DEF r

\* Tail takes the head away, and all that stays is younger.
LEMMA RangeTail ==
  ASSUME NEW s \in Seq(Message), s # <<>>, NEW a, NEW c, ChannelOK(s, a, c)
  PROVE  /\ Range(Tail(s)) = Range(s) \ {Head(s)}
         /\ Head(s) \in Range(s)
         /\ \A n \in Range(s) \ {Head(s)} : Stamp(Head(s)) < Stamp(n)
<1> DEFINE r == Tail(s)
           h == Head(s)
<1>1. /\ Len(s) \in Nat
      /\ DOMAIN s = 1 .. Len(s)
      /\ DOMAIN r = 1 .. Len(s) - 1
      /\ \A i \in 1 .. Len(s) - 1 : r[i] = s[i + 1]
      /\ 1 \in DOMAIN s /\ h = s[1]
  BY TailFacts
<1> HIDE DEF r, h
<1>2. \A i \in DOMAIN s : i = 1 \/ (i - 1 \in DOMAIN r /\ r[i - 1] = s[i])
  BY <1>1
<1>3. \A i \in DOMAIN r : i + 1 \in DOMAIN s /\ 1 < i + 1 /\ r[i] = s[i + 1]
  BY <1>1
<1>4. \A i \in DOMAIN s : Stamp(s[i]) \in Nat
  BY ElementOfSeq, LenProperties, StampType
<1>5. \A i \in DOMAIN s : i # 1 => Stamp(h) < Stamp(s[i])
  BY <1>1 DEF ChannelOK
<1>6. \A i \in DOMAIN s : i # 1 => s[i] # h
  BY <1>1, <1>4, <1>5
<1>7. Range(r) = Range(s) \ {h}
  <2>1. ASSUME NEW x \in Range(r) PROVE x \in Range(s) \ {h}
    <3>1. PICK i \in DOMAIN r : x = r[i]
      BY DEF Range
    <3>2. i + 1 \in DOMAIN s /\ i + 1 # 1 /\ x = s[i + 1]
      BY <1>1, <1>3, <3>1
    <3> QED
      BY <1>6, <3>2 DEF Range
  <2>2. ASSUME NEW x \in Range(s) \ {h} PROVE x \in Range(r)
    BY <1>1, <1>2 DEF Range
  <2> QED
    BY <2>1, <2>2
<1>8. h \in Range(s) /\ \A n \in Range(s) \ {h} : Stamp(h) < Stamp(n)
  BY <1>1, <1>5 DEF Range
<1> QED
  BY <1>7, <1>8 DEF r, h

\* Broadcast adds a message to every channel of p.
LEMMA FlightsBroadcast ==
  ASSUME NEW n \in Channels, NEW p \in Pid, NEW m \in Message
  PROVE  SentToAll(Flights(n), p, m, Flights(Broadcast(n, p, m)))
<1> DEFINE g == Broadcast(n, p, m)
<1>1. g \in Channels
  BY BroadcastType
<1>2. ASSUME NEW a \in Pid, NEW b \in Pid
      PROVE  Range(g[a][b]) =
               IF a = p /\ b # p THEN Range(n[a][b]) \cup {m} ELSE Range(n[a][b])
  <2>1. CASE a = p /\ b # p
    <3>1. g[a][b] = Append(n[a][b], m) /\ n[a][b] \in Seq(Message)
      BY <2>1 DEF Broadcast, Channels
    <3> HIDE DEF g
    <3> QED
      BY <2>1, <3>1, RangeAppend
  <2>2. CASE ~(a = p /\ b # p)
    BY <2>2 DEF Broadcast, Channels
  <2> QED
    BY <2>1, <2>2
<1> HIDE DEF g
<1>3. SentToAll(Flights(n), p, m, Flights(g))
  <2>1. \A a, b \in Pid : Flights(n)[a][b] = Range(n[a][b])
    BY FlightsType
  <2>2. \A a, b \in Pid : Flights(g)[a][b] = Range(g[a][b])
    BY <1>1, FlightsType
  <2> SUFFICES ASSUME NEW a \in Pid, NEW b \in Pid
      PROVE  Flights(g)[a][b] =
               IF a = p /\ b # p THEN Flights(n)[a][b] \cup {m} ELSE Flights(n)[a][b]
    BY DEF SentToAll
  <2>3. Flights(n)[a][b] = Range(n[a][b]) /\ Flights(g)[a][b] = Range(g[a][b])
    BY <2>1, <2>2
  <2> QED
    BY <1>2, <2>3
<1> QED
  BY <1>3 DEF g

\* What a handler finds in the channels when it takes the head of one.
LEMMA FlightsConsumed ==
  ASSUME TypeOK, ChannelsInOrder, NEW p \in Pid, NEW q \in Pid \ {p},
         NEW type, Arrives(p, q, type)
  PROVE  LET m == Head(net[q][p])
             f == Flights(net)
         IN  /\ m \in f[q][p] /\ m \in Message /\ m.type = type
             /\ WellFormed(m, q) /\ Stamp(m) \in Nat /\ Stamp(m) <= clock[q]
             /\ \A n \in f[q][p] \ {m} : Stamp(m) < Stamp(n)
             /\ TakenFrom(f, q, p, m, Flights(Consumed(p, q)))
<1> DEFINE m == Head(net[q][p])
           g == Consumed(p, q)
<1>1. /\ m \in Message /\ m.type = type
      /\ WellFormed(m, q) /\ Stamp(m) \in Nat /\ Stamp(m) <= clock[q]
  BY HeadInOrder
<1>2. net \in Channels /\ g \in Channels
  BY ArrivesType DEF TypeOK, Channels
<1>3. net[q][p] \in Seq(Message) /\ net[q][p] # <<>> /\ ChannelOK(net[q][p], q, clock[q])
  BY DEF Arrives, TypeOK, ChannelsInOrder, InOrder
<1>4. /\ Range(Tail(net[q][p])) = Range(net[q][p]) \ {m}
      /\ m \in Range(net[q][p])
      /\ \A n \in Range(net[q][p]) \ {m} : Stamp(m) < Stamp(n)
  BY <1>3, RangeTail
<1>5. \A a, b \in Pid :
        g[a][b] = IF a = q /\ b = p THEN Tail(net[a][b]) ELSE net[a][b]
  BY DEF Consumed, TypeOK
<1> HIDE DEF m, g
<1>6. TakenFrom(Flights(net), q, p, m, Flights(g))
  <2>1. \A a, b \in Pid : Flights(net)[a][b] = Range(net[a][b])
    BY <1>2, FlightsType
  <2>2. \A a, b \in Pid : Flights(g)[a][b] = Range(g[a][b])
    BY <1>2, FlightsType
  <2> SUFFICES ASSUME NEW a \in Pid, NEW b \in Pid
      PROVE  Flights(g)[a][b] =
               IF a = q /\ b = p THEN Flights(net)[a][b] \ {m} ELSE Flights(net)[a][b]
    BY DEF TakenFrom
  <2>3. CASE a = q /\ b = p
    BY <1>4, <1>5, <2>1, <2>2, <2>3
  <2>4. CASE ~(a = q /\ b = p)
    BY <1>5, <2>1, <2>2, <2>4
  <2> QED
    BY <2>3, <2>4
<1> QED
  BY <1>1, <1>2, <1>4, <1>6, FlightsType DEF m, g

\* What the channels hold when the handler of a request has replied.
LEMMA FlightsAnswered ==
  ASSUME TypeOK, ChannelsInOrder, NEW p \in Pid, NEW q \in Pid \ {p},
         Arrives(p, q, "Request"), NEW r \in Message
  PROVE  Answers(Flights(net), p, q, Head(net[q][p]), r,
                 Flights([Consumed(p, q) EXCEPT ![p][q] = Append(@, r)]))
<1> DEFINE n == Consumed(p, q)
           g == [n EXCEPT ![p][q] = Append(@, r)]
           m == Head(net[q][p])
<1>1. n \in Channels /\ g \in Channels
  BY ArrivesType, SendType
<1>2. TakenFrom(Flights(net), q, p, m, Flights(n))
  BY FlightsConsumed
<1> HIDE DEF n, m
<1>3. \A a, b \in Pid :
        g[a][b] = IF a = p /\ b = q THEN Append(n[a][b], r) ELSE n[a][b]
  BY <1>1 DEF Channels
<1>4. n[p][q] \in Seq(Message)
  BY <1>1 DEF Channels
<1>5. Range(Append(n[p][q], r)) = Range(n[p][q]) \cup {r}
  BY <1>4, RangeAppend
<1> HIDE DEF g
<1>6. Answers(Flights(net), p, q, m, r, Flights(g))
  <2>1. \A a, b \in Pid : Flights(n)[a][b] = Range(n[a][b])
    BY <1>1, FlightsType
  <2>2. \A a, b \in Pid : Flights(g)[a][b] = Range(g[a][b])
    BY <1>1, FlightsType
  <2>3. \A a, b \in Pid : Flights(g)[a][b] =
          IF a = p /\ b = q THEN Flights(n)[a][b] \cup {r} ELSE Flights(n)[a][b]
    BY <1>3, <1>5, <2>1, <2>2
  <2>4. \A a, b \in Pid : Flights(n)[a][b] =
          IF a = q /\ b = p THEN Flights(net)[a][b] \ {m} ELSE Flights(net)[a][b]
    BY <1>2 DEF TakenFrom
  <2> HIDE DEF g
  <2> SUFFICES ASSUME NEW a \in Pid, NEW b \in Pid
      PROVE  Flights(g)[a][b] =
               IF a = q /\ b = p THEN Flights(net)[a][b] \ {m}
               ELSE IF a = p /\ b = q THEN Flights(net)[a][b] \cup {r}
               ELSE Flights(net)[a][b]
    BY DEF Answers
  <2>5. CASE a = q /\ b = p
    <3>1. Flights(g)[a][b] = Flights(n)[a][b]
      BY <2>3, <2>5
    <3> QED
      BY <2>4, <2>5, <3>1
  <2>6. CASE a = p /\ b = q
    <3>1. Flights(g)[a][b] = Flights(n)[a][b] \cup {r}
      BY <2>3, <2>6
    <3>2. Flights(n)[a][b] = Flights(net)[a][b]
      BY <2>4, <2>6
    <3> QED
      BY <2>6, <3>1, <3>2
  <2>7. CASE ~ (a = q /\ b = p) /\ ~ (a = p /\ b = q)
    <3>1. Flights(g)[a][b] = Flights(n)[a][b]
      BY <2>3, <2>7
    <3>2. Flights(n)[a][b] = Flights(net)[a][b]
      BY <2>4, <2>7
    <3> QED
      BY <2>7, <3>1, <3>2
  <2> QED
    BY <2>5, <2>6, <2>7
<1> QED
  BY <1>6 DEF g, n, m
-----------------------------------------------------------------------------
\* The handlers, stage by stage.

\* The typed values Leading is about.
LEMMA TypedNow ==
  ASSUME TypeOK
  PROVE  Typed(state, queue, pending, replies, Flights(net), clock)
<1>1. net \in Channels
  BY DEF TypeOK, Channels
<1> QED
  BY <1>1, FlightsType DEF Typed, TypeOK

\* A clock that moves on.
LEMMA ClockLater ==
  ASSUME TypeOK, NEW p \in Pid, NEW now \in Nat, clock[p] <= now
  PROVE  /\ [clock EXCEPT ![p] = now] \in [Pid -> Nat]
         /\ \A a \in Pid : clock[a] <= [clock EXCEPT ![p] = now][a]
BY DEF TypeOK

\* A handler of p that ends with Recompute has handed over, with the time now,
\* the queue q, the replies got and the channels n, what Leading is true of, and
\* the PartyStarts under way name the same processes.
Concluding(p, now, q, got, n) ==
  /\ Handed(now, q, n) /\ got \in SUBSET Pid
  /\ clock[p] <= now
  /\ Concludes(p, now, q, got, n)
  /\ Leading(state, [queue EXCEPT ![p] = q], pending, [replies EXCEPT ![p] = got],
             Flights(n), clock)
  /\ \A a \in Pid : NamedIn(Flights(net), a) <=> NamedIn(Flights(n), a)

Concludable(p) == \E now, q, got, n : Concluding(p, now, q, got, n)

\* The handlers that do not end with Recompute: p ignores a reply, or it enters
\* a party that names it.
Apart(p) ==
  /\ UNCHANGED partyCounter
  /\ \A a \in Pid \ {p} : NamedIn(Flights(net), a) <=> NamedIn(Flights(net'), a)
  /\ \/ /\ UNCHANGED <<state, pending>>
        /\ NamedIn(Flights(net), p) <=> NamedIn(Flights(net'), p)
     \/ /\ NamedIn(Flights(net), p)
        /\ state' = [state EXCEPT ![p] = "inParty"]
        /\ pending' = [pending EXCEPT ![p] = {}]

\* What p takes changes who is named only if it is a message that names p.
LEMMA StayNamed ==
  ASSUME NEW f, NEW g, NEW p \in Pid, NEW q \in Pid, NEW m, TakenFrom(f, q, p, m, g)
  PROVE  /\ \A a \in Pid \ {p} : NamedIn(f, a) <=> NamedIn(g, a)
         /\ (m.type = "PartyStart" /\ p \in m.participants) \/ (NamedIn(f, p) <=> NamedIn(g, p))
<1>1. \A a \in Pid \ {p} : \A l \in Pid : g[l][a] = f[l][a]
  BY DEF TakenFrom
<1>2. g[q][p] = f[q][p] \ {m} /\ \A l \in Pid \ {q} : g[l][p] = f[l][p]
  BY DEF TakenFrom
<1>3. \A a \in Pid \ {p} : NamedIn(f, a) <=> NamedIn(g, a)
  BY <1>1 DEF NamedIn, PartyStarts
<1>4. (m.type = "PartyStart" /\ p \in m.participants) \/ (NamedIn(f, p) <=> NamedIn(g, p))
  BY <1>2 DEF NamedIn, PartyStarts
<1> QED
  BY <1>3, <1>4

\* Recompute can count p as queued at once.
LEMMA ConcludingQueued ==
  ASSUME TypeOK, NEW p \in Pid, NEW now, NEW q, NEW got, NEW n,
         Concluding(p, now, q, got, n), Queued(p, got)
  PROVE  Leading([state EXCEPT ![p] = "queued"], [queue EXCEPT ![p] = q], pending,
                 [replies EXCEPT ![p] = got], Flights(n), clock)
<1> DEFINE qs == [queue EXCEPT ![p] = q]
           rp == [replies EXCEPT ![p] = got]
           f  == Flights(n)
           st == [state EXCEPT ![p] = "queued"]
<1>1. Typed(state, qs, pending, rp, f, clock)
  BY FlightsType DEF TypeOK, Typed, Handed, Concluding
<1>2. qs[p] = q /\ rp[p] = got /\ st[p] = "queued" /\ OnlyAt(p, state, st)
  BY DEF TypeOK, OnlyAt
<1>3. Leading(state, qs, pending, rp, f, clock)
  BY DEF Concluding
<1>4. CASE state[p] = "waiting" /\ got = Pid
  <2> HIDE DEF qs, rp, f, st
  <2>1. Leading(st, qs, pending, rp, f, clock)
    BY <1>1, <1>2, <1>3, <1>4, QueuedStage
  <2> QED
    BY <2>1 DEF qs, rp, f, st
<1>5. CASE state[p] = "queued"
  <2>1. st = state
    BY <1>5 DEF TypeOK
  <2> QED
    BY <1>3, <2>1
<1> QED
  BY <1>4, <1>5 DEF Queued, AllReplied, AllRepliesReceived

\* Recompute keeps the invariant.
LEMMA RecomputeLeading ==
  ASSUME TypeOK, TypeOK', NEW p \in Pid, NEW now, NEW q, NEW got, NEW n,
         Concluding(p, now, q, got, n)
  PROVE  LeadingNow'
<1> USE DEF Concluding
<1> DEFINE qs == [queue EXCEPT ![p] = q]
           rp == [replies EXCEPT ![p] = got]
           f  == Flights(n)
           st == [state EXCEPT ![p] = "queued"]
<1>1. Typed(state, qs, pending, rp, f, clock)
  BY FlightsType DEF TypeOK, Typed, Handed
<1>2. Typed(st, qs, pending, rp, f, clock)
  BY <1>1 DEF Typed, AppState
<1>3. qs[p] = q /\ rp[p] = got /\ st[p] = "queued"
  BY DEF TypeOK
<1>4. ASSUME Queued(p, got)
      PROVE  Leading(st, qs, pending, rp, f, clock)
  BY <1>4, ConcludingQueued
<1>5. CASE StaysOut(p, now, q, got, n)
  <2>1. PICK time \in {now, now + 1} : clock' = [clock EXCEPT ![p] = time]
    BY <1>5 DEF StaysOut
  <2>2. /\ clock' \in [Pid -> Nat]
        /\ \A a \in Pid : clock[a] <= clock'[a]
    BY <2>1 DEF TypeOK, Handed
  <2>3. /\ queue' = qs /\ replies' = rp /\ pending' = pending /\ net' = n
        /\ state' = IF Queued(p, got) THEN st ELSE state
    BY <1>5 DEF StaysOut
  <2> HIDE DEF qs, rp, f, st
  <2>4. Leading(state', qs, pending, rp, f, clock)
    BY <1>4, <2>3 DEF qs, rp, f
  <2>5. Typed(state', qs, pending, rp, f, clock)
    BY <1>1, <1>2, <2>3
  <2>6. Leading(state', qs, pending, rp, f, clock')
    BY <2>2, <2>4, <2>5, LaterStage
  <2> QED
    BY <2>3, <2>6 DEF LeadingNow, f
<1>6. CASE StartsParty(p, now, q, got, n)
  <2>1. PICK start \in Message :
          /\ start.type = "PartyStart"
          /\ start.sender.ts > now
          /\ p \in start.participants
          /\ start.participants = TryFormGroup(q)
          /\ Queued(p, got) /\ AmLeader(p, q)
          /\ EntersParty(p, start, start.sender.ts, q, Broadcast(n, p, start))
    BY <1>6 DEF StartsParty
  <2>2. \A r \in start.participants : \E t \in q : t.pid = r
    BY <2>1, GroupIsPids DEF Handed, AmLeader
  <2>3. net' = Broadcast(n, p, start)
    BY <2>1 DEF EntersParty
  <2>4. SentToAll(f, p, start, Flights(net'))
    BY <2>3, FlightsBroadcast DEF Handed
  <2>5. \A a \in Pid : clock[a] <= clock'[a]
    <3>1. start.sender.ts \in Nat
      BY <2>1 DEF Message, Ticket
    <3> QED
      BY <2>1, <3>1 DEF EntersParty, GoToParty, TypeOK, Handed
  <2>6. Joins(p, start.participants, st, qs, pending, rp,
              state', queue', pending', replies')
    BY <2>1, <1>3 DEF EntersParty, GoToParty, Joins, OnlyAt, TypeOK
  <2>7. Typed(state', queue', pending', replies', Flights(net'), clock')
    <3>1. net' \in Channels
      BY DEF TypeOK, Channels
    <3> QED
      BY <3>1, FlightsType DEF Typed, TypeOK
  <2>8. Leading(st, qs, pending, rp, f, clock)
    BY <1>4, <2>1
  <2> HIDE DEF qs, rp, f, st
  <2>9. Leading(state', queue', pending', replies', Flights(net'), clock')
    BY <1>2, <1>3, <2>1, <2>2, <2>4, <2>5, <2>6, <2>7, <2>8, StartStage
  <2> QED
    BY <2>9 DEF LeadingNow
<1> QED
  BY <1>5, <1>6, RecomputeCases

\* OnMsg(Request) hands over to Recompute what Leading is true of.
LEMMA OnRequestLeading ==
  ASSUME IInv, LeadingNow, NEW p \in Pid, NEW q \in Pid \ {p}, OnRequest(p, q)
  PROVE  Concludable(p)
<1> DEFINE m    == Head(net[q][p])
           now  == OnReceive(clock[p], m.request.ts)
           r    == ReplyMsg([pid |-> p, ts |-> now], m.request)
           sent == [Consumed(p, q) EXCEPT ![p][q] = Append(@, r)]
           rest == Insert(queue[p], m.request)
<1>1. TypeOK /\ ChannelsInOrder /\ Arrives(p, q, "Request")
  BY DEF IInv, OnRequest
<1>2. /\ m \in Flights(net)[q][p] /\ m \in Message /\ m.type = "Request"
      /\ WellFormed(m, q)
  BY <1>1, FlightsConsumed
<1>3. m.request \in Ticket /\ m.request.pid = q /\ m.request.ts \in Nat
  BY <1>2 DEF Message, WellFormed, Ticket
<1>4. now \in Nat /\ clock[p] < now /\ clock[p] <= now
  BY <1>1, <1>3, OnReceiveType DEF TypeOK
<1> HIDE DEF now
<1>5. /\ r \in Message /\ r.type = "Reply" /\ r.request = m.request
      /\ r.sender.ts = now
  BY <1>3, <1>4 DEF ReplyMsg, Message, Ticket
<1> HIDE DEF r
<1>6. Consumed(p, q) \in Channels /\ sent \in Channels
  BY <1>1, <1>5, ArrivesType, SendType
<1>7. Answers(Flights(net), p, q, m, r, Flights(sent))
  BY <1>1, <1>5, FlightsAnswered
<1>8. Concludes(p, now, rest, replies[p], sent)
  BY DEF OnRequest, MyTicket, now, r
<1>9. Handed(now, rest, sent)
  BY <1>1, <1>3, <1>4, <1>6, InsertType DEF Handed, TypeOK
<1>10. \A n \in Flights(net)[p][q] : Stamp(n) < r.sender.ts
  <2>1. net \in Channels
    BY <1>1 DEF TypeOK, Channels
  <2>2. \A i \in DOMAIN net[p][q] :
          Stamp(net[p][q][i]) <= clock[p] /\ Stamp(net[p][q][i]) \in Nat
    BY <1>1, ElementOfSeq, LenProperties, StampType
    DEF TypeOK, ChannelsInOrder, InOrder, ChannelOK
  <2>3. \A n \in Range(net[p][q]) : Stamp(n) < now
    BY <1>1, <1>4, <2>2 DEF Range, TypeOK
  <2> QED
    BY <1>5, <2>1, <2>3, FlightsType
<1> DEFINE qs == [queue EXCEPT ![p] = rest]
<1>11. OnlyAt(p, queue, qs) /\ qs[p] = rest
  BY <1>1 DEF OnlyAt, TypeOK
<1>12. Typed(state, queue, pending, replies, Flights(net), clock)
  BY <1>1, TypedNow
<1>13. [replies EXCEPT ![p] = replies[p]] = replies /\ replies[p] \in SUBSET Pid
  BY <1>1 DEF TypeOK
<1>14. Leading(state, queue, pending, replies, Flights(net), clock)
  BY DEF LeadingNow
<1> HIDE DEF m, sent
<1>15. Leading(state, qs, pending, replies, Flights(sent), clock)
  <2> HIDE DEF qs
  <2> QED
    BY <1>2, <1>3, <1>5, <1>7, <1>10, <1>11, <1>12, <1>14, RequestStage
<1>16. \A a \in Pid : NamedIn(Flights(net), a) <=> NamedIn(Flights(sent), a)
  <2>1. \A a, b \in Pid : PartyStarts(Flights(sent), a, b) = PartyStarts(Flights(net), a, b)
    <3>1. \A a, b \in Pid : \/ Flights(sent)[a][b] = Flights(net)[a][b] \ {m}
                            \/ Flights(sent)[a][b] = Flights(net)[a][b] \cup {r}
                            \/ Flights(sent)[a][b] = Flights(net)[a][b]
      BY <1>7 DEF Answers
    <3> QED
      BY <1>2, <1>5, <3>1 DEF PartyStarts
  <2> QED
    BY <2>1 DEF NamedIn
<1> HIDE DEF rest
<1>17. Concluding(p, now, rest, replies[p], sent)
  BY <1>4, <1>8, <1>9, <1>13, <1>15, <1>16 DEF Concluding
<1> QED
  BY <1>17 DEF Concludable

\* So does OnMsg(Reply), or it keeps the invariant without Recompute.
LEMMA OnReplyLeading ==
  ASSUME IInv, LeadingNow, NEW p \in Pid, NEW q \in Pid \ {p}, OnReply(p, q)
  PROVE  Concludable(p) \/ (Apart(p) /\ LeadingNow')
<1> DEFINE m    == Head(net[q][p])
           now  == OnReceive(clock[p], m.sender.ts)
           left == Consumed(p, q)
           got  == IF state[p] = "waiting" THEN replies[p] \cup {q} ELSE replies[p]
           rp   == [replies EXCEPT ![p] = got]
<1>1. TypeOK /\ ChannelsInOrder /\ Arrives(p, q, "Reply")
  BY DEF IInv, OnReply
<1>2. /\ m \in Flights(net)[q][p] /\ m \in Message /\ m.type = "Reply"
      /\ WellFormed(m, q) /\ Stamp(m) <= clock[q]
      /\ \A n \in Flights(net)[q][p] \ {m} : Stamp(m) < Stamp(n)
      /\ TakenFrom(Flights(net), q, p, m, Flights(left))
  BY <1>1, FlightsConsumed
<1>3. /\ m.sender.ts \in Nat /\ Stamp(m) = m.sender.ts
      /\ m.request.ts < m.sender.ts
  BY <1>2 DEF Message, WellFormed, Ticket, Stamp
<1>4. now \in Nat /\ clock[p] <= now
  BY <1>1, <1>3, OnReceiveType DEF TypeOK
<1>5. left \in Channels
  BY <1>1, ArrivesType
<1>6. /\ rp \in [Pid -> SUBSET Pid] /\ OnlyAt(p, replies, rp)
      /\ rp[p] = IF state[p] = "waiting" THEN replies[p] \cup {q} ELSE replies[p]
  BY <1>1 DEF OnlyAt, TypeOK
<1>7. Typed(state, queue, pending, replies, Flights(net), clock)
  BY <1>1, TypedNow
<1>8. Leading(state, queue, pending, replies, Flights(net), clock)
  BY DEF LeadingNow
<1>9. \/ /\ state[p] = "waiting"
         /\ Concludes(p, now, queue[p], replies[p] \cup {q}, left)
      \/ IgnoreReply(p, now) /\ net' = left
  BY DEF OnReply
<1> HIDE DEF m, now, left
<1>10. Leading(state, queue, pending, rp, Flights(left), clock)
  <2> HIDE DEF rp
  <2> QED
    BY <1>2, <1>3, <1>6, <1>7, <1>8, ReplyStage
<1> DEFINE f == Flights(net)
           g == Flights(left)
<1>11. \A a \in Pid : NamedIn(f, a) <=> NamedIn(g, a)
  <2>1. \A a, b \in Pid : PartyStarts(g, a, b) = PartyStarts(f, a, b)
    BY <1>2, TakesOther DEF SamePartyStarts
  <2> QED
    BY <2>1 DEF NamedIn
<1>12. CASE /\ state[p] = "waiting"
            /\ Concludes(p, now, queue[p], replies[p] \cup {q}, left)
  <2>1. /\ Handed(now, queue[p], left)
        /\ [queue EXCEPT ![p] = queue[p]] = queue
        /\ got = replies[p] \cup {q} /\ got \in SUBSET Pid
    BY <1>1, <1>4, <1>5, <1>12 DEF Handed, TypeOK
  <2> HIDE DEF got
  <2>2. Concluding(p, now, queue[p], got, left)
    BY <1>4, <1>10, <1>12, <1>11, <2>1 DEF Concluding
  <2> QED
    BY <2>2 DEF Concludable
<1>13. CASE IgnoreReply(p, now) /\ net' = left
  <2>1. /\ state' = state /\ queue' = queue /\ pending' = pending /\ replies' = replies
        /\ net' = left /\ clock' = [clock EXCEPT ![p] = now]
        /\ state[p] # "waiting"
    BY <1>13 DEF IgnoreReply
  <2>2. rp = replies
    BY <1>1, <2>1 DEF TypeOK
  <2>3. /\ clock' \in [Pid -> Nat]
        /\ \A a \in Pid : clock[a] <= clock'[a]
    BY <1>1, <1>4, <2>1, ClockLater
  <2>4. Typed(state, queue, pending, replies, Flights(left), clock)
    BY <1>5, <1>7, FlightsType DEF Typed
  <2>5. Leading(state, queue, pending, replies, Flights(left), clock')
    BY <1>10, <2>2, <2>3, <2>4, LaterStage
  <2> QED
    BY <1>13, <1>11, <2>1, <2>5 DEF LeadingNow, IgnoreReply, Apart
<1> QED
  BY <1>9, <1>12, <1>13

\* So does OnMsg(PartyStart).
LEMMA OnPartyStartLeading ==
  ASSUME IInv, LeadingNow, NEW p \in Pid, NEW q \in Pid \ {p}, OnPartyStart(p, q)
  PROVE  Concludable(p) \/ (Apart(p) /\ LeadingNow')
<1> DEFINE m    == Head(net[q][p])
           now  == OnReceive(clock[p], m.sender.ts)
           left == Consumed(p, q)
           rest == Remove(queue[p], m.participants)
           qs   == [queue EXCEPT ![p] = rest]
<1>1. TypeOK /\ ChannelsInOrder /\ Arrives(p, q, "PartyStart")
  BY DEF IInv, OnPartyStart
<1>2. /\ m \in Flights(net)[q][p] /\ m \in Message /\ m.type = "PartyStart"
      /\ TakenFrom(Flights(net), q, p, m, Flights(left))
  BY <1>1, FlightsConsumed
<1>3. m.sender.ts \in Nat
  BY <1>2 DEF Message, Ticket
<1>4. now \in Nat /\ clock[p] <= now
  BY <1>1, <1>3, OnReceiveType DEF TypeOK
<1>5. left \in Channels
  BY <1>1, ArrivesType
<1>6. rest \in SUBSET Ticket
  BY <1>1, RemoveType DEF TypeOK
<1>7. Typed(state, queue, pending, replies, Flights(net), clock)
  BY <1>1, TypedNow
<1>8. Leading(state, queue, pending, replies, Flights(net), clock)
  BY DEF LeadingNow
<1>9. \/ /\ p \in m.participants
         /\ GoToParty(p, m, now, rest)
         /\ net' = left /\ UNCHANGED partyCounter
      \/ /\ p \notin m.participants
         /\ Concludes(p, now, rest, replies[p], left)
  BY DEF OnPartyStart
<1> HIDE DEF m, now, left
<1> DEFINE f == Flights(net)
           g == Flights(left)
<1>10. /\ \A a \in Pid \ {p} : NamedIn(f, a) <=> NamedIn(g, a)
       /\ p \in m.participants \/ (NamedIn(f, p) <=> NamedIn(g, p))
       /\ p \in m.participants => NamedIn(f, p)
  <2>1. m \in f[q][p] /\ m.type = "PartyStart" /\ TakenFrom(f, q, p, m, g)
    BY <1>2
  <2> HIDE DEF f, g
  <2>2. p \in m.participants => NamedIn(f, p)
    BY <2>1 DEF NamedIn, PartyStarts
  <2> QED
    BY <2>1, <2>2, StayNamed
<1>11. CASE /\ p \in m.participants
            /\ GoToParty(p, m, now, rest)
            /\ net' = left /\ UNCHANGED partyCounter
  <2>1. Joins(p, m.participants, state, queue, pending, replies,
              state', queue', pending', replies')
    BY <1>1, <1>11 DEF GoToParty, Joins, OnlyAt, TypeOK, Remove
  <2>2. /\ clock' \in [Pid -> Nat]
        /\ \A a \in Pid : clock[a] <= clock'[a]
    BY <1>1, <1>4, <1>11, ClockLater DEF GoToParty
  <2>3. Leading(state', queue', pending', replies', Flights(left), clock')
    BY <1>2, <1>7, <1>8, <1>11, <2>1, <2>2, MemberStage
  <2>4. Apart(p)
    BY <1>11, <1>10 DEF Apart, GoToParty
  <2> QED
    BY <1>11, <2>3, <2>4 DEF LeadingNow
<1>12. CASE /\ p \notin m.participants
            /\ Concludes(p, now, rest, replies[p], left)
  <2>1. OnlyAt(p, queue, qs) /\ qs[p] = Remove(queue[p], m.participants)
    BY <1>1 DEF OnlyAt, TypeOK
  <2>2. Leading(state, qs, pending, replies, Flights(left), clock)
    <3> HIDE DEF qs
    <3> QED
      BY <1>2, <1>7, <1>8, <1>12, <2>1, PartyStartStage
  <2>3. [replies EXCEPT ![p] = replies[p]] = replies /\ replies[p] \in SUBSET Pid
    BY <1>1 DEF TypeOK
  <2>4. Handed(now, rest, left)
    BY <1>4, <1>5, <1>6 DEF Handed
  <2>5. \A a \in Pid : NamedIn(f, a) <=> NamedIn(g, a)
    BY <1>12, <1>10
  <2> HIDE DEF rest
  <2>6. Concluding(p, now, rest, replies[p], left)
    BY <1>4, <1>12, <2>2, <2>3, <2>4, <2>5 DEF Concluding
  <2> QED
    BY <2>6 DEF Concludable
<1> QED
  BY <1>9, <1>11, <1>12

\* OnEvent(kWantParty) keeps the invariant.
LEMMA WantPartyLeading ==
  ASSUME IInv, LeadingNow, TypeOK', NEW p \in Pid, WantParty(p)
  PROVE  LeadingNow'
<1> DEFINE now == Tick(clock[p])
           t   == [pid |-> p, ts |-> now]
           m   == RequestMsg(t)
<1>1. TypeOK /\ net \in Channels
  BY DEF IInv, TypeOK, Channels
<1>2. now \in Nat /\ clock[p] < now /\ clock[p] <= now
  BY <1>1 DEF Tick, TypeOK
<1>3. state[p] = "idle"
  BY DEF IInv, LocalThreadAgrees, WantParty, MayWant, Want
<1>4. /\ clock' = [clock EXCEPT ![p] = now]
      /\ state' = [state EXCEPT ![p] = "waiting"]
      /\ replies' = [replies EXCEPT ![p] = {p}]
      /\ pending' = [pending EXCEPT ![p] = {t}]
      /\ queue' = [queue EXCEPT ![p] = Insert(queue[p], t)]
      /\ net' = Broadcast(net, p, m)
  BY <1>3 DEF WantParty, Want, Sends, Asks, MyTicket
<1>5. /\ t \in Ticket /\ t.pid = p /\ clock[p] < t.ts
      /\ m \in Message /\ m.type = "Request" /\ m.request = t
  BY <1>2 DEF Ticket, RequestMsg, Message
<1>6. Typed(state, queue, pending, replies, Flights(net), clock)
  BY <1>1, TypedNow
<1>7. Leading(state, queue, pending, replies, Flights(net), clock)
  BY DEF LeadingNow
<1>8. Typed(state', queue', pending', replies', Flights(net'), clock')
  <2>1. net' \in Channels
    BY DEF TypeOK, Channels
  <2> QED
    BY <2>1, FlightsType DEF Typed, TypeOK
<1>9. SentToAll(Flights(net), p, m, Flights(net'))
  BY <1>1, <1>4, <1>5, FlightsBroadcast
<1>10. \A a \in Pid : clock[a] <= clock'[a]
  BY <1>1, <1>2, <1>4 DEF TypeOK
<1> HIDE DEF now, t, m
<1>11. /\ OnlyAt(p, state, state') /\ state'[p] = "waiting"
       /\ OnlyAt(p, queue, queue') /\ queue'[p] = Insert(queue[p], t)
       /\ OnlyAt(p, pending, pending') /\ pending'[p] = {t}
       /\ OnlyAt(p, replies, replies') /\ replies'[p] = {p}
  BY <1>1, <1>4 DEF OnlyAt, TypeOK
<1>12. Leading(state', queue', pending', replies', Flights(net'), clock')
  BY <1>3, <1>5, <1>6, <1>7, <1>8, <1>9, <1>10, <1>11, WantStage
<1> QED
  BY <1>12 DEF LeadingNow

\* OnEvent(kReleaseParty) keeps the invariant: the party outlasts the traffic.
LEMMA ReleasePartyLeading ==
  ASSUME PartyOutlastsTraffic, IInv, LeadingNow, TypeOK', NEW p \in Pid, ReleaseParty(p)
  PROVE  LeadingNow'
<1>1. TypeOK /\ net \in Channels
  BY DEF IInv, TypeOK, Channels
<1>2. state[p] = "inParty"
  BY DEF IInv, LocalThreadAgrees, ReleaseParty, Release
<1>3. SettledIn(Flights(net), p)
  <2>1. \A a, b \in Pid : \A m \in Range(net[a][b]) :
          /\ m.type = "Request" => a # p
          /\ m.type = "Reply" => b # p
          /\ m.type = "PartyStart" => p \notin m.participants
    BY DEF ReleaseParty, Settled, Range
  <2>2. \A a, b \in Pid : Flights(net)[a][b] = Range(net[a][b])
    BY <1>1, FlightsType
  <2> QED
    BY <2>1, <2>2 DEF SettledIn, Requests, Replies, PartyStarts
<1>4. /\ queue' = queue /\ net' = net
      /\ OnlyAt(p, state, state') /\ state'[p] = "idle"
      /\ OnlyAt(p, pending, pending') /\ pending'[p] = {}
      /\ OnlyAt(p, replies, replies') /\ replies'[p] = {}
  BY <1>1 DEF ReleaseParty, Release, OnlyAt, TypeOK
<1>5. clock' \in [Pid -> Nat] /\ \A a \in Pid : clock[a] <= clock'[a]
  BY <1>1 DEF ReleaseParty, Release, Tick, TypeOK
<1>6. Typed(state, queue, pending, replies, Flights(net), clock)
  BY <1>1, TypedNow
<1>7. Leading(state, queue, pending, replies, Flights(net), clock)
  BY DEF LeadingNow
<1>8. Leading(state', queue, pending', replies', Flights(net), clock)
  BY <1>2, <1>3, <1>4, <1>6, <1>7, ReleaseStage
<1>9. Typed(state', queue, pending', replies', Flights(net), clock)
  BY <1>4, <1>6 DEF Typed, TypeOK
<1>10. Leading(state', queue, pending', replies', Flights(net), clock')
  BY <1>5, <1>8, <1>9, LaterStage
<1> QED
  BY <1>4, <1>10 DEF LeadingNow

\* The invariant holds initially: nobody asks and nothing is under way.
LEMMA InitLeading == Init => LeadingNow
<1> SUFFICES ASSUME Init PROVE LeadingNow
  OBVIOUS
<1>1. TypeOK
  BY InitType
<1>2. \A a, b \in Pid : Flights(net)[a][b] = {}
  <2>1. \A a, b \in Pid : net[a][b] = <<>>
    BY DEF Init
  <2>2. net \in Channels
    BY <1>1 DEF TypeOK, Channels
  <2> QED
    BY <2>1, <2>2, FlightsType DEF Range
<1>3. \A a, b \in Pid : /\ Requests(Flights(net), a, b) = {}
                        /\ Replies(Flights(net), a, b) = {}
                        /\ PartyStarts(Flights(net), a, b) = {}
  BY <1>2 DEF Requests, Replies, PartyStarts
<1>4. \A a \in Pid : /\ state[a] = "idle" /\ queue[a] = {}
                     /\ pending[a] = {} /\ replies[a] = {}
  BY DEF Init, InitProcesses
<1> QED
  BY <1>3, <1>4 DEF LeadingNow, Leading, Exchange, Current, Own, Complete, Fenced,
     Announcing, Exclusive, NothingLost, HeldBack, Forgotten

\* Every step keeps the invariant.
LEMMA NextLeading ==
  PartyOutlastsTraffic => (IInv /\ LeadingNow /\ [Next]_vars => LeadingNow')
<1> SUFFICES ASSUME PartyOutlastsTraffic, IInv, LeadingNow, [Next]_vars PROVE LeadingNow'
  OBVIOUS
<1>1. TypeOK'
  BY NextType DEF IInv
<1>2. ASSUME NEW p \in Pid, WantParty(p) PROVE LeadingNow'
  BY <1>1, <1>2, WantPartyLeading
<1>3. ASSUME NEW p \in Pid, ReleaseParty(p) PROVE LeadingNow'
  BY <1>1, <1>3, ReleasePartyLeading
<1>4. ASSUME NEW p \in Pid, NEW q \in Pid \ {p}, Handle(p, q) PROVE LeadingNow'
  <2>1. TypeOK
    BY DEF IInv
  <2>2. Concludable(p) => LeadingNow'
    BY <1>1, <2>1, RecomputeLeading DEF Concludable
  <2> QED
    BY <1>4, <2>2, OnRequestLeading, OnReplyLeading, OnPartyStartLeading DEF Handle
<1>5. CASE UNCHANGED vars
  BY <1>5 DEF vars, LeadingNow
<1> QED
  BY <1>2, <1>3, <1>4, <1>5 DEF Next

-----------------------------------------------------------------------------
\* What the invariant gives.

\* Who is named in the channels is named in their messages.
LEMMA NamedInFlights ==
  ASSUME TypeOK, NEW p \in Pid PROVE Named(p) <=> NamedIn(Flights(net), p)
<1>1. net \in Channels
  BY DEF TypeOK, Channels
<1>2. \A a, b \in Pid : Flights(net)[a][b] = InFlight(a, b)
  BY <1>1, FlightsType DEF InFlight
<1> QED
  BY <1>2 DEF Named, NamedIn, PartyStarts

\* A queued process has no request under way, for it misses no reply.
LEMMA QueuedToAll == TypeOK /\ LeadingNow => QueuedIsKnownToAll
<1> SUFFICES ASSUME TypeOK, LeadingNow, NEW p \in Pid, NEW q \in Pid, state[p] = "queued"
             PROVE  \A m \in InFlight(p, q) : m.type # "Request"
  BY DEF QueuedIsKnownToAll
<1>1. net \in Channels
  BY DEF TypeOK, Channels
<1>2. Flights(net)[p][q] = InFlight(p, q) /\ Flights(net)[p][p] = {}
  BY <1>1, FlightsType DEF InFlight
<1>3. Requests(Flights(net), p, q) = {}
  BY <1>2 DEF LeadingNow, Leading, Complete, Exchange, Requests
<1> QED
  BY <1>2, <1>3 DEF Requests

\* A pending ticket is in each queue unless its request, or a party for its
\* owner, is under way.
LEMMA NoRequestLost == TypeOK /\ LeadingNow => NoLostRequest
<1> SUFFICES ASSUME TypeOK, LeadingNow, NEW p \in Pid, NEW q \in Pid,
                    NEW t \in pending[p], t \notin queue[q], ~Named(p)
             PROVE  \E m \in InFlight(p, q) : m.type = "Request"
  BY DEF NoLostRequest
<1>1. net \in Channels
  BY DEF TypeOK, Channels
<1>2. Flights(net)[p][q] = InFlight(p, q)
  BY <1>1, FlightsType DEF InFlight
<1>3. Requests(Flights(net), p, q) # {}
  BY NamedInFlights DEF LeadingNow, Leading, NothingLost
<1> QED
  BY <1>2, <1>3 DEF Requests

\* A leader has replies from all, so an older request would be in its queue,
\* unless a party for its owner is on the way.
LEMMA OlderIsNamed ==
  ASSUME NEW st, NEW qs, NEW pd, NEW rp, NEW f, NEW ck,
         Typed(st, qs, pd, rp, f, ck), Leading(st, qs, pd, rp, f, ck),
         NEW p \in Pid, st[p] = "queued", AmLeader(p, qs[p]), NEW t \in pd[p],
         NEW q \in Pid, NEW u \in pd[q], Before(u, t)
  PROVE  NamedIn(f, q)
<1> SUFFICES ASSUME ~NamedIn(f, q) PROVE FALSE
  OBVIOUS
<1>1. t.ts \in Nat /\ u.ts \in Nat /\ t.pid \in Int /\ u.pid \in Int
  BY DEF Typed, Ticket, Pid
<1>2. ~Before(t, u) /\ u # t
  BY <1>1 DEF Before
<1>3. IsFirst(t, qs[p])
  BY DEF AmLeader, Leading, Own, IsFirst
<1>4. u \notin qs[p]
  BY <1>2, <1>3 DEF IsFirst
<1>5. PICK m \in Requests(f, q, p) : m.request = u
  BY <1>4 DEF Leading, NothingLost, Current
<1>6. q # p
  BY <1>5 DEF Typed, Requests
<1>7. q \in rp[p] \ {p}
  BY <1>6 DEF Leading, Complete
<1>8. t.ts < u.ts
  BY <1>5, <1>7 DEF Leading, Fenced
<1> QED
  BY <1>1, <1>8 DEF Before

LEMMA OldestIsLeader == TypeOK /\ LeadingNow => OldestLeads
<1> SUFFICES ASSUME TypeOK, LeadingNow, NEW p \in Pid, NEW q \in Pid,
                    NEW t \in pending[p], NEW u \in pending[q],
                    state[p] = "queued", AmLeader(p, queue[p]), Before(u, t)
             PROVE  Named(q)
  BY DEF OldestLeads
<1> DEFINE f == Flights(net)
<1>1. Typed(state, queue, pending, replies, f, clock)
  BY TypedNow
<1>2. Leading(state, queue, pending, replies, f, clock)
  BY DEF LeadingNow
<1> HIDE DEF f
<1>3. NamedIn(f, q)
  BY <1>1, <1>2, OlderIsNamed
<1> QED
  BY <1>3, NamedInFlights DEF f

\* Only Recompute counts a party, and then no PartyStart is on its way to p.
LEMMA StarterIsFree ==
  ASSUME TypeOK, NEW p \in Pid, Concludable(p)
  PROVE  \A r \in Pid : partyCounter'[r] # partyCounter[r] => ~Named(r)
<1>1. PICK now, q, got, n : Concluding(p, now, q, got, n)
  BY DEF Concludable
<1>2. CASE StaysOut(p, now, q, got, n)
  BY <1>2 DEF StaysOut
<1>3. CASE StartsParty(p, now, q, got, n)
  <2>1. Queued(p, got) /\ AmLeader(p, q)
    BY <1>3 DEF StartsParty
  <2> DEFINE qs == [queue EXCEPT ![p] = q]
             rp == [replies EXCEPT ![p] = got]
             f  == Flights(n)
             st == [state EXCEPT ![p] = "queued"]
  <2>2. qs[p] = q /\ rp[p] = got /\ st[p] = "queued"
    BY DEF TypeOK
  <2>3. Typed(st, qs, pending, rp, f, clock)
    BY <1>1, FlightsType DEF Typed, TypeOK, AppState, Concluding, Handed
  <2>4. Leading(st, qs, pending, rp, f, clock)
    BY <1>1, <2>1, ConcludingQueued
  <2> HIDE DEF qs, rp, f, st
  <2>5. \A l \in Pid : PartyStarts(f, l, p) = {}
    BY <2>1, <2>2, <2>3, <2>4, LeaderHearsNothing DEF Leading
  <2>6. ~Named(p)
    BY <1>1, <2>5, NamedInFlights DEF NamedIn, Concluding, f
  <2>7. \A r \in Pid \ {p} : partyCounter'[r] = partyCounter[r]
    BY <1>1 DEF Concluding, Concludes, Recompute, TypeOK
  <2> QED
    BY <2>6, <2>7
<1> QED
  BY <1>1, <1>2, <1>3, RecomputeCases DEF Concluding

\* A step that starts a party is that of a process nobody has named.
LEMMA NextIsFree ==
  ASSUME IInv, LeadingNow, [Next]_vars
  PROVE  \A p \in Pid : partyCounter'[p] # partyCounter[p] => ~Named(p)
<1>1. TypeOK
  BY DEF IInv
<1>2. ASSUME NEW p \in Pid, NEW q \in Pid \ {p}, Handle(p, q)
      PROVE  Concludable(p) \/ UNCHANGED partyCounter
  BY <1>2, OnRequestLeading, OnReplyLeading, OnPartyStartLeading DEF Handle, Apart
<1>3. (\E p \in Pid : WantParty(p) \/ ReleaseParty(p)) => UNCHANGED partyCounter
  BY DEF WantParty, Want, ReleaseParty, Release
<1> QED
  BY <1>1, <1>2, <1>3, StarterIsFree DEF Next, vars
-----------------------------------------------------------------------------
\* Why there is one leader at a time (LeadingNow), for all sizes: an invariant
\* of the handlers when a party outlasts the traffic about it.
THEOREM LeadingIsInvariant == PartyOutlastsTraffic => (Spec => []LeadingNow)
<1> SUFFICES ASSUME PartyOutlastsTraffic PROVE Spec => []LeadingNow
  OBVIOUS
<1>1. IInv /\ LeadingNow /\ [Next]_vars => LeadingNow'
  BY NextLeading
<1> QED
  BY InitIInv, NextIInv, InitLeading, <1>1, PTL DEF Spec

\* The request of a queued process has reached every other process
\* (QueuedIsKnownToAll): it has counted the replies to this request.
THEOREM QueuedIsKnown == PartyOutlastsTraffic => (Spec => []QueuedIsKnownToAll)
<1> SUFFICES ASSUME PartyOutlastsTraffic PROVE Spec => []QueuedIsKnownToAll
  OBVIOUS
<1>1. Spec => []TypeOK
  BY TypeCorrect
<1>2. Spec => []LeadingNow
  BY LeadingIsInvariant
<1> QED
  BY <1>1, <1>2, QueuedToAll, PTL

\* No outstanding request disappears from the queues (NoLostRequest): a
\* PartyStart removes only tickets of members it will reach.
THEOREM RequestsAreKept == PartyOutlastsTraffic => (Spec => []NoLostRequest)
<1> SUFFICES ASSUME PartyOutlastsTraffic PROVE Spec => []NoLostRequest
  OBVIOUS
<1>1. Spec => []TypeOK
  BY TypeCorrect
<1>2. Spec => []LeadingNow
  BY LeadingIsInvariant
<1> QED
  BY <1>1, <1>2, NoRequestLost, PTL

\* A process at the head of its queue has the oldest outstanding request that
\* no party is about to take (OldestLeads): two processes never both lead.
THEOREM LeaderIsOldest == PartyOutlastsTraffic => (Spec => []OldestLeads)
<1> SUFFICES ASSUME PartyOutlastsTraffic PROVE Spec => []OldestLeads
  OBVIOUS
<1>1. Spec => []TypeOK
  BY TypeCorrect
<1>2. Spec => []LeadingNow
  BY LeadingIsInvariant
<1> QED
  BY <1>1, <1>2, OldestIsLeader, PTL

\* Recompute never starts a party while a PartyStart that names the process is
\* on its way to it (LeaderIsFree).
THEOREM StartersAreFree == PartyOutlastsTraffic => (Spec => LeaderIsFree)
<1> SUFFICES ASSUME PartyOutlastsTraffic PROVE Spec => LeaderIsFree
  OBVIOUS
<1>1. Spec => []LeadingNow
  BY LeadingIsInvariant
<1>2. IInv /\ LeadingNow /\ [Next]_vars =>
        [\A p \in Pid : partyCounter'[p] # partyCounter[p] => ~Named(p)]_vars
  BY NextIsFree
<1> QED
  BY InitIInv, NextIInv, <1>1, <1>2, PTL DEF Spec, LeaderIsFree
=============================================================================
