---------------------------- MODULE PartyProofs -----------------------------
(***************************************************************************)
(* The policy inside the algorithm, for any number of hares and bears, any *)
(* capacity and any number of requests.  Whatever the timing, every party  *)
(* anybody hears of is exact (PartiesAreExact); when a party outlasts the  *)
(* traffic about it, the owner of the oldest request starts a party when   *)
(* the requests allow one, unless its queue has a stale ticket at its head *)
(* (HeadStartsParty), and nobody takes its place before it is served       *)
(* (DueUntilServed).                                                       *)
(***************************************************************************)
EXTENDS LeaderProofs, PolicyProofs

\* What a handler of p may leave in its queue.
Rest(p, rest) ==
  \/ rest = queue[p]
  \/ \E t \in Ticket : rest = Insert(queue[p], t)
  \/ \E pids \in SUBSET Pid : rest = Remove(queue[p], pids)

\* The channels n hold no PartyStart that is not under way now.
FewerStarts(n) ==
  /\ n \in Channels
  /\ \A a, b \in Pid :
       PartyStarts(Flights(n), a, b) \in SUBSET PartyStarts(Flights(net), a, b)

\* The three ways in which the handler of a message ends.
Concluded(p) ==
  \E now, rest, got, n :
    /\ Handed(now, rest, n) /\ Rest(p, rest) /\ FewerStarts(n)
    /\ got \in SUBSET Pid /\ replies[p] \in SUBSET got
    /\ Concludes(p, now, rest, got, n)

Joined(p) ==
  \E now, rest, n :
    /\ Handed(now, rest, n) /\ Rest(p, rest) /\ FewerStarts(n)
    /\ \E q \in Pid : \E m \in PartyStarts(Flights(net), q, p) :
         m \in Message /\ EntersParty(p, m, now, rest, n)

Ignored == UNCHANGED <<state, queue, replies, party>> /\ FewerStarts(net')

\* Taking a message leaves no more PartyStarts under way.
LEMMA ConsumedStarts ==
  ASSUME IInv, NEW p \in Pid, NEW q \in Pid \ {p}, NEW type, Arrives(p, q, type)
  PROVE  FewerStarts(Consumed(p, q))
<1>1. Consumed(p, q) \in Channels
  BY ArrivesType DEF IInv
<1>2. TakenFrom(Flights(net), q, p, Head(net[q][p]), Flights(Consumed(p, q)))
  BY FlightsConsumed DEF IInv
<1> QED
  BY <1>1, <1>2 DEF FewerStarts, TakenFrom, PartyStarts

LEMMA OnRequestEnds ==
  ASSUME IInv, NEW p \in Pid, NEW q \in Pid \ {p}, OnRequest(p, q)
  PROVE  Concluded(p)
<1> DEFINE m    == Head(net[q][p])
           now  == OnReceive(clock[p], m.request.ts)
           r    == ReplyMsg([pid |-> p, ts |-> now], m.request)
           sent == [Consumed(p, q) EXCEPT ![p][q] = Append(@, r)]
           rest == Insert(queue[p], m.request)
<1>1. TypeOK /\ ChannelsInOrder /\ Arrives(p, q, "Request")
  BY DEF IInv, OnRequest
<1>2. m \in Message /\ m.type = "Request"
  BY <1>1, ArrivesType
<1>3. m.request \in Ticket /\ m.request.ts \in Nat
  BY <1>2 DEF Message, Ticket
<1>4. now \in Nat
  BY <1>1, <1>3, OnReceiveType DEF TypeOK
<1> HIDE DEF now
<1>5. r \in Message /\ r.type = "Reply"
  BY <1>3, <1>4 DEF ReplyMsg, Message, Ticket
<1> HIDE DEF r
<1>6. sent \in Channels
  BY <1>1, <1>5, ArrivesType, SendType
<1>7. Answers(Flights(net), p, q, m, r, Flights(sent))
  BY <1>1, <1>5, FlightsAnswered
<1>8. Concludes(p, now, rest, replies[p], sent)
  BY DEF OnRequest, MyTicket, now, r
<1>9. Handed(now, rest, sent)
  BY <1>1, <1>3, <1>4, <1>6, InsertType DEF Handed, TypeOK
<1> HIDE DEF m, sent
<1>10. FewerStarts(sent)
  <2> SUFFICES ASSUME NEW a \in Pid, NEW b \in Pid
               PROVE  PartyStarts(Flights(sent), a, b) \subseteq PartyStarts(Flights(net), a, b)
    BY <1>6 DEF FewerStarts
  <2>1. Flights(sent)[a][b] \subseteq Flights(net)[a][b] \cup {r}
    BY <1>7 DEF Answers
  <2> QED
    BY <1>5, <2>1 DEF PartyStarts
<1>11. Rest(p, rest)
  BY <1>3 DEF Rest
<1>12. replies[p] \in SUBSET Pid
  BY <1>1 DEF TypeOK
<1> HIDE DEF rest
<1> QED
  BY <1>8, <1>9, <1>10, <1>11, <1>12 DEF Concluded

LEMMA OnReplyEnds ==
  ASSUME IInv, NEW p \in Pid, NEW q \in Pid \ {p}, OnReply(p, q)
  PROVE  Concluded(p) \/ Ignored
<1> DEFINE now  == OnReceive(clock[p], Head(net[q][p]).sender.ts)
           left == Consumed(p, q)
<1>1. TypeOK /\ Arrives(p, q, "Reply")
  BY DEF IInv, OnReply
<1>2. left \in Channels /\ Head(net[q][p]) \in Message
        /\ Head(net[q][p]).type = "Reply"
  BY <1>1, ArrivesType
<1>3. Head(net[q][p]).sender.ts \in Nat
  BY <1>2 DEF Message, Ticket
<1>4. now \in Nat
  BY <1>1, <1>3, OnReceiveType DEF TypeOK
<1>5. FewerStarts(left)
  BY <1>1, ConsumedStarts
<1>6. \/ Concludes(p, now, queue[p], replies[p] \cup {q}, left)
      \/ IgnoreReply(p, now) /\ net' = left
  BY DEF OnReply
<1> HIDE DEF now, left
<1>7. CASE Concludes(p, now, queue[p], replies[p] \cup {q}, left)
  <2>1. Handed(now, queue[p], left) /\ Rest(p, queue[p])
    BY <1>1, <1>2, <1>4 DEF Handed, Rest, TypeOK
  <2>2. replies[p] \cup {q} \in SUBSET Pid
          /\ replies[p] \in SUBSET (replies[p] \cup {q})
    BY <1>1 DEF TypeOK
  <2> QED
    BY <1>5, <1>7, <2>1, <2>2 DEF Concluded
<1>8. CASE IgnoreReply(p, now) /\ net' = left
  BY <1>5, <1>8 DEF Ignored, IgnoreReply
<1> QED
  BY <1>6, <1>7, <1>8

LEMMA OnPartyStartEnds ==
  ASSUME IInv, NEW p \in Pid, NEW q \in Pid \ {p}, OnPartyStart(p, q)
  PROVE  Concluded(p) \/ Joined(p)
<1> DEFINE m    == Head(net[q][p])
           now  == OnReceive(clock[p], m.sender.ts)
           left == Consumed(p, q)
           rest == Remove(queue[p], m.participants)
<1>1. TypeOK /\ ChannelsInOrder /\ Arrives(p, q, "PartyStart")
  BY DEF IInv, OnPartyStart
<1>2. m \in Flights(net)[q][p] /\ m \in Message /\ m.type = "PartyStart"
  BY <1>1, FlightsConsumed
<1>3. m.sender.ts \in Nat /\ m.participants \in SUBSET Pid
  BY <1>2 DEF Message, Ticket
<1>4. now \in Nat
  BY <1>1, <1>3, OnReceiveType DEF TypeOK
<1>5. left \in Channels /\ FewerStarts(left)
  BY <1>1, ArrivesType, ConsumedStarts
<1>6. rest \in SUBSET Ticket /\ Rest(p, rest)
  BY <1>1, <1>3, RemoveType DEF TypeOK, Rest
<1>7. \/ GoToParty(p, m, now, rest) /\ net' = left
      \/ Concludes(p, now, rest, replies[p], left)
  BY DEF OnPartyStart
<1>8. replies[p] \in SUBSET Pid
  BY <1>1 DEF TypeOK
<1> HIDE DEF m, now, left, rest
<1>9. Handed(now, rest, left)
  BY <1>4, <1>5, <1>6 DEF Handed
<1>10. CASE GoToParty(p, m, now, rest) /\ net' = left
  <2>1. EntersParty(p, m, now, rest, left) /\ m \in PartyStarts(Flights(net), q, p)
    BY <1>2, <1>10 DEF EntersParty, PartyStarts
  <2> QED
    BY <1>2, <1>5, <1>6, <1>9, <2>1 DEF Joined
<1>11. CASE Concludes(p, now, rest, replies[p], left)
  BY <1>5, <1>6, <1>8, <1>9, <1>11 DEF Concluded
<1> QED
  BY <1>7, <1>10, <1>11

LEMMA HandleEnds ==
  ASSUME IInv, NEW p \in Pid, NEW q \in Pid \ {p}, Handle(p, q)
  PROVE  Concluded(p) \/ Joined(p) \/ Ignored
BY OnRequestEnds, OnReplyEnds, OnPartyStartEnds DEF Handle
-----------------------------------------------------------------------------
\* The queues the policy is asked about.

\* Insert and Remove keep one ticket per process.
LEMMA RestIsSnapshot ==
  ASSUME NEW p \in Pid, Snapshot(queue[p]), NEW rest, Rest(p, rest)
  PROVE  Snapshot(rest)
<1>1. ASSUME NEW t \in Ticket PROVE Snapshot(Insert(queue[p], t))
  <2> DEFINE kept == {u \in queue[p] : u.pid # t.pid}
  <2>1. kept \in SUBSET queue[p] /\ queue[p] \in SUBSET Ticket
    BY DEF Snapshot
  <2>2. IsFiniteSet(kept \cup {t})
    BY <2>1, FS_Subset, FS_AddElement DEF Snapshot
  <2>3. \A u, v \in kept \cup {t} : u.pid = v.pid => u = v
    <3>1. \A u, v \in kept : u.pid = v.pid => u = v
      BY DEF Snapshot
    <3>2. \A u \in kept : u.pid # t.pid
      OBVIOUS
    <3> HIDE DEF kept
    <3> QED
      BY <3>1, <3>2
  <2> QED
    BY <2>1, <2>2, <2>3 DEF Snapshot, Insert
<1>2. ASSUME NEW pids PROVE Snapshot(Remove(queue[p], pids))
  <2>1. Remove(queue[p], pids) \in SUBSET queue[p]
    BY DEF Remove
  <2> HIDE DEF Remove
  <2> QED BY <2>1, FS_Subset DEF Snapshot
<1> QED
  BY <1>1, <1>2 DEF Rest

\* Removing processes again, as GoToParty does.
LEMMA RemoveIsSnapshot ==
  ASSUME NEW q, Snapshot(q), NEW pids
  PROVE  Snapshot(Remove(q, pids))
<1>1. Remove(q, pids) \in SUBSET q
  BY DEF Remove
<1> QED
  BY <1>1, FS_Subset DEF Snapshot
-----------------------------------------------------------------------------
\* Exact parties.

\* What PartiesAreExact says of one party.
Exact(a) ==
  /\ a.leader \in a.members
  /\ Weight(a.members) = PartyCapacity
  /\ \E p \in a.members : IsHare(p)

\* PartiesAreExact is inductive with queues that hold one ticket per process.
ExactInv ==
  /\ \A p \in Pid : Snapshot(queue[p])
  /\ \A p \in Pid : \A a \in party[p] : Exact(a)
  /\ \A p, q \in Pid : \A m \in PartyStarts(Flights(net), p, q) : Exact(AnnouncedBy(m))

\* A group formed by the policy makes an exact party of its leader.
LEMMA GroupIsExact ==
  ASSUME HareWeight # BearWeight, NEW q, Snapshot(q), NEW p \in TryFormGroup(q),
         NEW m, m.sender.pid = p, m.participants = TryFormGroup(q)
  PROVE  Exact(AnnouncedBy(m))
<1> DEFINE g == TryFormGroup(q)
<1>1. /\ HaresAmong(g) # {}
      /\ Cardinality(HaresAmong(g)) * HareWeight
           + Cardinality(g \ HaresAmong(g)) * BearWeight = PartyCapacity
  <2>1. PartyCapacity \in Nat /\ FormGroup(PartyCapacity, q) # {}
    BY ConfigAssumption DEF TryFormGroup
  <2> QED
    BY <2>1, FormGroupSound DEF TryFormGroup
<1> HIDE DEF g
<1>2. Weight(g) = PartyCapacity /\ \E r \in g : IsHare(r)
  BY <1>1 DEF Weight, HaresAmong
<1>3. AnnouncedBy(m).leader = p /\ AnnouncedBy(m).members = g
  BY DEF AnnouncedBy, g
<1> QED
  BY <1>2, <1>3 DEF Exact, g

\* p enters a party that is exact and announces no other, if it announces one.
LEMMA EntersExact ==
  ASSUME TypeOK, TypeOK', ExactInv, NEW p \in Pid, NEW m \in Message,
         m.type = "PartyStart", Exact(AnnouncedBy(m)), NEW now, NEW rest, NEW n,
         Snapshot(rest), EntersParty(p, m, now, rest, n),
         \A a, b \in Pid : PartyStarts(Flights(n), a, b)
                             \in SUBSET (PartyStarts(Flights(net), a, b) \cup {m})
  PROVE  ExactInv'
<1>1. \A a \in Pid : Snapshot(queue'[a])
  <2>1. queue'[p] = Remove(rest, m.participants)
    BY DEF EntersParty, GoToParty, TypeOK
  <2>2. \A a \in Pid \ {p} : queue'[a] = queue[a]
    BY DEF EntersParty, GoToParty, TypeOK
  <2> QED
    BY <2>1, <2>2, RemoveIsSnapshot DEF ExactInv
<1>2. \A b \in Pid : \A a \in party'[b] : Exact(a)
  <2>1. party'[p] = {AnnouncedBy(m)}
    BY DEF EntersParty, GoToParty, TypeOK, AnnouncedBy
  <2>2. \A a \in Pid \ {p} : party'[a] = party[a]
    BY DEF EntersParty, GoToParty, TypeOK
  <2> QED
    BY <2>1, <2>2 DEF ExactInv
<1>3. \A a, b \in Pid :
        \A k \in PartyStarts(Flights(net'), a, b) : Exact(AnnouncedBy(k))
  <2>1. net' = n
    BY DEF EntersParty
  <2> QED
    BY <2>1 DEF ExactInv
<1> QED
  BY <1>1, <1>2, <1>3 DEF ExactInv

\* Recompute announces only exact parties.
LEMMA ConcludedExact ==
  ASSUME HareWeight # BearWeight, TypeOK, TypeOK', ExactInv,
         NEW p \in Pid, Concluded(p)
  PROVE  ExactInv'
<1>1. PICK now, rest, got, n :
        /\ Handed(now, rest, n) /\ Rest(p, rest) /\ FewerStarts(n)
        /\ Concludes(p, now, rest, got, n)
  BY DEF Concluded
<1>2. Snapshot(rest)
  BY <1>1, RestIsSnapshot DEF ExactInv
<1>3. CASE StaysOut(p, now, rest, got, n)
  <2>1. /\ queue' = [queue EXCEPT ![p] = rest]
        /\ party' = party /\ net' = n
    BY <1>3 DEF StaysOut
  <2>2. \A a \in Pid : Snapshot(queue'[a])
    BY <1>2, <2>1 DEF ExactInv, TypeOK
  <2>3. \A a, b \in Pid :
          \A k \in PartyStarts(Flights(net'), a, b) : Exact(AnnouncedBy(k))
    BY <1>1, <2>1 DEF ExactInv, FewerStarts
  <2> QED
    BY <2>1, <2>2, <2>3 DEF ExactInv
<1>4. CASE StartsParty(p, now, rest, got, n)
  <2>1. PICK m \in Message :
          /\ m.type = "PartyStart" /\ m.sender.pid = p
          /\ p \in m.participants /\ m.participants = TryFormGroup(rest)
          /\ EntersParty(p, m, m.sender.ts, rest, Broadcast(n, p, m))
    BY <1>4 DEF StartsParty
  <2>2. Exact(AnnouncedBy(m))
    BY <1>2, <2>1, GroupIsExact
  <2>3. SentToAll(Flights(n), p, m, Flights(Broadcast(n, p, m)))
    BY <1>1, FlightsBroadcast DEF FewerStarts
  <2>4. \A a, b \in Pid : PartyStarts(Flights(Broadcast(n, p, m)), a, b)
          \in SUBSET (PartyStarts(Flights(net), a, b) \cup {m})
    <3> DEFINE f == Flights(n)
               g == Flights(Broadcast(n, p, m))
    <3>1. \A a, b \in Pid : PartyStarts(f, a, b) \in SUBSET PartyStarts(Flights(net), a, b)
      BY <1>1 DEF FewerStarts
    <3> HIDE DEF f, g
    <3>2. \A a, b \in Pid : g[a][b] \in SUBSET (f[a][b] \cup {m})
      BY <2>3 DEF SentToAll, f, g
    <3>3. \A a, b \in Pid : PartyStarts(g, a, b) \in SUBSET (PartyStarts(f, a, b) \cup {m})
      BY <3>2 DEF PartyStarts
    <3> QED
      BY <3>1, <3>3 DEF g
  <2> QED
    BY <1>2, <2>1, <2>2, <2>4, EntersExact
<1> QED
  BY <1>1, <1>3, <1>4, RecomputeCases

\* Every step announces only exact parties.
LEMMA NextExact ==
  HareWeight # BearWeight => (IInv /\ ExactInv /\ [Next]_vars => ExactInv')
<1> SUFFICES ASSUME HareWeight # BearWeight, IInv, ExactInv, [Next]_vars
             PROVE  ExactInv'
  OBVIOUS
<1>1. TypeOK /\ TypeOK' /\ net \in Channels
  BY NextType DEF IInv, TypeOK, Channels
<1>2. ASSUME NEW p \in Pid, NEW q \in Pid \ {p}, Handle(p, q) PROVE ExactInv'
  <2>1. CASE Concluded(p)
    BY <1>1, <2>1, ConcludedExact
  <2>2. CASE Joined(p)
    <3>1. PICK now, rest, n :
            /\ Rest(p, rest) /\ FewerStarts(n)
            /\ \E r \in Pid : \E m \in PartyStarts(Flights(net), r, p) :
                 m \in Message /\ EntersParty(p, m, now, rest, n)
      BY <2>2 DEF Joined
    <3>2. PICK r \in Pid : \E m \in PartyStarts(Flights(net), r, p) :
                 m \in Message /\ EntersParty(p, m, now, rest, n)
      BY <3>1
    <3>3. PICK m \in PartyStarts(Flights(net), r, p) :
                 m \in Message /\ EntersParty(p, m, now, rest, n)
      BY <3>2
    <3>4. m.type = "PartyStart" /\ Exact(AnnouncedBy(m))
      BY DEF PartyStarts, ExactInv
    <3>5. Snapshot(rest)
      BY <3>1, RestIsSnapshot DEF ExactInv
    <3> QED
      BY <1>1, <3>1, <3>3, <3>4, <3>5, EntersExact DEF FewerStarts
  <2>3. CASE Ignored
    BY <2>3 DEF Ignored, FewerStarts, ExactInv
  <2> QED
    BY <1>2, <2>1, <2>2, <2>3, HandleEnds
<1>3. ASSUME NEW p \in Pid, WantParty(p) PROVE ExactInv'
  <2> DEFINE t == MyTicket(p, Tick(clock[p]))
             m == RequestMsg(t)
  <2>1. t \in Ticket /\ m \in Message /\ m.type = "Request"
    BY <1>1 DEF MyTicket, Ticket, Tick, TypeOK, RequestMsg, Message
  <2>2. party' = party
    BY <1>3 DEF WantParty, Want
  <2>3. queue' = queue \/ queue' = [queue EXCEPT ![p] = Insert(queue[p], t)]
    BY <1>3 DEF WantParty, Want
  <2>4. net' = net \/ net' = Broadcast(net, p, m)
    BY <1>3 DEF WantParty, Sends, Asks
  <2> HIDE DEF t, m
  <2>5. \A a \in Pid : Snapshot(queue'[a])
    <3>1. Snapshot(Insert(queue[p], t))
      BY <2>1, RestIsSnapshot DEF Rest, ExactInv
    <3> QED
      BY <1>1, <2>3, <3>1 DEF ExactInv, TypeOK
  <2>6. \A a, b \in Pid : PartyStarts(Flights(net'), a, b)
                            = PartyStarts(Flights(net), a, b)
    <3>1. SentToAll(Flights(net), p, m, Flights(Broadcast(net, p, m)))
      BY <1>1, <2>1, FlightsBroadcast
    <3>2. SamePartyStarts(Flights(net), Flights(Broadcast(net, p, m)))
      BY <2>1, <3>1, SendsOther
    <3> QED
      BY <2>4, <3>2 DEF SamePartyStarts
  <2> QED
    BY <2>2, <2>5, <2>6 DEF ExactInv
<1>4. ASSUME NEW p \in Pid, ReleaseParty(p) PROVE ExactInv'
  <2>1. /\ queue' = queue /\ net' = net
        /\ party' = [party EXCEPT ![p] = {}]
    BY <1>4 DEF ReleaseParty, Release
  <2> QED
    BY <1>1, <2>1 DEF ExactInv, TypeOK
<1>5. CASE UNCHANGED vars
  BY <1>5 DEF vars, ExactInv
<1> QED
  BY <1>2, <1>3, <1>4, <1>5 DEF Next

LEMMA InitExact == Init => ExactInv
<1> SUFFICES ASSUME Init PROVE ExactInv
  OBVIOUS
<1>1. \A p \in Pid : queue[p] = {} /\ party[p] = {}
  BY DEF Init, InitProcesses
<1>2. Snapshot({})
  BY FS_EmptySet DEF Snapshot
<1>3. \A a, b \in Pid : PartyStarts(Flights(net), a, b) = {}
  BY InitLeading, FlightsType DEF Init, Flights, Range, PartyStarts
<1> QED
  BY <1>1, <1>2, <1>3 DEF ExactInv

\* The invariant speaks of all that PartiesAreExact speaks of.
LEMMA AnnouncedExact ==
  ASSUME TypeOK, ExactInv PROVE PartiesAreExact
<1>1. net \in Channels
  BY DEF TypeOK, Channels
<1>2. \A a, b \in Pid : Flights(net)[a][b] = InFlight(a, b)
  BY <1>1, FlightsType DEF InFlight
<1>3. ASSUME NEW a \in Announced PROVE Exact(a)
  <2>1. CASE \E p \in Pid : a \in party[p]
    BY <2>1 DEF ExactInv
  <2>2. CASE \E p, q \in Pid : \E m \in InFlight(p, q) :
               m.type = "PartyStart" /\ a = AnnouncedBy(m)
    <3> HIDE DEF AnnouncedBy
    <3> QED BY <1>2, <2>2 DEF ExactInv, PartyStarts
  <2> DEFINE sets   == {InFlight(p, q) : p, q \in Pid}
             starts == {m \in UNION sets : m.type = "PartyStart"}
             told   == {AnnouncedBy(m) : m \in starts}
             joined == UNION {party[p] : p \in Pid}
  <2>3. a \in joined \cup told
    BY DEF Announced
  <2>4. CASE a \in joined
    BY <2>1, <2>4
  <2>5. CASE a \in told
    <3>1. PICK m \in UNION sets : m.type = "PartyStart" /\ a = AnnouncedBy(m)
      <4> HIDE DEF sets, AnnouncedBy
      <4> QED BY <2>5
    <3>2. PICK s \in sets : m \in s
      OBVIOUS
    <3>3. PICK p \in Pid, q \in Pid : s = InFlight(p, q)
      OBVIOUS
    <3> HIDE DEF sets, AnnouncedBy
    <3> QED
      BY <2>2, <3>1, <3>2, <3>3
  <2> HIDE DEF joined, told
  <2> QED
    BY <2>3, <2>4, <2>5
<1> QED
  BY <1>3 DEF PartiesAreExact, Exact
-----------------------------------------------------------------------------
\* The head of the queue.

\* A leader is in the group it forms, if it forms one.
LEMMA GroupHasLeader ==
  ASSUME NEW q \in SUBSET Ticket, NEW p, AmLeader(p, q), TryFormGroup(q) # {}
  PROVE  p \in TryFormGroup(q)
<1> DEFINE leader == CHOOSE t \in q : IsFirst(t, q)
           others == q \ {leader}
           hares  == {t \in others : WeightOf(t.pid) = HareWeight}
           bears  == {t \in others \ hares : WeightOf(t.pid) = BearWeight}
           counts == BearCounts(PartyCapacity, leader, hares, bears)
           b      == BearsToTake(counts)
           h      == PartyCapacity - WeightOf(leader.pid) - b * BearWeight
           rest   == Oldest(bears, b) \cup Oldest(hares, h)
<1>1. TryFormGroup(q) = {t.pid : t \in {leader} \cup Oldest(bears, b) \cup Oldest(hares, h)}
  BY DEF TryFormGroup, FormGroup
<1>2. leader.pid \in TryFormGroup(q)
  <2> HIDE DEF leader, bears, hares, b, h
  <2> QED BY <1>1
<1>3. PICK t \in q : t.pid = p /\ IsFirst(t, q)
  BY DEF AmLeader
<1>4. leader = t
  BY <1>3, FirstExists
<1> HIDE DEF leader
<1> QED
  BY <1>2, <1>3, <1>4

\* A requester marks its own reply, and a queued process at the head of its
\* queue has asked the policy in vain.
Attentive(p) ==
  /\ state[p] = "waiting" => p \in replies[p]
  /\ state[p] = "queued" /\ AmLeader(p, queue[p]) => p \notin TryFormGroup(queue[p])

AllAttentive == \A p \in Pid : Attentive(p)

\* A handler of p touches the state, the queue and the replies of p alone.
Alone(p) ==
  /\ OnlyAt(p, state, state') /\ OnlyAt(p, queue, queue') /\ OnlyAt(p, replies, replies')

\* What it must do for p to stay attentive.
AttentiveNext(p) ==
  /\ state'[p] = "waiting" => p \in replies'[p]
  /\ state'[p] = "queued" /\ AmLeader(p, queue'[p]) => p \notin TryFormGroup(queue'[p])

LEMMA AloneAttentive ==
  ASSUME AllAttentive, NEW p \in Pid, Alone(p), AttentiveNext(p)
  PROVE  AllAttentive'
<1> SUFFICES ASSUME NEW a \in Pid PROVE Attentive(a)'
  BY DEF AllAttentive
<1>1. CASE a = p
  BY <1>1 DEF AttentiveNext, Attentive
<1>2. CASE a # p
  <2>1. state'[a] = state[a] /\ queue'[a] = queue[a] /\ replies'[a] = replies[a]
    BY <1>2 DEF Alone, OnlyAt
  <2> QED
    BY <2>1 DEF AllAttentive, Attentive
<1> QED
  BY <1>1, <1>2

\* Recompute leaves p waiting with the replies it had, or asks the policy.
LEMMA ConcludedAttentive ==
  ASSUME TypeOK, AllAttentive, NEW p \in Pid, Concluded(p)
  PROVE  AllAttentive'
<1>1. PICK now, rest, got, n :
        /\ Handed(now, rest, n) /\ replies[p] \in SUBSET got
        /\ Concludes(p, now, rest, got, n)
  BY DEF Concluded
<1>2. CASE StaysOut(p, now, rest, got, n)
  <2>1. /\ queue' = [queue EXCEPT ![p] = rest]
        /\ replies' = [replies EXCEPT ![p] = got]
        /\ Starts(p, now, rest, got) = {}
        /\ IF Queued(p, got) THEN state' = [state EXCEPT ![p] = "queued"]
           ELSE state' = state
    BY <1>2 DEF StaysOut
  <2>2. Alone(p)
    BY <2>1 DEF Alone, OnlyAt, TypeOK
  <2>3. queue'[p] = rest /\ replies'[p] = got
    BY <2>1 DEF TypeOK
  <2>4. state'[p] = "waiting" => p \in replies'[p]
    <3>1. state'[p] = "waiting" => state[p] = "waiting"
      BY <2>1 DEF TypeOK
    <3> QED
      BY <1>1, <2>3, <3>1 DEF AllAttentive, Attentive
  <2>5. state'[p] = "queued" /\ AmLeader(p, rest) => p \notin TryFormGroup(rest)
    <3>1. state'[p] = "queued" => Queued(p, got)
      BY <2>1 DEF Queued
    <3>2. Queued(p, got) /\ AmLeader(p, rest) => p \notin TryFormGroup(rest)
      BY <2>1 DEF Starts
    <3> QED
      BY <3>1, <3>2
  <2> QED
    BY <2>2, <2>3, <2>4, <2>5, AloneAttentive DEF AttentiveNext
<1>3. CASE StartsParty(p, now, rest, got, n)
  <2>1. Alone(p) /\ state'[p] = "inParty"
    BY <1>3 DEF StartsParty, EntersParty, GoToParty, Alone, OnlyAt, TypeOK
  <2> QED
    BY <2>1, AloneAttentive DEF AttentiveNext
<1> QED
  BY <1>1, <1>2, <1>3, RecomputeCases

LEMMA NextAttentive == IInv /\ AllAttentive /\ [Next]_vars => AllAttentive'
<1> SUFFICES ASSUME IInv, AllAttentive, [Next]_vars PROVE AllAttentive'
  OBVIOUS
<1>1. TypeOK
  BY DEF IInv
<1>2. ASSUME NEW p \in Pid, NEW q \in Pid \ {p}, Handle(p, q) PROVE AllAttentive'
  <2>1. CASE Concluded(p)
    BY <1>1, <2>1, ConcludedAttentive
  <2>2. CASE Joined(p)
    <3>1. Alone(p) /\ state'[p] = "inParty"
      BY <1>1, <2>2 DEF Joined, EntersParty, GoToParty, Alone, OnlyAt, TypeOK
    <3> QED
      BY <3>1, AloneAttentive DEF AttentiveNext
  <2>3. CASE Ignored
    BY <2>3 DEF Ignored, AllAttentive, Attentive
  <2> QED
    BY <1>2, <2>1, <2>2, <2>3, HandleEnds
<1>3. ASSUME NEW p \in Pid, WantParty(p) PROVE AllAttentive'
  <2>1. CASE state[p] = "idle"
    <3>1. Alone(p) /\ state'[p] = "waiting" /\ replies'[p] = {p}
      BY <1>1, <1>3, <2>1 DEF WantParty, Want, Alone, OnlyAt, TypeOK
    <3> QED
      BY <3>1, AloneAttentive DEF AttentiveNext
  <2>2. CASE state[p] # "idle"
    BY <1>3, <2>2 DEF WantParty, Want, AllAttentive, Attentive
  <2> QED
    BY <2>1, <2>2
<1>4. ASSUME NEW p \in Pid, ReleaseParty(p) PROVE AllAttentive'
  <2>1. Alone(p) /\ state'[p] = "idle"
    BY <1>1, <1>4 DEF ReleaseParty, Release, Alone, OnlyAt, TypeOK
  <2> QED
    BY <2>1, AloneAttentive DEF AttentiveNext
<1>5. CASE UNCHANGED vars
  BY <1>5 DEF vars, AllAttentive, Attentive
<1> QED
  BY <1>2, <1>3, <1>4, <1>5 DEF Next

\* A group can still be formed when there are more candidates, if the first of
\* them stays the same.
LEMMA MoreCandidates ==
  ASSUME HareWeight # BearWeight,
         NEW S, NEW R, Snapshot(S), Snapshot(R), R \subseteq S,
         NEW t \in R, IsFirst(t, S), TryFormGroup(R) # {}
  PROVE  TryFormGroup(S) # {}
<1> DEFINE g == FormGroup(PartyCapacity, R)
<1>1. g # {} /\ HareWeight = 1 /\ BearWeight # 1
  BY DEF TryFormGroup, FormGroup
<1>2. LeaderOf(R) = t /\ LeaderOf(S) = t
  <2>1. IsFirst(t, R) /\ R # {} /\ S # {} /\ R \in SUBSET Ticket /\ S \in SUBSET Ticket
    BY DEF IsFirst, Snapshot
  <2>2. IsFirst(LeaderOf(R), R) /\ LeaderOf(R) \in R
    BY <2>1, LeaderFacts
  <2>3. IsFirst(LeaderOf(S), S) /\ LeaderOf(S) \in S
    BY <2>1, LeaderFacts
  <2> QED
    BY <2>1, <2>2, <2>3, FirstExists
<1>3. Members(R) \subseteq Members(S) /\ S # {} /\ PartyCapacity \in Nat
  BY ConfigAssumption DEF Members
<1>4. /\ g \in SUBSET Members(R) /\ LeaderOf(R).pid \in g /\ HaresAmong(g) # {}
      /\ Cardinality(HaresAmong(g)) * HareWeight
           + Cardinality(g \ HaresAmong(g)) * BearWeight = PartyCapacity
  BY <1>1, <1>3, FormGroupSound
<1> HIDE DEF g
<1>5. FormGroup(PartyCapacity, S) # {}
  BY <1>1, <1>2, <1>3, <1>4, FormGroupComplete
<1> QED
  BY <1>5 DEF TryFormGroup

\* With nothing under way every queue holds the outstanding requests; the owner
\* of the first has all replies, and if the head of its queue is not stale, it
\* is its own request, and it has nothing to start.
LEMMA HeadIsReady ==
  HareWeight # BearWeight =>
    (TypeOK /\ ExactInv /\ LeadingNow /\ AllAttentive /\ WaitingMissesReply
       => HeadStartsParty)
<1> SUFFICES ASSUME HareWeight # BearWeight,
                    TypeOK, ExactInv, LeadingNow, AllAttentive, WaitingMissesReply,
                    Quiet, TryFormGroup(Outstanding) # {},
                    NEW t \in Outstanding, IsFirst(t, Outstanding), ~ StaleHead(t.pid)
             PROVE  FALSE
  BY DEF HeadStartsParty
<1> DEFINE f == Flights(net)
<1>1. \A a, b \in Pid : /\ Requests(f, a, b) = {} /\ Replies(f, a, b) = {}
                        /\ PartyStarts(f, a, b) = {}
  <2>1. net \in Channels /\ \A a, b \in Pid : net[a][b] = <<>>
    BY DEF TypeOK, Channels, Quiet
  <2>2. \A a, b \in Pid : f[a][b] = {}
    BY <2>1, FlightsType DEF Range
  <2> QED
    BY <2>2 DEF Requests, Replies, PartyStarts
<1>2. Leading(state, queue, pending, replies, f, clock)
  BY DEF LeadingNow
<1> HIDE DEF f
<1>3. \A b \in Pid : Outstanding \subseteq queue[b]
  <2>1. \A a, b \in Pid : pending[a] \subseteq queue[b]
    BY <1>1, <1>2 DEF Leading, NothingLost, NamedIn
  <2> QED
    BY <2>1 DEF Outstanding
<1>4. PICK a \in Pid : t \in pending[a]
  BY DEF Outstanding
<1>5. t.pid = a /\ state[a] \in {"waiting", "queued"} /\ t \in queue[a]
  BY <1>2, <1>3, <1>4 DEF Leading, Own
<1>6. Snapshot(queue[a]) /\ Snapshot(Outstanding)
  <2>1. Snapshot(queue[a])
    BY DEF ExactInv
  <2> QED
    BY <1>3, <2>1, FS_Subset DEF Snapshot
<1>7. IsFirst(t, queue[a])
  <2>1. PICK u \in queue[a] : IsFirst(u, queue[a])
    BY <1>5, <1>6, FirstExists DEF Snapshot
  <2>2. u \in Ticket /\ u.pid \in Pid /\ pending[u.pid] # {}
    BY <1>5, <1>6, <2>1 DEF StaleHead, Snapshot, Ticket
  <2>3. PICK v \in pending[u.pid] : TRUE
    BY <2>2
  <2>4. v \in Outstanding /\ v \in queue[a] /\ v.pid = u.pid
    BY <1>2, <1>3, <2>2, <2>3 DEF Outstanding, Leading, Own
  <2>5. u = v
    BY <1>6, <2>1, <2>4 DEF Snapshot
  <2>6. IsFirst(u, Outstanding) /\ Outstanding # {} /\ Outstanding \in SUBSET Ticket
    BY <1>3, <1>6, <2>1, <2>4, <2>5 DEF IsFirst, Snapshot
  <2>7. u = t
    BY <2>4, <2>5, <2>6, FirstExists
  <2> QED
    BY <2>1, <2>7
<1>8. AmLeader(a, queue[a])
  BY <1>5, <1>7 DEF AmLeader
<1>9. state[a] # "waiting"
  <2>1. SUFFICES ASSUME state[a] = "waiting" PROVE replies[a] = Pid
    BY DEF WaitingMissesReply
  <2>2. \A b \in Pid \ {a} : b \in replies[a]
    BY <1>1, <1>2, <2>1 DEF Leading, Exchange
  <2>3. a \in replies[a]
    BY <2>1 DEF AllAttentive, Attentive
  <2>4. replies[a] \in SUBSET Pid
    BY DEF TypeOK
  <2> QED
    BY <2>2, <2>3, <2>4
<1>10. a \notin TryFormGroup(queue[a])
  BY <1>5, <1>8, <1>9 DEF AllAttentive, Attentive
<1>11. TryFormGroup(queue[a]) # {}
  BY <1>3, <1>6, <1>7, MoreCandidates
<1>12. a \in TryFormGroup(queue[a])
  BY <1>6, <1>8, <1>11, GroupHasLeader DEF Snapshot
<1> QED
  BY <1>10, <1>12
-----------------------------------------------------------------------------
\* Who is due a party is not overtaken.

\* Who is named after a step is named in the messages under way.
LEMMA NamedNext ==
  ASSUME TypeOK', NEW p \in Pid PROVE Named(p)' <=> NamedIn(Flights(net'), p)
<1>1. net' \in Channels
  BY DEF TypeOK, Channels
<1>2. \A a, b \in Pid : Flights(net')[a][b] = Range(net'[a][b])
  BY <1>1, FlightsType
<1> QED
  BY <1>2 DEF Named, NamedIn, PartyStarts, InFlight

\* Tickets of different processes are finitely many.
LEMMA OneTicketEach ==
  ASSUME NEW S \in SUBSET Ticket, \A t, u \in S : t.pid = u.pid => t = u
  PROVE  Snapshot(S)
<1> DEFINE owner == [t \in S |-> t.pid]
<1>1. owner \in Injection(S, Pid)
  <2>1. owner \in [S -> Pid]
    BY DEF Ticket
  <2>2. \A t, u \in S : owner[t] = owner[u] => t = u
    OBVIOUS
  <2> HIDE DEF owner
  <2> QED
    BY <2>1, <2>2 DEF Injection, IsInjective
<1>2. IsFiniteSet(Pid)
  BY ConfigAssumption, FS_Interval DEF Pid, WorldSize
<1> QED
  BY <1>1, <1>2, FS_Injection DEF Snapshot

\* The ticket of who is due a party.
LEMMA DueTicket ==
  ASSUME LeadingNow, NEW p \in Pid, Due(p)
  PROVE  ~Named(p) /\ \E t \in pending[p] : t.pid = p /\ IsFirst(t, Unserved)
<1>1. PICK t \in pending[p] : IsFirst(t, Unserved)
  BY DEF Due
<1>2. PICK q \in Pid : ~Named(q) /\ t \in pending[q]
  BY <1>1 DEF IsFirst, Unserved
<1>3. t.pid = p /\ t.pid = q
  BY <1>1, <1>2 DEF LeadingNow, Leading, Own
<1> QED
  BY <1>1, <1>2, <1>3

\* Nobody else can start a party without it: who starts one has the oldest
\* request that no party has taken.
LEMMA OnlyDueStarts ==
  ASSUME TypeOK, TypeOK', LeadingNow, NEW p \in Pid, Due(p),
         NEW s \in Pid \ {p}, NEW now, NEW q, NEW got, NEW n,
         Concluding(s, now, q, got, n), StartsParty(s, now, q, got, n)
  PROVE  Named(p)'
<1> DEFINE qs == [queue EXCEPT ![s] = q]
           rp == [replies EXCEPT ![s] = got]
           f  == Flights(n)
           st == [state EXCEPT ![s] = "queued"]
<1>1. Queued(s, got) /\ AmLeader(s, q)
  BY DEF StartsParty
<1>2. qs[s] = q /\ rp[s] = got /\ st[s] = "queued"
  BY DEF TypeOK
<1>3. Typed(st, qs, pending, rp, f, clock)
  BY FlightsType DEF Typed, TypeOK, AppState, Concluding, Handed
<1>4. Leading(st, qs, pending, rp, f, clock)
  BY <1>1, ConcludingQueued
<1>5. PICK start \in Message : net' = Broadcast(n, s, start)
  BY DEF StartsParty, EntersParty
<1>6. SentToAll(f, s, start, Flights(net'))
  BY <1>5, FlightsBroadcast DEF Concluding, Handed
<1>7. \A a \in Pid : NamedIn(Flights(net), a) <=> NamedIn(f, a)
  BY DEF Concluding
<1> HIDE DEF qs, rp, f, st
<1>8. ~Named(s)
  <2>1. \A l \in Pid : PartyStarts(f, l, s) = {}
    BY <1>1, <1>2, <1>3, <1>4, LeaderHearsNothing DEF Leading
  <2> QED
    BY <1>7, <2>1, NamedInFlights DEF NamedIn
<1>9. PICK v \in pending[s] : v.pid = s
  BY <1>2, <1>4 DEF Leading, Own
<1>10. PICK t \in pending[p] : t.pid = p /\ IsFirst(t, Unserved)
  BY DueTicket
<1>11. Before(t, v)
  <2>1. v \in Unserved
    BY <1>8 DEF Unserved
  <2> QED
    BY <1>9, <1>10, <2>1 DEF IsFirst
<1>12. NamedIn(f, p)
  BY <1>1, <1>2, <1>3, <1>4, <1>11, OlderIsNamed
<1>13. NamedIn(Flights(net'), p)
  <2>1. \A l \in Pid : f[l][p] \subseteq Flights(net')[l][p]
    BY <1>6 DEF SentToAll
  <2> QED
    BY <1>12, <2>1 DEF NamedIn, PartyStarts
<1> QED
  BY <1>13, NamedNext

\* p stays queued, and who loses a request, or the PartyStart on its way to it,
\* enters a party that has taken the request.
Unmoved(p) ==
  /\ state'[p] = "queued"
  /\ \A a \in Pid : pending'[a] = pending[a] \/ (Named(a) /\ pending'[a] = {})
  /\ \A a \in Pid : Named(a)' => Named(a)
  /\ \A a \in Pid : Named(a) => Named(a)' \/ pending'[a] = {}

\* The handler of a message moves who is due a party only into one.
LEMMA HandleUnmoved ==
  ASSUME IInv, LeadingNow, TypeOK', NEW p \in Pid, Due(p),
         ~(Named(p)' \/ state'[p] = "inParty"),
         NEW s \in Pid, NEW r \in Pid \ {s}, Handle(s, r)
  PROVE  Unmoved(p)
<1>1. TypeOK /\ state[p] = "queued" /\ ~Named(p)
  BY DueTicket DEF IInv, Due
<1>2. \A a \in Pid : /\ Named(a) <=> NamedIn(Flights(net), a)
                     /\ Named(a)' <=> NamedIn(Flights(net'), a)
  BY <1>1, NamedInFlights, NamedNext
<1>3. Concludable(s) \/ Apart(s)
  BY OnRequestLeading, OnReplyLeading, OnPartyStartLeading DEF Handle
<1>4. CASE Concludable(s)
  <2>1. PICK now, q, got, n : Concluding(s, now, q, got, n)
    BY <1>4 DEF Concludable
  <2>2. CASE StaysOut(s, now, q, got, n)
    <3>1. state'[p] = "queued" /\ pending' = pending /\ net' = n
      BY <1>1, <2>2 DEF StaysOut, TypeOK, localVars
    <3>2. \A a \in Pid : NamedIn(Flights(net), a) <=> NamedIn(Flights(net'), a)
      BY <2>1, <3>1 DEF Concluding
    <3> QED
      BY <1>2, <3>1, <3>2 DEF Unmoved
  <2>3. CASE StartsParty(s, now, q, got, n)
    <3>1. CASE s = p
      BY <1>1, <2>3, <3>1 DEF StartsParty, EntersParty, GoToParty, TypeOK
    <3>2. CASE s # p
      BY <1>1, <2>1, <2>3, <3>2, OnlyDueStarts
    <3> QED
      BY <3>1, <3>2
  <2> QED
    BY <1>1, <2>1, <2>2, <2>3, RecomputeCases DEF Concluding
<1>5. CASE Apart(s)
  <2>1. CASE /\ UNCHANGED <<state, pending>>
             /\ NamedIn(Flights(net), s) <=> NamedIn(Flights(net'), s)
    BY <1>1, <1>2, <1>5, <2>1 DEF Unmoved, Apart
  <2>2. CASE /\ NamedIn(Flights(net), s)
             /\ state' = [state EXCEPT ![s] = "inParty"]
             /\ pending' = [pending EXCEPT ![s] = {}]
    <3>1. state'[p] = "queued"
      BY <1>1, <2>2 DEF TypeOK
    <3>2. pending'[s] = {} /\ \A a \in Pid \ {s} : pending'[a] = pending[a]
      BY <1>1, <2>2 DEF TypeOK
    <3> QED
      BY <1>2, <1>5, <2>2, <3>1, <3>2 DEF Unmoved, Apart
  <2> QED
    BY <1>5, <2>1, <2>2 DEF Apart
<1> QED
  BY <1>3, <1>4, <1>5

\* Then it is still due one.
LEMMA UnmovedDue ==
  ASSUME LeadingNow, NEW p \in Pid, Due(p), Unmoved(p)
  PROVE  Due(p)'
<1>1. Unserved' = Unserved
  <2>1. ASSUME NEW t \in Unserved PROVE t \in Unserved'
    <3>1. PICK a \in Pid : ~Named(a) /\ t \in pending[a]
      BY DEF Unserved
    <3>2. ~Named(a)' /\ t \in pending'[a]
      BY <3>1 DEF Unmoved
    <3> QED
      BY <3>2 DEF Unserved
  <2>2. ASSUME NEW t \in Unserved' PROVE t \in Unserved
    <3>1. PICK a \in Pid : ~Named(a)' /\ t \in pending'[a]
      BY DEF Unserved
    <3>2. ~Named(a) /\ t \in pending[a]
      BY <3>1 DEF Unmoved
    <3> QED
      BY <3>2 DEF Unserved
  <2> QED
    BY <2>1, <2>2
<1>2. pending'[p] = pending[p]
  BY DueTicket DEF Unmoved
<1> QED
  BY <1>1, <1>2 DEF Due, Unmoved

\* A new request is younger, and one candidate more.
LEMMA WantDue ==
  ASSUME HareWeight # BearWeight, IInv, LeadingNow, TypeOK',
         NEW p \in Pid, Due(p), NEW s \in Pid, WantParty(s)
  PROVE  Due(p)'
<1> DEFINE n == [pid |-> s, ts |-> Tick(clock[s])]
           m == RequestMsg(n)
<1>1. TypeOK /\ net \in Channels /\ state[p] = "queued"
  BY DEF IInv, Due, TypeOK, Channels
<1>2. state[s] = "idle"
  BY DEF IInv, LocalThreadAgrees, WantParty, MayWant, Want
<1>3. /\ state' = [state EXCEPT ![s] = "waiting"]
      /\ pending' = [pending EXCEPT ![s] = {n}]
      /\ net' = Broadcast(net, s, m)
  BY <1>2 DEF WantParty, Want, Sends, Asks, MyTicket
<1>4. /\ n \in Ticket /\ n.pid = s /\ clock[s] < n.ts
      /\ m \in Message /\ m.type = "Request"
  BY <1>1 DEF Ticket, RequestMsg, Message, Tick, TypeOK
<1>5. SentToAll(Flights(net), s, m, Flights(net'))
  BY <1>1, <1>3, <1>4, FlightsBroadcast
<1>6. /\ s # p /\ state'[p] = "queued" /\ pending'[s] = {n}
      /\ \A a \in Pid \ {s} : pending'[a] = pending[a]
  BY <1>1, <1>2, <1>3 DEF TypeOK
<1> HIDE DEF n, m
<1>7. \A a \in Pid : Named(a)' <=> Named(a)
  <2>1. SamePartyStarts(Flights(net), Flights(net'))
    BY <1>4, <1>5, SendsOther
  <2>2. \A a \in Pid : NamedIn(Flights(net'), a) <=> NamedIn(Flights(net), a)
    BY <2>1 DEF SamePartyStarts, NamedIn
  <2> QED
    BY <1>1, <2>2, NamedInFlights, NamedNext
<1>8. /\ Own(state, queue, pending) /\ pending[s] = {}
      /\ Fenced(pending, replies, Flights(net), clock) /\ replies[p] = Pid
  BY <1>1, <1>2 DEF LeadingNow, Leading, Own, Complete
<1>9. Unserved \subseteq Unserved' /\ Unserved' \subseteq Unserved \cup {n}
  <2>1. ASSUME NEW t \in Unserved PROVE t \in Unserved'
    <3>1. PICK a \in Pid : ~Named(a) /\ t \in pending[a]
      BY DEF Unserved
    <3>2. ~Named(a)' /\ t \in pending'[a]
      BY <1>6, <1>7, <1>8, <3>1
    <3> QED
      BY <3>2 DEF Unserved
  <2>2. ASSUME NEW t \in Unserved', t # n PROVE t \in Unserved
    <3>1. PICK a \in Pid : ~Named(a)' /\ t \in pending'[a]
      BY DEF Unserved
    <3>2. ~Named(a) /\ t \in pending[a]
      BY <1>6, <1>7, <2>2, <3>1
    <3> QED
      BY <3>2 DEF Unserved
  <2> QED
    BY <2>1, <2>2
<1>10. Unserved \in SUBSET Ticket /\ \A t, u \in Unserved : t.pid = u.pid => t = u
  <2>1. \A t \in Unserved : \E a \in Pid : t \in pending[a]
    BY DEF Unserved
  <2>2. \A a \in Pid : \A t \in pending[a] : t \in Ticket /\ t.pid = a
    BY <1>1, <1>8 DEF Own, TypeOK
  <2>3. \A a \in Pid : \A t, u \in pending[a] : t = u
    BY <1>8 DEF Own
  <2> QED
    BY <2>1, <2>2, <2>3
<1>11. \A t \in Unserved : t.pid # s
  BY <1>8 DEF Unserved, Own
<1>12. Snapshot(Unserved) /\ Snapshot(Unserved')
  <2>1. \A t, u \in Unserved' : t.pid = u.pid => t = u
    BY <1>4, <1>9, <1>10, <1>11
  <2>2. Unserved' \in SUBSET Ticket
    BY <1>4, <1>9, <1>10
  <2> QED
    BY <1>10, <2>1, <2>2, OneTicketEach
<1>13. PICK t \in pending[p] : t.pid = p /\ IsFirst(t, Unserved)
  BY DueTicket
<1>14. IsFirst(t, Unserved')
  <2>1. t.ts <= clock[s]
    BY <1>6, <1>8, <1>13 DEF Fenced
  <2>2. t.ts \in Nat /\ n.ts \in Nat /\ clock[s] \in Nat
    BY <1>1, <1>4, <1>13 DEF TypeOK, Ticket
  <2>3. Before(t, n)
    BY <1>4, <2>1, <2>2 DEF Before
  <2> QED
    BY <1>9, <1>13, <2>3 DEF IsFirst
<1>15. TryFormGroup(Unserved) # {} /\ t \in Unserved
  BY <1>13 DEF Due, IsFirst
<1>16. TryFormGroup(Unserved') # {}
  BY <1>9, <1>12, <1>14, <1>15, MoreCandidates
<1>17. t \in pending'[p]
  BY <1>6, <1>13
<1> QED
  BY <1>6, <1>14, <1>16, <1>17 DEF Due

\* No step takes its place.
LEMMA NextDue ==
  ASSUME HareWeight # BearWeight, IInv, LeadingNow, [Next]_vars
  PROVE  \A p \in Pid : Due(p) => Due(p)' \/ Named(p)' \/ state'[p] = "inParty"
<1> SUFFICES ASSUME NEW p \in Pid, Due(p), ~(Named(p)' \/ state'[p] = "inParty")
             PROVE  Due(p)'
  OBVIOUS
<1>1. TypeOK /\ TypeOK' /\ state[p] = "queued"
  BY NextType DEF IInv, Due
<1>2. ASSUME NEW s \in Pid, NEW r \in Pid \ {s}, Handle(s, r) PROVE Due(p)'
  BY <1>1, <1>2, HandleUnmoved, UnmovedDue
<1>3. ASSUME NEW s \in Pid, WantParty(s) PROVE Due(p)'
  BY <1>1, <1>3, WantDue
<1>4. ASSUME NEW s \in Pid, ReleaseParty(s) PROVE Due(p)'
  <2>1. /\ net' = net /\ pending' = [pending EXCEPT ![s] = {}]
        /\ state' = [state EXCEPT ![s] = "idle"] /\ state[s] = "inParty"
    BY <1>4 DEF ReleaseParty, Release, IInv, LocalThreadAgrees
  <2>2. pending[s] = {}
    BY <2>1 DEF LeadingNow, Leading, Own
  <2>3. state'[p] = "queued" /\ pending' = pending
    BY <1>1, <2>1, <2>2 DEF TypeOK
  <2>4. \A a \in Pid : Named(a)' <=> Named(a)
    BY <2>1 DEF Named, InFlight
  <2> QED
    BY <2>3, <2>4, UnmovedDue DEF Unmoved
<1>5. CASE UNCHANGED vars
  <2>1. state' = state /\ pending' = pending /\ net' = net
    BY <1>5 DEF vars
  <2>2. \A a \in Pid : Named(a)' <=> Named(a)
    BY <2>1 DEF Named, InFlight
  <2> QED
    BY <1>1, <2>1, <2>2, UnmovedDue DEF Unmoved
<1> QED
  BY <1>2, <1>3, <1>4, <1>5 DEF Next
-----------------------------------------------------------------------------
\* Every party that anybody is in or is told of has its leader among the
\* members, exactly the capacity and a hare (PartiesAreExact), whatever the
\* timing; hares and bears must differ in weight, as they do by default.
THEOREM PartiesStayExact == HareWeight # BearWeight => (Spec => []PartiesAreExact)
<1> SUFFICES ASSUME HareWeight # BearWeight PROVE Spec => []PartiesAreExact
  OBVIOUS
<1>1. IInv /\ ExactInv /\ [Next]_vars => ExactInv'
  BY NextExact
<1>2. IInv /\ ExactInv => PartiesAreExact
  BY AnnouncedExact DEF IInv
<1> QED
  BY InitIInv, NextIInv, InitExact, <1>1, <1>2, PTL DEF Spec

\* When nothing is under way and the outstanding requests allow a party, the
\* owner of the oldest of them has a stale ticket at the head of its queue
\* (HeadStartsParty): otherwise it would have started the party.
THEOREM HeadsStartParties ==
  PartyOutlastsTraffic /\ WorldSize > 1 /\ HareWeight # BearWeight
    => (Spec => []HeadStartsParty)
<1> SUFFICES ASSUME PartyOutlastsTraffic, WorldSize > 1, HareWeight # BearWeight
             PROVE  Spec => []HeadStartsParty
  OBVIOUS
<1>1. Spec => []TypeOK /\ []LeadingNow /\ []WaitingMissesReply
  BY TypeCorrect, LeadingIsInvariant, WaitersMissReply
<1>2. Init => AllAttentive
  BY DEF Init, InitProcesses, AllAttentive, Attentive
<1>3. IInv /\ ExactInv /\ [Next]_vars => ExactInv'
  BY NextExact
<1>4. TypeOK /\ ExactInv /\ LeadingNow /\ AllAttentive /\ WaitingMissesReply
        => HeadStartsParty
  BY HeadIsReady
<1> QED
  BY InitIInv, NextIInv, InitExact, <1>1, <1>2, <1>3, <1>4, NextAttentive, PTL DEF Spec

\* When a party outlasts the traffic about it, the queued owner of the oldest
\* request that no party has taken is not overtaken: it stays the first, with a
\* possible party, until it gets one (DueUntilServed).
THEOREM NobodyOvertakes ==
  PartyOutlastsTraffic /\ HareWeight # BearWeight => (Spec => DueUntilServed)
<1> SUFFICES ASSUME PartyOutlastsTraffic, HareWeight # BearWeight
             PROVE  Spec => DueUntilServed
  OBVIOUS
<1>1. Spec => []LeadingNow
  BY LeadingIsInvariant
<1>2. IInv /\ LeadingNow /\ [Next]_vars =>
        [\A p \in Pid : Due(p) => Due(p)' \/ Named(p)' \/ state'[p] = "inParty"]_vars
  BY NextDue
<1> QED
  BY InitIInv, NextIInv, <1>1, <1>2, PTL DEF Spec, DueUntilServed
=============================================================================
