---------------------------- MODULE PolicyProofs ----------------------------
(***************************************************************************)
(* What the operators of LamportPolicy return, for any weights, any        *)
(* capacity and any finite set of tickets with one ticket per process: the *)
(* lemmas from which RequestQueueProofs and PartyProofs conclude what the  *)
(* policy promises.  Before them, what the proofs about the handlers and   *)
(* about the event loop need of tickets, queues and groups.                *)
(***************************************************************************)
EXTENDS LamportPolicy, FiniteSetTheorems, TLAPS

\* What the snapshot of a RequestQueue is.
Snapshot(S) ==
  /\ S \in SUBSET Ticket
  /\ IsFiniteSet(S)
  /\ \A t, u \in S : t.pid = u.pid => t = u

\* Before is a strict total order.
LEMMA BeforeIsOrder ==
  ASSUME NEW s \in Ticket, NEW t \in Ticket, NEW u \in Ticket
  PROVE  /\ ~ Before(s, s)
         /\ Before(s, t) /\ Before(t, u) => Before(s, u)
         /\ s = t \/ Before(s, t) \/ Before(t, s)
<1>1. /\ s.ts \in Nat /\ t.ts \in Nat /\ u.ts \in Nat
      /\ s.pid \in Int /\ t.pid \in Int /\ u.pid \in Int
  BY ConfigAssumption DEF Ticket, Pid, WorldSize
<1>2. s.ts = t.ts /\ s.pid = t.pid => s = t
  BY DEF Ticket
<1> QED
  BY <1>1, <1>2 DEF Before

\* Inserting a ticket yields a set of tickets.
LEMMA InsertType ==
  ASSUME NEW q \in SUBSET Ticket, NEW t \in Ticket
  PROVE  Insert(q, t) \in SUBSET Ticket
BY DEF Insert

\* Removing processes yields a set of tickets.
LEMMA RemoveType ==
  ASSUME NEW q \in SUBSET Ticket, NEW pids
  PROVE  Remove(q, pids) \in SUBSET Ticket
BY DEF Remove

\* The group the policy forms consists of processes with a ticket in the queue.
LEMMA GroupIsPids ==
  ASSUME NEW q \in SUBSET Ticket, \E t \in q : IsFirst(t, q)
  PROVE  /\ TryFormGroup(q) \in SUBSET Pid
         /\ \A r \in TryFormGroup(q) : \E t \in q : t.pid = r
<1> DEFINE leader == CHOOSE t \in q : IsFirst(t, q)
           others == q \ {leader}
           hares  == {t \in others : WeightOf(t.pid) = HareWeight}
           bears  == {t \in others \ hares : WeightOf(t.pid) = BearWeight}
           counts == BearCounts(PartyCapacity, leader, hares, bears)
           b      == BearsToTake(counts)
           h      == PartyCapacity - WeightOf(leader.pid) - b * BearWeight
           chosen == {leader} \cup Oldest(bears, b) \cup Oldest(hares, h)
<1>1. leader \in q
  OBVIOUS
<1>2. Oldest(bears, b) \subseteq q /\ Oldest(hares, h) \subseteq q
  BY DEF Oldest
<1>3. chosen \subseteq q
  BY <1>1, <1>2
<1>4. TryFormGroup(q) = {} \/ TryFormGroup(q) = {t.pid : t \in chosen}
  BY DEF TryFormGroup, FormGroup
<1>5. /\ {t.pid : t \in chosen} \subseteq Pid
      /\ \A r \in {t.pid : t \in chosen} : \E t \in q : t.pid = r
  <2> HIDE DEF chosen
  <2> QED BY <1>3 DEF Ticket
<1> QED
  BY <1>4, <1>5

\* A nonempty set of natural numbers has a least element.
LEMMA LeastNat ==
  ASSUME NEW N \in SUBSET Nat, N # {}
  PROVE  \E n \in N : \A k \in N : n <= k
<1>1. PICK n \in N : \A k \in N : ~ (<<k, n>> \in OpToRel(<, Nat))
  BY NatLessThanWellFounded, WFMin
<1>2. \A k \in N : ~ (k < n)
  BY <1>1 DEF OpToRel
<1> QED
  BY <1>2

\* A nonempty set of natural numbers up to n has a greatest element.
LEMMA GreatestNat ==
  ASSUME NEW n \in Nat, NEW N \in SUBSET (0 .. n), N # {}
  PROVE  \E b \in N : \A c \in N : c <= b
<1> DEFINE D == {n - c : c \in N}
<1>1. D \in SUBSET Nat /\ D # {}
  <2>1. \A c \in N : n - c \in Nat
    OBVIOUS
  <2> QED
    BY <2>1
<1>2. PICK d \in D : \A e \in D : d <= e
  <2> HIDE DEF D
  <2> QED BY <1>1, LeastNat
<1>3. PICK b \in N : d = n - b
  OBVIOUS
<1>4. \A c \in N : n - b <= n - c
  BY <1>2, <1>3
<1> QED
  BY <1>4

\* BearsToTake takes the greatest number that qualifies.
LEMMA BearsToTakeMax ==
  ASSUME NEW n \in Nat, NEW counts \in SUBSET (0 .. n), counts # {}
  PROVE  /\ BearsToTake(counts) \in counts
         /\ \A c \in counts : c <= BearsToTake(counts)
BY GreatestNat DEF BearsToTake

\* A nonempty set of tickets has exactly one that comes first.
LEMMA FirstExists ==
  ASSUME NEW S \in SUBSET Ticket, S # {}
  PROVE  /\ \E t \in S : IsFirst(t, S)
         /\ \A t, u \in S : IsFirst(t, S) /\ IsFirst(u, S) => t = u
<1> DEFINE stamps == {t.ts : t \in S}
<1>1. stamps \in SUBSET Nat /\ stamps # {}
  BY DEF Ticket
<1>2. PICK n \in stamps : \A k \in stamps : n <= k
  <2> HIDE DEF stamps
  <2> QED BY <1>1, LeastNat
<1> DEFINE pids == {t.pid : t \in {u \in S : u.ts = n}}
<1>3. pids \in SUBSET Nat /\ pids # {}
  BY ConfigAssumption DEF Ticket, Pid, WorldSize
<1>4. PICK p \in pids : \A k \in pids : p <= k
  <2> HIDE DEF pids
  <2> QED BY <1>3, LeastNat
<1>5. PICK t \in S : t.ts = n /\ t.pid = p
  OBVIOUS
<1>6. ASSUME NEW u \in S \ {t} PROVE Before(t, u)
  <2>1. t \in Ticket /\ u \in Ticket /\ t # u
    OBVIOUS
  <2>2. ~ (u.ts < n)
    <3>1. u.ts \in stamps
      OBVIOUS
    <3> DEFINE k == u.ts
    <3>2. k \in stamps
      BY <3>1
    <3> HIDE DEF stamps, k
    <3>3. n <= k /\ n \in Nat /\ k \in Nat
      BY <1>1, <1>2, <3>2
    <3>4. ~ (k < n)
      BY <3>3
    <3> QED
      BY <3>4 DEF k
  <2>3. u.ts = n => ~ (u.pid < p)
    <3>1. u.ts = n => u.pid \in pids
      OBVIOUS
    <3> DEFINE k == u.pid
    <3>2. u.ts = n => k \in pids
      BY <3>1
    <3> HIDE DEF pids, stamps, k
    <3>3. u.ts = n => p <= k /\ p \in Nat /\ k \in Nat
      BY <1>3, <1>4, <3>2
    <3>4. u.ts = n => ~ (k < p)
      BY <3>3
    <3> QED
      BY <3>4 DEF k
  <2>4. ~ Before(u, t)
    BY <1>5, <2>2, <2>3 DEF Before
  <2> QED
    BY <2>1, <2>4, BeforeIsOrder
<1>7. IsFirst(t, S)
  BY <1>6 DEF IsFirst
<1>8. ASSUME NEW u \in S, NEW v \in S, IsFirst(u, S), IsFirst(v, S), u # v
      PROVE  FALSE
  <2>1. u \in Ticket /\ v \in Ticket /\ Before(u, v) /\ Before(v, u)
    BY <1>8 DEF IsFirst
  <2> QED
    BY <2>1, BeforeIsOrder
<1> QED
  BY <1>7, <1>8
-----------------------------------------------------------------------------
\* How many tickets of S come before t.
Earlier(S, t) == {u \in S : Before(u, t)}

\* The ranks of the tickets of a set are the numbers below its size.
LEMMA RankIsBijection ==
  ASSUME NEW S \in SUBSET Ticket, IsFiniteSet(S)
  PROVE  [t \in S |-> Cardinality(Earlier(S, t))]
           \in Bijection(S, 0 .. Cardinality(S) - 1)
<1> DEFINE size == Cardinality(S)
           rank == [t \in S |-> Cardinality(Earlier(S, t))]
<1>1. size \in Nat
  BY FS_CardinalityType
<1>2. ASSUME NEW t \in S
      PROVE  IsFiniteSet(Earlier(S, t)) /\ rank[t] \in 0 .. size - 1
  <2>1. Earlier(S, t) \in SUBSET S /\ t \notin Earlier(S, t)
    BY BeforeIsOrder DEF Earlier
  <2>2. /\ IsFiniteSet(Earlier(S, t))
        /\ Cardinality(Earlier(S, t)) <= size
        /\ Cardinality(Earlier(S, t)) # size
    BY <2>1, FS_Subset
  <2>3. Cardinality(Earlier(S, t)) \in Nat
    BY <2>2, FS_CardinalityType
  <2> QED
    BY <1>1, <2>2, <2>3
<1>3. ASSUME NEW t \in S, NEW u \in S, Before(t, u) PROVE rank[t] < rank[u]
  <2>1. Earlier(S, t) \in SUBSET Earlier(S, u)
    BY <1>3, BeforeIsOrder DEF Earlier
  <2>2. t \in Earlier(S, u) /\ t \notin Earlier(S, t)
    BY <1>3, BeforeIsOrder DEF Earlier
  <2>3. rank[t] <= rank[u] /\ rank[t] # rank[u]
    BY <1>2, <2>1, <2>2, FS_Subset
  <2> QED
    BY <1>1, <1>2, <2>3
<1>4. rank \in Injection(S, 0 .. size - 1)
  <2>1. rank \in [S -> 0 .. size - 1]
    BY <1>2
  <2>2. ASSUME NEW t \in S, NEW u \in S, rank[t] = rank[u] PROVE t = u
    <3>1. ~ Before(t, u) /\ ~ Before(u, t)
      <4>1. rank[t] \in Int /\ rank[u] \in Int
        BY <1>1, <1>2
      <4> HIDE DEF rank
      <4> QED BY <1>3, <2>2, <4>1
    <3> QED
      BY <3>1, BeforeIsOrder
  <2> QED
    BY <2>1, <2>2 DEF Injection, IsInjective
<1>5. IsFiniteSet(0 .. size - 1) /\ Cardinality(0 .. size - 1) = size
  BY <1>1, FS_Interval
<1>6. rank \in Surjection(S, 0 .. size - 1)
  <2> HIDE DEF rank
  <2> QED BY <1>4, <1>5, FS_Injection
<1> QED
  BY <1>4, <1>6 DEF Bijection

\* Oldest takes as many tickets as it is asked for.
LEMMA OldestCount ==
  ASSUME NEW S \in SUBSET Ticket, IsFiniteSet(S), NEW n \in 0 .. Cardinality(S)
  PROVE  /\ Oldest(S, n) \in SUBSET S
         /\ IsFiniteSet(Oldest(S, n))
         /\ Cardinality(Oldest(S, n)) = n
<1> DEFINE rank == [t \in S |-> Cardinality(Earlier(S, t))]
           some == [t \in Oldest(S, n) |-> rank[t]]
<1>1. Cardinality(S) \in Nat
  BY FS_CardinalityType
<1>2. rank \in Bijection(S, 0 .. Cardinality(S) - 1)
  BY RankIsBijection
<1>3. Oldest(S, n) = {t \in S : rank[t] < n}
  BY DEF Oldest, Earlier
<1> HIDE DEF rank
<1>4. some \in Bijection(Oldest(S, n), 0 .. n - 1)
  <2>1. /\ rank \in [S -> 0 .. Cardinality(S) - 1]
        /\ \A t, u \in S : rank[t] = rank[u] => t = u
        /\ \A k \in 0 .. Cardinality(S) - 1 : \E t \in S : rank[t] = k
    BY <1>2 DEF Bijection, Injection, IsInjective, Surjection
  <2>2. some \in [Oldest(S, n) -> 0 .. n - 1]
    BY <1>1, <1>3, <2>1
  <2>3. \A t, u \in Oldest(S, n) : some[t] = some[u] => t = u
    BY <1>3, <2>1
  <2>4. \A k \in 0 .. n - 1 : \E t \in Oldest(S, n) : some[t] = k
    <3>1. SUFFICES ASSUME NEW k \in 0 .. n - 1
                   PROVE  \E t \in Oldest(S, n) : some[t] = k
      OBVIOUS
    <3>2. PICK t \in S : rank[t] = k
      BY <1>1, <2>1
    <3> QED
      BY <1>3, <3>2
  <2> QED
    BY <2>2, <2>3, <2>4 DEF Bijection, Injection, IsInjective, Surjection
<1>5. IsFiniteSet(0 .. n - 1) /\ Cardinality(0 .. n - 1) = n
  <2>1. 0 \in Int /\ n - 1 \in Int
    BY <1>1
  <2>2. IsFiniteSet(0 .. n - 1)
    BY <2>1, FS_Interval
  <2>3. Cardinality(0 .. n - 1) = IF 0 > n - 1 THEN 0 ELSE n - 1 - 0 + 1
    BY <2>1, FS_Interval
  <2> QED
    BY <1>1, <2>2, <2>3
<1>6. Oldest(S, n) \in SUBSET S
  BY <1>3
<1>7. IsFiniteSet(Oldest(S, n))
  BY <1>6, FS_Subset
<1>8. Cardinality(Oldest(S, n)) = Cardinality(0 .. n - 1)
  <2> HIDE DEF some
  <2> QED BY <1>4, <1>7, FS_Bijection DEF ExistsBijection
<1> QED
  BY <1>5, <1>6, <1>7, <1>8

\* A ticket that Oldest leaves out comes after those it takes.
LEMMA OldestIsPrefix ==
  ASSUME NEW S \in SUBSET Ticket, IsFiniteSet(S), NEW n \in Nat,
         NEW t \in Oldest(S, n), NEW u \in S \ Oldest(S, n)
  PROVE  Before(t, u)
<1>1. t \in S /\ t \in Ticket /\ u \in Ticket /\ t # u
  BY DEF Oldest
<1>2. CASE Before(u, t)
  <2>1. Earlier(S, u) \in SUBSET Earlier(S, t)
    BY <1>1, <1>2, BeforeIsOrder DEF Earlier
  <2>2. IsFiniteSet(Earlier(S, t)) /\ IsFiniteSet(Earlier(S, u))
    BY FS_Subset DEF Earlier
  <2>3. /\ Cardinality(Earlier(S, u)) <= Cardinality(Earlier(S, t))
        /\ Cardinality(Earlier(S, u)) \in Nat
        /\ Cardinality(Earlier(S, t)) \in Nat
    BY <2>1, <2>2, FS_Subset, FS_CardinalityType
  <2>4. Cardinality(Earlier(S, t)) < n /\ ~ (Cardinality(Earlier(S, u)) < n)
    BY DEF Oldest, Earlier
  <2> QED
    BY <2>3, <2>4
<1> QED
  BY <1>1, <1>2, BeforeIsOrder
-----------------------------------------------------------------------------
\* The parts FormGroup chooses from, when hares and bears differ in weight.
LeaderOf(S)     == CHOOSE t \in S : IsFirst(t, S)
OtherHares(S)   == {t \in S \ {LeaderOf(S)} : IsHare(t.pid)}
OtherBears(S)   == {t \in S \ {LeaderOf(S)} : ~ IsHare(t.pid)}
CountsOf(c, S)  == BearCounts(c, LeaderOf(S), OtherHares(S), OtherBears(S))
BearsTaken(c, S) == BearsToTake(CountsOf(c, S))
HaresTaken(c, S) ==
  c - WeightOf(LeaderOf(S).pid) - BearsTaken(c, S) * BearWeight
Members(T) == {t.pid : t \in T}

LEMMA FormGroupParts ==
  ASSUME NEW S, NEW c, HareWeight # BearWeight
  PROVE  FormGroup(c, S) =
           IF S = {} \/ HareWeight # 1 \/ CountsOf(c, S) = {} THEN {}
           ELSE Members({LeaderOf(S)}
                          \cup Oldest(OtherBears(S), BearsTaken(c, S))
                          \cup Oldest(OtherHares(S), HaresTaken(c, S)))
<1> DEFINE others == S \ {LeaderOf(S)}
           hares  == {t \in others : WeightOf(t.pid) = HareWeight}
           bears  == {t \in others \ hares : WeightOf(t.pid) = BearWeight}
<1>1. hares = OtherHares(S)
  BY DEF OtherHares, WeightOf
<1>2. bears = OtherBears(S)
  BY DEF OtherBears, WeightOf
<1>3. FormGroup(c, S) =
        IF S = {} \/ HareWeight # 1 THEN {}
        ELSE IF BearCounts(c, LeaderOf(S), hares, bears) = {} THEN {}
        ELSE LET b == BearsToTake(BearCounts(c, LeaderOf(S), hares, bears))
                 h == c - WeightOf(LeaderOf(S).pid) - b * BearWeight
             IN  {t.pid : t \in {LeaderOf(S)} \cup Oldest(bears, b)
                                              \cup Oldest(hares, h)}
  BY DEF FormGroup, LeaderOf
<1> HIDE DEF hares, bears
<1> QED
  BY <1>1, <1>2, <1>3 DEF CountsOf, BearsTaken, HaresTaken, Members

\* The pids of some tickets of a snapshot are as many as the tickets.
LEMMA MembersCount ==
  ASSUME NEW S, Snapshot(S), NEW T \in SUBSET S
  PROVE  /\ IsFiniteSet(T) /\ IsFiniteSet(Members(T))
         /\ Cardinality(Members(T)) = Cardinality(T)
         /\ Members(T) \in SUBSET Pid
<1> DEFINE pid == [t \in T |-> t.pid]
<1>1. IsFiniteSet(T)
  BY FS_Subset DEF Snapshot
<1>2. pid \in Bijection(T, Members(T))
  BY DEF Snapshot, Members, Bijection, Injection, IsInjective, Surjection
<1>3. IsFiniteSet(Members(T)) /\ Cardinality(Members(T)) = Cardinality(T)
  BY <1>1, <1>2, FS_Bijection DEF ExistsBijection
<1>4. Members(T) \in SUBSET Pid
  BY DEF Members, Snapshot, Ticket
<1> QED
  BY <1>1, <1>3, <1>4

\* The leader is the oldest, and the others are parts of the snapshot.
LEMMA LeaderFacts ==
  ASSUME NEW S, Snapshot(S), S # {}
  PROVE  /\ LeaderOf(S) \in S /\ IsFirst(LeaderOf(S), S)
         /\ OtherHares(S) \in SUBSET S /\ OtherBears(S) \in SUBSET S
         /\ IsFiniteSet(OtherHares(S)) /\ Cardinality(OtherHares(S)) \in Nat
         /\ IsFiniteSet(OtherBears(S)) /\ Cardinality(OtherBears(S)) \in Nat
         /\ WeightOf(LeaderOf(S).pid) \in Nat \ {0}
<1>1. LeaderOf(S) \in S /\ IsFirst(LeaderOf(S), S)
  BY FirstExists DEF LeaderOf, Snapshot
<1>2. OtherHares(S) \in SUBSET S /\ OtherBears(S) \in SUBSET S
  BY DEF OtherHares, OtherBears
<1>3. IsFiniteSet(OtherHares(S)) /\ IsFiniteSet(OtherBears(S))
  BY <1>2, MembersCount
<1> QED
  BY <1>1, <1>2, <1>3, FS_CardinalityType, ConfigAssumption DEF WeightOf

\* The hares and bears of a group are its leader and prefixes of the others.
LEMMA FormGroupFacts ==
  ASSUME NEW S, Snapshot(S), NEW c \in Nat, HareWeight # BearWeight,
         FormGroup(c, S) # {}
  PROVE  LET g     == FormGroup(c, S)
             l     == LeaderOf(S)
             b     == BearsTaken(c, S)
             h     == HaresTaken(c, S)
             hares == {p \in g : IsHare(p)}
         IN  /\ S # {} /\ HareWeight = 1
             /\ b \in CountsOf(c, S)
             /\ b \in 0 .. Cardinality(OtherBears(S))
             /\ h \in 0 .. Cardinality(OtherHares(S))
             /\ IsHare(l.pid) \/ h >= 1
             /\ h = c - WeightOf(l.pid) - b * BearWeight
             /\ hares = Members(Oldest(OtherHares(S), h))
                          \cup (IF IsHare(l.pid) THEN {l.pid} ELSE {})
             /\ g \ hares = Members(Oldest(OtherBears(S), b))
                              \cup (IF IsHare(l.pid) THEN {} ELSE {l.pid})
<1> DEFINE l == LeaderOf(S)
           b == BearsTaken(c, S)
           h == HaresTaken(c, S)
           takenHares == Oldest(OtherHares(S), h)
           takenBears == Oldest(OtherBears(S), b)
<1>1. /\ S # {} /\ HareWeight = 1 /\ CountsOf(c, S) # {}
      /\ FormGroup(c, S) = Members({l} \cup takenBears \cup takenHares)
  BY FormGroupParts
<1>2. /\ Cardinality(OtherBears(S)) \in Nat /\ Cardinality(OtherHares(S)) \in Nat
      /\ WeightOf(l.pid) \in Nat
  BY <1>1, LeaderFacts
<1>3. b \in CountsOf(c, S)
  <2>1. CountsOf(c, S) \in SUBSET (0 .. Cardinality(OtherBears(S)))
    BY DEF CountsOf, BearCounts
  <2> QED
    BY <1>1, <1>2, <2>1, BearsToTakeMax DEF BearsTaken
<1>4. /\ b \in 0 .. Cardinality(OtherBears(S))
      /\ h >= IF WeightOf(l.pid) = HareWeight THEN 0 ELSE 1
      /\ h <= Cardinality(OtherHares(S))
  BY <1>3 DEF CountsOf, BearCounts, HaresTaken
<1>5. h \in 0 .. Cardinality(OtherHares(S))
  <2>1. h \in Int
    BY <1>2, <1>4, ConfigAssumption DEF HaresTaken
  <2> HIDE DEF h
  <2> QED BY <1>2, <1>4, <2>1
<1>6. IsHare(l.pid) \/ h >= 1
  BY <1>4 DEF WeightOf
<1>7. /\ \A t \in takenHares : IsHare(t.pid)
      /\ \A t \in takenBears : ~ IsHare(t.pid)
  BY DEF Oldest, OtherHares, OtherBears
<1>8. {p \in FormGroup(c, S) : IsHare(p)}
        = Members(takenHares) \cup (IF IsHare(l.pid) THEN {l.pid} ELSE {})
  <2> HIDE DEF l, takenHares, takenBears
  <2> QED BY <1>1, <1>7 DEF Members
<1>9. FormGroup(c, S) \ {p \in FormGroup(c, S) : IsHare(p)}
        = Members(takenBears) \cup (IF IsHare(l.pid) THEN {} ELSE {l.pid})
  <2> HIDE DEF l, takenHares, takenBears
  <2> QED BY <1>1, <1>7 DEF Members
<1> QED
  BY <1>1, <1>3, <1>4, <1>5, <1>6, <1>8, <1>9 DEF HaresTaken
-----------------------------------------------------------------------------
HaresAmong(g) == {p \in g : IsHare(p)}

\* Adding the leader to some of the others adds one.
LEMMA LeaderCountsOnce ==
  ASSUME NEW S, Snapshot(S), S # {}, NEW T \in SUBSET S, LeaderOf(S) \notin T
  PROVE  /\ IsFiniteSet(Members(T) \cup {LeaderOf(S).pid})
         /\ Cardinality(Members(T) \cup {LeaderOf(S).pid}) = Cardinality(T) + 1
<1>1. LeaderOf(S).pid \notin Members(T)
  BY LeaderFacts DEF Members, Snapshot
<1>2. IsFiniteSet(Members(T)) /\ Cardinality(Members(T)) = Cardinality(T)
  BY MembersCount
<1> QED
  BY <1>1, <1>2, FS_AddElement

\* A group that the policy forms has the oldest candidate in it, a hare, and
\* exactly the weight asked for.
LEMMA FormGroupSound ==
  ASSUME NEW S, Snapshot(S), NEW c \in Nat, HareWeight # BearWeight,
         FormGroup(c, S) # {}
  PROVE  LET g == FormGroup(c, S)
         IN  /\ g \in SUBSET Members(S) /\ IsFiniteSet(g)
             /\ LeaderOf(S).pid \in g /\ HaresAmong(g) # {}
             /\ Cardinality(HaresAmong(g)) * HareWeight
                  + Cardinality(g \ HaresAmong(g)) * BearWeight = c
             /\ Cardinality(g \ HaresAmong(g))
                  = BearsTaken(c, S) + IF IsHare(LeaderOf(S).pid) THEN 0 ELSE 1
<1> DEFINE g == FormGroup(c, S)
           l == LeaderOf(S)
           b == BearsTaken(c, S)
           h == HaresTaken(c, S)
           takenHares == Oldest(OtherHares(S), h)
           takenBears == Oldest(OtherBears(S), b)
<1>1. /\ S # {} /\ HareWeight = 1
      /\ b \in 0 .. Cardinality(OtherBears(S))
      /\ h \in 0 .. Cardinality(OtherHares(S))
      /\ IsHare(l.pid) \/ h >= 1
      /\ h = c - WeightOf(l.pid) - b * BearWeight
      /\ HaresAmong(g) = Members(takenHares)
                           \cup (IF IsHare(l.pid) THEN {l.pid} ELSE {})
      /\ g \ HaresAmong(g) = Members(takenBears)
                               \cup (IF IsHare(l.pid) THEN {} ELSE {l.pid})
  BY FormGroupFacts DEF HaresAmong
<1>2. /\ l \in S
      /\ OtherHares(S) \in SUBSET S /\ IsFiniteSet(OtherHares(S))
      /\ OtherBears(S) \in SUBSET S /\ IsFiniteSet(OtherBears(S))
      /\ Cardinality(OtherBears(S)) \in Nat /\ Cardinality(OtherHares(S)) \in Nat
  BY <1>1, LeaderFacts
<1>3. b \in Nat /\ h \in Nat
  BY <1>1, <1>2
<1>4. /\ takenHares \in SUBSET S /\ l \notin takenHares
      /\ takenBears \in SUBSET S /\ l \notin takenBears
      /\ Cardinality(takenHares) = h /\ Cardinality(takenBears) = b
  <2>1. /\ takenHares \in SUBSET OtherHares(S) /\ Cardinality(takenHares) = h
        /\ takenBears \in SUBSET OtherBears(S) /\ Cardinality(takenBears) = b
    BY <1>1, <1>2, OldestCount DEF Snapshot
  <2>2. l \notin OtherHares(S) /\ l \notin OtherBears(S)
    BY DEF OtherHares, OtherBears
  <2> QED
    BY <1>2, <2>1, <2>2
<1> HIDE DEF g, l, b, h, takenHares, takenBears
<1>5. /\ IsFiniteSet(HaresAmong(g)) /\ IsFiniteSet(g \ HaresAmong(g))
      /\ Cardinality(HaresAmong(g)) = h + IF IsHare(l.pid) THEN 1 ELSE 0
      /\ Cardinality(g \ HaresAmong(g)) = b + IF IsHare(l.pid) THEN 0 ELSE 1
  <2>1. /\ IsFiniteSet(Members(takenHares)) /\ IsFiniteSet(Members(takenBears))
        /\ Cardinality(Members(takenHares)) = h
        /\ Cardinality(Members(takenBears)) = b
    BY <1>4, MembersCount
  <2>2. /\ IsFiniteSet(Members(takenHares) \cup {l.pid})
        /\ IsFiniteSet(Members(takenBears) \cup {l.pid})
        /\ Cardinality(Members(takenHares) \cup {l.pid}) = h + 1
        /\ Cardinality(Members(takenBears) \cup {l.pid}) = b + 1
    BY <1>1, <1>4, LeaderCountsOnce DEF l
  <2>3. CASE IsHare(l.pid)
    <3>1. /\ HaresAmong(g) = Members(takenHares) \cup {l.pid}
          /\ g \ HaresAmong(g) = Members(takenBears)
      BY <1>1, <2>3
    <3> QED
      BY <1>3, <2>1, <2>2, <2>3, <3>1
  <2>4. CASE ~ IsHare(l.pid)
    <3>1. /\ HaresAmong(g) = Members(takenHares)
          /\ g \ HaresAmong(g) = Members(takenBears) \cup {l.pid}
      BY <1>1, <2>4
    <3> QED
      BY <1>3, <2>1, <2>2, <2>4, <3>1
  <2> QED
    BY <2>3, <2>4
<1>6. g = HaresAmong(g) \cup (g \ HaresAmong(g))
  BY DEF HaresAmong
<1>7. IsFiniteSet(g)
  BY <1>5, <1>6, FS_Union
<1>8. g \in SUBSET Members(S) /\ l.pid \in g
  <2>1. {l.pid} \in SUBSET Members(S)
    BY <1>2 DEF Members
  <2>2. Members(takenHares) \in SUBSET Members(S)
          /\ Members(takenBears) \in SUBSET Members(S)
    BY <1>4 DEF Members
  <2> QED
    BY <1>1, <1>6, <2>1, <2>2
<1>9. HaresAmong(g) # {}
  <2>1. Cardinality(HaresAmong(g)) # 0
    BY <1>1, <1>3, <1>5
  <2> QED
    BY <2>1, FS_EmptySet
<1>10. Cardinality(HaresAmong(g)) * HareWeight
         + Cardinality(g \ HaresAmong(g)) * BearWeight = c
  <2>1. BearWeight \in Nat /\ b * BearWeight \in Nat
    BY <1>3, ConfigAssumption
  <2>2. CASE IsHare(l.pid)
    <3>1. h = c - 1 - b * BearWeight
      BY <1>1, <2>2 DEF WeightOf
    <3> QED
      BY <1>1, <1>3, <1>5, <2>1, <2>2, <3>1
  <2>3. CASE ~ IsHare(l.pid)
    <3>1. h = c - BearWeight - b * BearWeight
      BY <1>1, <2>3 DEF WeightOf
    <3>2. (b + 1) * BearWeight = b * BearWeight + BearWeight
      BY <1>3, <2>1
    <3> QED
      BY <1>1, <1>3, <1>5, <2>1, <2>3, <3>1, <3>2
  <2> QED
    BY <2>2, <2>3
<1> QED
  BY <1>5, <1>7, <1>8, <1>9, <1>10 DEF g, l, b

\* When some group has the oldest candidate, a hare and the weight asked for,
\* the policy forms one, and one with as many bears.
LEMMA FormGroupComplete ==
  ASSUME NEW S, Snapshot(S), NEW c \in Nat, HareWeight = 1, BearWeight # 1,
         S # {}, NEW g \in SUBSET Members(S),
         LeaderOf(S).pid \in g, HaresAmong(g) # {},
         Cardinality(HaresAmong(g)) * HareWeight
           + Cardinality(g \ HaresAmong(g)) * BearWeight = c
  PROVE  /\ FormGroup(c, S) # {}
         /\ Cardinality(g \ HaresAmong(g))
              <= Cardinality(FormGroup(c, S) \ HaresAmong(FormGroup(c, S)))
<1> DEFINE l == LeaderOf(S)
           hares == HaresAmong(g)
           bears == g \ HaresAmong(g)
           nh == Cardinality(hares \ {l.pid})
           nb == Cardinality(bears \ {l.pid})
<1>1. /\ l \in S
      /\ OtherHares(S) \in SUBSET S /\ OtherBears(S) \in SUBSET S
      /\ Cardinality(OtherBears(S)) \in Nat /\ Cardinality(OtherHares(S)) \in Nat
  BY LeaderFacts
<1>2. IsFiniteSet(hares) /\ IsFiniteSet(bears)
  <2>1. IsFiniteSet(Members(S))
    BY MembersCount
  <2>2. hares \in SUBSET Members(S) /\ bears \in SUBSET Members(S)
    BY DEF HaresAmong
  <2> QED
    BY <2>1, <2>2, FS_Subset
<1>3. nh \in Nat /\ nh <= Cardinality(OtherHares(S))
  <2>1. hares \ {l.pid} \in SUBSET Members(OtherHares(S))
    BY DEF HaresAmong, Members, OtherHares
  <2>2. /\ IsFiniteSet(Members(OtherHares(S)))
        /\ Cardinality(Members(OtherHares(S))) = Cardinality(OtherHares(S))
    BY <1>1, MembersCount
  <2> QED
    BY <2>1, <2>2, FS_Subset, FS_CardinalityType
<1>4. nb \in Nat /\ nb <= Cardinality(OtherBears(S))
  <2>1. bears \ {l.pid} \in SUBSET Members(OtherBears(S))
    BY DEF HaresAmong, Members, OtherBears
  <2>2. /\ IsFiniteSet(Members(OtherBears(S)))
        /\ Cardinality(Members(OtherBears(S))) = Cardinality(OtherBears(S))
    BY <1>1, MembersCount
  <2> QED
    BY <2>1, <2>2, FS_Subset, FS_CardinalityType
<1>5. /\ Cardinality(hares) = nh + IF IsHare(l.pid) THEN 1 ELSE 0
      /\ Cardinality(bears) = nb + IF IsHare(l.pid) THEN 0 ELSE 1
  <2>1. Cardinality(hares) \in Nat /\ Cardinality(bears) \in Nat
    BY <1>2, FS_CardinalityType
  <2>2. /\ nh = IF l.pid \in hares THEN Cardinality(hares) - 1 ELSE Cardinality(hares)
        /\ nb = IF l.pid \in bears THEN Cardinality(bears) - 1 ELSE Cardinality(bears)
    BY <1>2, FS_RemoveElement
  <2>3. /\ l.pid \in hares <=> IsHare(l.pid)
        /\ l.pid \in bears <=> ~ IsHare(l.pid)
    BY DEF HaresAmong
  <2> HIDE DEF hares, bears, nh, nb, l
  <2> QED BY <2>1, <2>2, <2>3
<1>6. Cardinality(hares) # 0
  BY <1>2, FS_EmptySet
<1>7. c - WeightOf(l.pid) - nb * BearWeight = nh
  <2>1. BearWeight \in Nat /\ nb * BearWeight \in Nat
    BY <1>4, ConfigAssumption
  <2> HIDE DEF hares, nh, nb, l
  <2>2. CASE IsHare(l.pid)
    <3>1. c = nh + 1 + nb * BearWeight /\ WeightOf(l.pid) = 1
      BY <1>3, <1>4, <1>5, <2>1, <2>2 DEF WeightOf, hares
    <3> QED
      BY <1>3, <2>1, <3>1
  <2>3. CASE ~ IsHare(l.pid)
    <3>1. (nb + 1) * BearWeight = nb * BearWeight + BearWeight
      BY <1>4, <2>1
    <3>2. c = nh + nb * BearWeight + BearWeight /\ WeightOf(l.pid) = BearWeight
      BY <1>3, <1>4, <1>5, <2>1, <2>3, <3>1 DEF WeightOf, hares
    <3> QED
      BY <1>3, <2>1, <3>2
  <2> QED
    BY <2>2, <2>3
<1>8. nb \in CountsOf(c, S)
  <2>1. nh >= IF WeightOf(l.pid) = HareWeight THEN 0 ELSE 1
    <3> HIDE DEF hares, bears, nh, nb
    <3> QED BY <1>3, <1>5, <1>6 DEF WeightOf
  <2>2. nb \in 0 .. Cardinality(OtherBears(S))
    BY <1>1, <1>4
  <2> HIDE DEF nh, nb
  <2> QED BY <1>3, <1>7, <2>1, <2>2 DEF CountsOf, BearCounts
<1>9. FormGroup(c, S) # {}
  <2>1. l.pid \in FormGroup(c, S)
    <3> HIDE DEF nb
    <3> QED BY <1>8, FormGroupParts DEF Members
  <2> QED
    BY <2>1
<1>10. nb <= BearsTaken(c, S)
  <2>1. CountsOf(c, S) \in SUBSET (0 .. Cardinality(OtherBears(S)))
    BY DEF CountsOf, BearCounts
  <2> HIDE DEF nb
  <2> QED BY <1>1, <1>8, <2>1, BearsToTakeMax DEF BearsTaken
<1>11. Cardinality(FormGroup(c, S) \ HaresAmong(FormGroup(c, S)))
         = BearsTaken(c, S) + IF IsHare(l.pid) THEN 0 ELSE 1
  BY <1>9, FormGroupSound
<1>12. BearsTaken(c, S) \in Nat
  BY <1>1, <1>9, FormGroupFacts
<1> HIDE DEF nh, nb, hares
<1> QED
  BY <1>4, <1>5, <1>9, <1>10, <1>11, <1>12 DEF hares

\* Who is left out comes after the members of the same species.
LEMMA FormGroupOldest ==
  ASSUME NEW S, Snapshot(S), NEW c \in Nat, HareWeight # BearWeight,
         NEW t \in S, NEW u \in S,
         t.pid \in FormGroup(c, S), u.pid \notin FormGroup(c, S),
         IsHare(t.pid) <=> IsHare(u.pid)
  PROVE  Before(t, u)
<1> DEFINE l == LeaderOf(S)
           b == BearsTaken(c, S)
           h == HaresTaken(c, S)
           chosen == {l} \cup Oldest(OtherBears(S), b) \cup Oldest(OtherHares(S), h)
<1>1. FormGroup(c, S) = Members(chosen)
  BY FormGroupParts
<1>2. /\ l \in S /\ IsFirst(l, S)
      /\ OtherHares(S) \in SUBSET S /\ OtherBears(S) \in SUBSET S
      /\ IsFiniteSet(OtherHares(S)) /\ IsFiniteSet(OtherBears(S))
      /\ Cardinality(OtherHares(S)) \in Nat /\ Cardinality(OtherBears(S)) \in Nat
  BY LeaderFacts
<1>3. chosen \in SUBSET S
  BY <1>2 DEF Oldest
<1> HIDE DEF l, b, h, chosen
<1>4. t \in chosen /\ u \notin chosen
  BY <1>1, <1>3 DEF Members, Snapshot
<1>5. b \in Nat /\ h \in Nat
  BY <1>2, FormGroupFacts DEF b, h
<1>6. CASE t = l
  BY <1>2, <1>4, <1>6 DEF IsFirst, chosen
<1>7. CASE t \in Oldest(OtherHares(S), h)
  <2>1. u \in OtherHares(S) \ Oldest(OtherHares(S), h)
    BY <1>4, <1>7 DEF OtherHares, Oldest, chosen, l
  <2>2. OtherHares(S) \in SUBSET Ticket
    BY <1>2 DEF Snapshot
  <2> QED
    BY <1>2, <1>5, <1>7, <2>1, <2>2, OldestIsPrefix
<1>8. CASE t \in Oldest(OtherBears(S), b)
  <2>1. u \in OtherBears(S) \ Oldest(OtherBears(S), b)
    BY <1>4, <1>8 DEF OtherBears, Oldest, chosen, l
  <2>2. OtherBears(S) \in SUBSET Ticket
    BY <1>2 DEF Snapshot
  <2> QED
    BY <1>2, <1>5, <1>8, <2>1, <2>2, OldestIsPrefix
<1> QED
  BY <1>4, <1>6, <1>7, <1>8 DEF chosen
=============================================================================
