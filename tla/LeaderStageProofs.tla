------------------------- MODULE LeaderStageProofs --------------------------
(***************************************************************************)
(* The stages of the handlers keep Leading, whatever the variables are:    *)
(* taking a message, becoming queued, starting a party, asking for one and *)
(* leaving one.  Nothing here depends on how channels are represented.     *)
(***************************************************************************)
EXTENDS LeaderInvariant, TLAPS

\* The values Leading is about, with their types.
Typed(st, qs, pd, rp, f, ck) ==
  /\ st \in [Pid -> AppState]
  /\ qs \in [Pid -> SUBSET Ticket]
  /\ pd \in [Pid -> SUBSET Ticket]
  /\ rp \in [Pid -> SUBSET Pid]
  /\ f \in [Pid -> [Pid -> SUBSET Message]]
  /\ \A a \in Pid : f[a][a] = {}
  /\ ck \in [Pid -> Nat]

\* y differs from x at p only.
OnlyAt(p, x, y) == \A a \in Pid \ {p} : y[a] = x[a]

\* Every channel has the same messages of the type in f and in g.
SameRequests(f, g)    == \A a, b \in Pid : Requests(g, a, b) = Requests(f, a, b)
SameReplies(f, g)     == \A a, b \in Pid : Replies(g, a, b) = Replies(f, a, b)
SamePartyStarts(f, g) == \A a, b \in Pid : PartyStarts(g, a, b) = PartyStarts(f, a, b)

\* The message taken from the channel from q to p is the only one to go.
TakenFrom(f, q, p, m, g) ==
  \A a, b \in Pid : g[a][b] = IF a = q /\ b = p THEN f[a][b] \ {m} ELSE f[a][b]
-----------------------------------------------------------------------------
\* The process at the head of its queue.

\* No PartyStart is on its way to a queued process with the oldest ticket in
\* its queue: each would be held back by an older ticket or a missing reply.
LEMMA LeaderHearsNothing ==
  ASSUME NEW st, NEW qs, NEW pd, NEW rp, NEW f, NEW ck,
         Typed(st, qs, pd, rp, f, ck),
         Exchange(st, rp, f), Own(st, qs, pd), Complete(st, rp),
         HeldBack(qs, pd, f),
         NEW p \in Pid, st[p] = "queued", AmLeader(p, qs[p])
  PROVE  \A l \in Pid : PartyStarts(f, l, p) = {}
<1> SUFFICES ASSUME NEW l \in Pid, NEW m \in PartyStarts(f, l, p)
             PROVE  FALSE
  OBVIOUS
<1>1. PICK t \in pd[p] : IsFirst(t, qs[p])
  BY DEF AmLeader, Own, IsFirst
<1>2. PICK k \in Pid :
          \E n \in PartyStarts(f, k, p) : Held(qs, f, k, p, t, n)
  <2>1. CASE NamedIn(f, p)
    BY <1>1, <2>1 DEF HeldBack
  <2>2. CASE ~NamedIn(f, p)
    <3>1. p \notin m.participants
      BY <2>2 DEF NamedIn
    <3> QED
      BY <1>1, <2>2, <3>1 DEF HeldBack
  <2> QED
    BY <2>1, <2>2
<1>3. k # p
  BY <1>2 DEF Typed, PartyStarts
<1>4. Requests(f, p, k) = {} /\ Replies(f, k, p) = {}
  BY <1>3 DEF Exchange, Complete
<1>4a. PICK n \in PartyStarts(f, k, p) : Held(qs, f, k, p, t, n)
  BY <1>2
<1>5. PICK u \in qs[p] : u.pid = k /\ Before(u, t)
  BY <1>4, <1>4a DEF Held
<1>6. t.ts \in Nat /\ u.ts \in Nat /\ t.pid \in Int /\ u.pid \in Int
  BY <1>1, <1>5 DEF Typed, Ticket, Pid
<1>7. u # t /\ ~Before(t, u)
  BY <1>5, <1>6 DEF Before
<1> QED
  BY <1>1, <1>5, <1>7 DEF IsFirst
-----------------------------------------------------------------------------
\* Starting a party.

\* p enters the party of the processes in group.
Joins(p, group, st, qs, pd, rp, st2, qs2, pd2, rp2) ==
  /\ OnlyAt(p, st, st2) /\ st2[p] = "inParty"
  /\ OnlyAt(p, qs, qs2) /\ qs2[p] = Remove(qs[p], group)
  /\ OnlyAt(p, pd, pd2) /\ pd2[p] = {}
  /\ OnlyAt(p, rp, rp2) /\ rp2[p] = {}

\* p sends m to all others.
SentToAll(f, p, m, g) ==
  \A a, b \in Pid : g[a][b] = IF a = p /\ b # p THEN f[a][b] \cup {m} ELSE f[a][b]

\* To send a message changes only the messages of its type.
LEMMA SendsOther ==
  ASSUME NEW f, NEW p \in Pid, NEW m, NEW g, SentToAll(f, p, m, g)
  PROVE  /\ m.type # "Request" => SameRequests(f, g)
         /\ m.type # "Reply" => SameReplies(f, g)
         /\ m.type # "PartyStart" => SamePartyStarts(f, g)
<1> SUFFICES ASSUME NEW a \in Pid, NEW b \in Pid
    PROVE  /\ m.type # "Request" => Requests(g, a, b) = Requests(f, a, b)
           /\ m.type # "Reply" => Replies(g, a, b) = Replies(f, a, b)
           /\ m.type # "PartyStart" => PartyStarts(g, a, b) = PartyStarts(f, a, b)
  BY DEF SameRequests, SameReplies, SamePartyStarts
<1>1. g[a][b] = f[a][b] \/ g[a][b] = f[a][b] \cup {m}
  BY DEF SentToAll
<1> QED
  BY <1>1 DEF Requests, Replies, PartyStarts

\* A leader keeps the invariant when it starts a party with processes from its
\* queue.
LEMMA StartStage ==
  ASSUME NEW st, NEW qs, NEW pd, NEW rp, NEW f, NEW ck,
         Typed(st, qs, pd, rp, f, ck), Leading(st, qs, pd, rp, f, ck),
         NEW p \in Pid, st[p] = "queued", AmLeader(p, qs[p]),
         NEW m \in Message, m.type = "PartyStart", p \in m.participants,
         \A r \in m.participants : \E t \in qs[p] : t.pid = r,
         NEW st2, NEW qs2, NEW pd2, NEW rp2, NEW f2, NEW ck2,
         Typed(st2, qs2, pd2, rp2, f2, ck2),
         Joins(p, m.participants, st, qs, pd, rp, st2, qs2, pd2, rp2),
         SentToAll(f, p, m, f2),
         \A a \in Pid : ck[a] <= ck2[a]
  PROVE  Leading(st2, qs2, pd2, rp2, f2, ck2)
<1>1. \A l \in Pid : PartyStarts(f, l, p) = {}
  BY LeaderHearsNothing DEF Leading
<1>2. ~NamedIn(f, p)
  BY <1>1 DEF NamedIn
<1>3. \A r \in Pid : Requests(f, p, r) = {} /\ Replies(f, r, p) = {}
  <2> SUFFICES ASSUME NEW r \in Pid
               PROVE  Requests(f, p, r) = {} /\ Replies(f, r, p) = {}
    OBVIOUS
  <2>1. CASE r = p
    BY <2>1 DEF Typed, Requests, Replies
  <2>2. CASE r # p
    BY <2>2 DEF Leading, Exchange, Complete
  <2> QED
    BY <2>1, <2>2
<1>4. \A r \in Pid : PartyStarts(f, p, r) = {}
  BY DEF Leading, Announcing
<1>5. SameRequests(f, f2) /\ SameReplies(f, f2)
  <2>1. m.type # "Request" /\ m.type # "Reply"
    OBVIOUS
  <2> QED
    BY <2>1, SendsOther
<1>6. /\ \A a, b \in Pid : a # p => PartyStarts(f2, a, b) = PartyStarts(f, a, b)
      /\ \A b \in Pid \ {p} : PartyStarts(f2, p, b) = {m} /\ m \in f2[p][b]
      /\ PartyStarts(f2, p, p) = {}
  <2>1. \A a, b \in Pid : a # p => f2[a][b] = f[a][b]
    BY DEF SentToAll
  <2>2. \A b \in Pid \ {p} : f2[p][b] = f[p][b] \cup {m}
    BY DEF SentToAll
  <2>3. f2[p][p] = f[p][p]
    BY DEF SentToAll
  <2>4. \A a, b \in Pid : a # p => PartyStarts(f2, a, b) = PartyStarts(f, a, b)
    BY <2>1 DEF PartyStarts
  <2>5. ASSUME NEW b \in Pid \ {p}
        PROVE  PartyStarts(f2, p, b) = {m} /\ m \in f2[p][b]
    <3>1. f2[p][b] = f[p][b] \cup {m} /\ PartyStarts(f, p, b) = {}
      BY <1>4, <2>2
    <3> QED
      BY <3>1 DEF PartyStarts
  <2>6. PartyStarts(f2, p, p) = {}
    BY <1>4, <2>3 DEF PartyStarts
  <2> QED
    BY <2>4, <2>5, <2>6
<1>7. \A a, b \in Pid : f[a][b] \subseteq f2[a][b]
  <2> SUFFICES ASSUME NEW a \in Pid, NEW b \in Pid PROVE f[a][b] \subseteq f2[a][b]
    OBVIOUS
  <2>1. f2[a][b] = f[a][b] \/ f2[a][b] = f[a][b] \cup {m}
    BY DEF SentToAll
  <2> QED
    BY <2>1
<1>8. m.participants \subseteq Pid
  BY DEF Message
<1>9. Exchange(st2, rp2, f2)
  BY <1>5 DEF Leading, Exchange, Joins, OnlyAt, SameRequests, SameReplies
<1>10. Current(pd2, f2)
  BY <1>5 DEF Leading, Current, Joins, OnlyAt, SameRequests, SameReplies
<1>11. Own(st2, qs2, pd2)
  BY DEF Leading, Own, Joins, OnlyAt, Remove
<1>12. Complete(st2, rp2)
  BY DEF Leading, Complete, Joins, OnlyAt
<1>13. Fenced(pd2, rp2, f2, ck2)
  <2> SUFFICES ASSUME NEW a \in Pid, NEW b \in rp2[a] \ {a}, NEW t \in pd2[a]
               PROVE  /\ t.ts <= ck2[b]
                      /\ \A n \in Requests(f2, b, a) : t.ts < n.request.ts
    BY DEF Fenced
  <2>1. a # p /\ b \in Pid /\ b \in rp[a] \ {a} /\ t \in pd[a]
    BY DEF Joins, OnlyAt, Typed
  <2>2. t.ts \in Nat /\ ck[b] \in Nat /\ ck2[b] \in Nat /\ ck[b] <= ck2[b]
    BY <2>1 DEF Typed, Ticket
  <2> QED
    BY <1>5, <2>1, <2>2 DEF Leading, Fenced, SameRequests
<1>14. Announcing(st2, f2)
  <2> SUFFICES ASSUME NEW l \in Pid, NEW k \in Pid, NEW n \in PartyStarts(f2, l, k)
      PROVE
      /\ l \in n.participants
      /\ st2[l] = "inParty"
      /\ \A r \in Pid : Requests(f2, l, r) = {}
      /\ \A r \in Pid : \A n2 \in PartyStarts(f2, l, r) : n2 = n
      /\ \A r \in n.participants : st2[r] = "inParty" \/ n \in f2[l][r]
    BY DEF Announcing
  <2>1. CASE l = p
    <3>1. n = m
      BY <1>6, <2>1
    <3> QED
      BY <1>3, <1>5, <1>6, <1>8, <2>1, <3>1 DEF Joins, SameRequests
  <2>2. CASE l # p
    <3>1. n \in PartyStarts(f, l, k)
      BY <1>6, <2>2
    <3>2. n.participants \subseteq Pid
      <4>1. n \in Message /\ n.type = "PartyStart"
        BY <3>1 DEF PartyStarts, Typed
      <4> QED
        BY <4>1 DEF Message
    <3>3. /\ l \in n.participants /\ st[l] = "inParty"
          /\ \A r \in Pid : Requests(f, l, r) = {}
          /\ \A r \in Pid : \A n2 \in PartyStarts(f, l, r) : n2 = n
          /\ \A r \in n.participants : st[r] = "inParty" \/ n \in f[l][r]
      BY <3>1 DEF Leading, Announcing
    <3>4. \A a \in Pid : st[a] = "inParty" => st2[a] = "inParty"
      BY DEF Joins, OnlyAt
    <3>5. \A r \in Pid : Requests(f2, l, r) = {}
      BY <1>5, <3>3 DEF SameRequests
    <3>6. \A r \in Pid : \A n2 \in PartyStarts(f2, l, r) : n2 = n
      BY <1>6, <2>2, <3>3
    <3>7. \A r \in n.participants : st2[r] = "inParty" \/ n \in f2[l][r]
      BY <1>7, <3>2, <3>3, <3>4
    <3> QED
      BY <3>3, <3>4, <3>5, <3>6, <3>7
  <2> QED
    BY <2>1, <2>2
<1>15. Exclusive(f2)
  BY <1>1, <1>6 DEF Leading, Exclusive, Announcing, Forgotten, PartyStarts
<1>16. NothingLost(qs2, pd2, f2)
  <2> SUFFICES ASSUME NEW a \in Pid, NEW b \in Pid, NEW t \in pd2[a],
                      ~NamedIn(f2, a), Requests(f2, a, b) = {}
               PROVE  t \in qs2[b]
    BY DEF NothingLost
  <2>1. a # p /\ t \in pd[a] /\ t.pid = a
    BY DEF Joins, OnlyAt, Leading, Own
  <2>2. ~NamedIn(f, a)
    BY <1>6, <1>4 DEF NamedIn
  <2>3. t \in qs[b]
    BY <1>5, <2>1, <2>2 DEF Leading, NothingLost, SameRequests
  <2>4. a \notin m.participants
    BY <1>6, <2>1 DEF NamedIn
  <2> QED
    BY <2>1, <2>3, <2>4 DEF Joins, OnlyAt, Remove
<1>17. HeldBack(qs2, pd2, f2)
  <2> SUFFICES ASSUME NEW k \in Pid, NEW t \in pd2[k]
      PROVE
      /\ \A l \in Pid : \A n \in PartyStarts(f2, l, k) :
           k \notin n.participants => Held(qs2, f2, l, k, t, n) \/ NamedIn(f2, k)
      /\ NamedIn(f2, k) =>
           \E l \in Pid : \E n \in PartyStarts(f2, l, k) :
             k \in n.participants /\ Held(qs2, f2, l, k, t, n)
    BY DEF HeldBack
  <2>1. k # p /\ t \in pd[k] /\ t.pid = k /\ qs2[k] = qs[k]
    BY DEF Joins, OnlyAt, Leading, Own
  <2>2. ASSUME NEW l \in Pid, NEW n, Held(qs, f, l, k, t, n)
        PROVE  Held(qs2, f2, l, k, t, n)
    BY <1>5, <2>1, <2>2 DEF Held, SameRequests, SameReplies
  <2>3. NamedIn(f, k) => NamedIn(f2, k)
    BY <1>4, <1>6 DEF NamedIn
  <2>4. Held(qs2, f2, p, k, t, m) \/ NamedIn(f, k)
    <3>1. PICK tp \in pd[p] : tp.pid = p /\ IsFirst(tp, qs[p])
      BY DEF AmLeader, Leading, Own, IsFirst
    <3>2. tp \in qs[k]
      BY <1>2, <1>3, <3>1 DEF Leading, NothingLost
    <3>3. CASE t \in qs[p]
      BY <2>1, <3>1, <3>2, <3>3 DEF Held, IsFirst
    <3>4. CASE Requests(f, k, p) # {}
      BY <1>5, <3>4 DEF Held, SameRequests
    <3> QED
      BY <2>1, <3>3, <3>4 DEF Leading, NothingLost
  <2>5. ASSUME NEW l \in Pid, NEW n \in PartyStarts(f2, l, k), k \notin n.participants
        PROVE  Held(qs2, f2, l, k, t, n) \/ NamedIn(f2, k)
    <3>1. CASE l = p
      BY <1>6, <2>1, <2>3, <2>4, <3>1
    <3>2. CASE l # p
      <4>1. n \in PartyStarts(f, l, k)
        BY <1>6, <3>2
      <4> QED
        BY <2>1, <2>2, <2>3, <2>5, <4>1 DEF Leading, HeldBack
    <3> QED
      BY <3>1, <3>2
  <2>6. ASSUME NamedIn(f2, k)
        PROVE  \E l \in Pid : \E n \in PartyStarts(f2, l, k) :
                 k \in n.participants /\ Held(qs2, f2, l, k, t, n)
    <3>1. CASE NamedIn(f, k)
      <4>1. PICK l \in Pid : \E n \in PartyStarts(f, l, k) :
              k \in n.participants /\ Held(qs, f, l, k, t, n)
        BY <2>1, <3>1 DEF Leading, HeldBack
      <4>2. l # p
        BY <1>4, <4>1
      <4> QED
        BY <1>6, <2>2, <4>1, <4>2
    <3>2. CASE ~NamedIn(f, k)
      <4>1. k \in m.participants
        BY <1>6, <2>6, <3>2 DEF NamedIn
      <4> QED
        BY <1>6, <2>1, <2>4, <3>2, <4>1
    <3> QED
      BY <3>1, <3>2
  <2> QED
    BY <2>5, <2>6
<1>18. Forgotten(qs2, f2)
  BY <1>6, <1>7 DEF Leading, Forgotten, Joins, OnlyAt, Remove, PartyStarts
<1> QED
  BY <1>9, <1>10, <1>11, <1>12, <1>13, <1>14, <1>15, <1>16, <1>17, <1>18 DEF Leading
-----------------------------------------------------------------------------
\* The events that take no message.

\* A waiting process with all replies keeps the invariant when it becomes
\* queued.
LEMMA QueuedStage ==
  ASSUME NEW st, NEW qs, NEW pd, NEW rp, NEW f, NEW ck,
         Typed(st, qs, pd, rp, f, ck), Leading(st, qs, pd, rp, f, ck),
         NEW p \in Pid, st[p] = "waiting", rp[p] = Pid,
         NEW st2, OnlyAt(p, st, st2), st2[p] = "queued"
  PROVE  Leading(st2, qs, pd, rp, f, ck)
<1>1. Exchange(st2, rp, f)
  BY DEF Leading, Exchange, OnlyAt
<1>2. Own(st2, qs, pd)
  BY DEF Leading, Own, OnlyAt
<1>3. Complete(st2, rp)
  BY DEF Leading, Complete, OnlyAt
<1>4. Announcing(st2, f)
  <2>1. \A a \in Pid : st[a] = "inParty" => st2[a] = "inParty"
    BY DEF OnlyAt
  <2>2. \A l, k \in Pid : \A m \in PartyStarts(f, l, k) : m.participants \subseteq Pid
    BY DEF PartyStarts, Typed, Message
  <2> QED
    BY <2>1, <2>2 DEF Leading, Announcing
<1> QED
  BY <1>1, <1>2, <1>3, <1>4 DEF Leading

\* Nothing but the clocks changes.
LEMMA LaterStage ==
  ASSUME NEW st, NEW qs, NEW pd, NEW rp, NEW f, NEW ck,
         Typed(st, qs, pd, rp, f, ck), Leading(st, qs, pd, rp, f, ck),
         NEW ck2 \in [Pid -> Nat], \A a \in Pid : ck[a] <= ck2[a]
  PROVE  Leading(st, qs, pd, rp, f, ck2)
<1>1. Fenced(pd, rp, f, ck2)
  <2> SUFFICES ASSUME NEW a \in Pid, NEW b \in rp[a] \ {a}, NEW t \in pd[a]
               PROVE  t.ts <= ck2[b]
    BY DEF Leading, Fenced
  <2>1. b \in Pid /\ t.ts \in Nat
    BY DEF Typed, Ticket
  <2> QED
    BY <2>1 DEF Leading, Fenced, Typed
<1> QED
  BY <1>1 DEF Leading

\* An idle process keeps the invariant when it asks for a party with a ticket
\* younger than its clock.
LEMMA WantStage ==
  ASSUME NEW st, NEW qs, NEW pd, NEW rp, NEW f, NEW ck,
         Typed(st, qs, pd, rp, f, ck), Leading(st, qs, pd, rp, f, ck),
         NEW p \in Pid, st[p] = "idle",
         NEW t \in Ticket, t.pid = p, ck[p] < t.ts,
         NEW m \in Message, m.type = "Request", m.request = t,
         NEW st2, NEW qs2, NEW pd2, NEW rp2, NEW f2, NEW ck2,
         Typed(st2, qs2, pd2, rp2, f2, ck2),
         OnlyAt(p, st, st2), st2[p] = "waiting",
         OnlyAt(p, qs, qs2), qs2[p] = Insert(qs[p], t),
         OnlyAt(p, pd, pd2), pd2[p] = {t},
         OnlyAt(p, rp, rp2), rp2[p] = {p},
         SentToAll(f, p, m, f2),
         \A a \in Pid : ck[a] <= ck2[a]
  PROVE  Leading(st2, qs2, pd2, rp2, f2, ck2)
<1>1. SameReplies(f, f2) /\ SamePartyStarts(f, f2)
  <2>1. m.type # "Reply" /\ m.type # "PartyStart"
    OBVIOUS
  <2> QED
    BY <2>1, SendsOther
<1>2. \A a, b \in Pid : a # p => Requests(f2, a, b) = Requests(f, a, b)
  BY DEF SentToAll, Requests
<1>3. \A b \in Pid \ {p} : Requests(f, p, b) = {} /\ Replies(f, b, p) = {}
  BY DEF Leading, Exchange
<1>4. \A b \in Pid \ {p} : Requests(f2, p, b) = {m}
  <2> SUFFICES ASSUME NEW b \in Pid \ {p} PROVE Requests(f2, p, b) = {m}
    OBVIOUS
  <2>1. f2[p][b] = f[p][b] \cup {m} /\ Requests(f, p, b) = {}
    BY <1>3 DEF SentToAll
  <2> QED
    BY <2>1 DEF Requests
<1>5. Requests(f2, p, p) = {} /\ Requests(f, p, p) = {} /\ Replies(f, p, p) = {}
  BY DEF Typed, Requests, Replies
<1>6. \A r \in Pid : PartyStarts(f, p, r) = {}
  BY DEF Leading, Announcing
<1>7. \A a \in Pid : NamedIn(f, a) <=> NamedIn(f2, a)
  <2> SUFFICES ASSUME NEW a \in Pid PROVE NamedIn(f, a) <=> NamedIn(f2, a)
    OBVIOUS
  <2>1. \A l \in Pid : PartyStarts(f2, l, a) = PartyStarts(f, l, a)
    BY <1>1 DEF SamePartyStarts
  <2> QED
    BY <2>1 DEF NamedIn
<1>8. \A a, b \in Pid : f[a][b] \subseteq f2[a][b]
  <2> SUFFICES ASSUME NEW a \in Pid, NEW b \in Pid PROVE f[a][b] \subseteq f2[a][b]
    OBVIOUS
  <2>1. f2[a][b] = f[a][b] \/ f2[a][b] = f[a][b] \cup {m}
    BY DEF SentToAll
  <2> QED
    BY <2>1
<1>9. Exchange(st2, rp2, f2)
  <2> SUFFICES ASSUME NEW a \in Pid, NEW b \in Pid \ {a}
      PROVE
      /\ \A n, n2 \in Requests(f2, a, b) : n = n2
      /\ \A n, n2 \in Replies(f2, b, a) : n = n2
      /\ Requests(f2, a, b) = {} \/ Replies(f2, b, a) = {}
      /\ st2[a] = "idle" \/ b \in rp2[a] =>
           Requests(f2, a, b) = {} /\ Replies(f2, b, a) = {}
      /\ st2[a] = "waiting" =>
           b \in rp2[a] \/ Requests(f2, a, b) # {} \/ Replies(f2, b, a) # {}
    BY DEF Exchange
  <2>1. CASE a = p
    BY <1>1, <1>3, <1>4, <2>1 DEF SameReplies
  <2>2. CASE a # p
    BY <1>1, <1>2, <2>2 DEF Leading, Exchange, OnlyAt, SameReplies
  <2> QED
    BY <2>1, <2>2
<1>10. Current(pd2, f2)
  <2> SUFFICES ASSUME NEW a \in Pid, NEW b \in Pid, NEW u \in pd2[a]
      PROVE  /\ \A n \in Requests(f2, a, b) : n.request = u
             /\ \A n \in Replies(f2, b, a) : n.request = u
    BY DEF Current
  <2>1. CASE a = p
    BY <1>1, <1>3, <1>4, <1>5, <2>1 DEF SameReplies
  <2>2. CASE a # p
    BY <1>1, <1>2, <2>2 DEF Leading, Current, OnlyAt, SameReplies
  <2> QED
    BY <2>1, <2>2
<1>11. Own(st2, qs2, pd2)
  BY DEF Leading, Own, OnlyAt, Insert
<1>12. Complete(st2, rp2)
  BY DEF Leading, Complete, OnlyAt
<1>13. Fenced(pd2, rp2, f2, ck2)
  <2> SUFFICES ASSUME NEW a \in Pid, NEW b \in rp2[a] \ {a}, NEW u \in pd2[a]
               PROVE  /\ u.ts <= ck2[b]
                      /\ \A n \in Requests(f2, b, a) : u.ts < n.request.ts
    BY DEF Fenced
  <2>1. a # p /\ b \in Pid /\ b \in rp[a] \ {a} /\ u \in pd[a]
    BY DEF OnlyAt, Typed
  <2>2. u.ts \in Nat /\ ck[b] \in Nat /\ ck2[b] \in Nat /\ ck[b] <= ck2[b]
    BY <2>1 DEF Typed, Ticket
  <2>3. u.ts <= ck[b] /\ \A n \in Requests(f, b, a) : u.ts < n.request.ts
    BY <2>1 DEF Leading, Fenced
  <2>4. CASE b = p
    <3>1. u.ts < t.ts
      BY <2>2, <2>3, <2>4 DEF Ticket
    <3> QED
      BY <1>4, <2>1, <2>2, <2>3, <2>4, <3>1
  <2>5. CASE b # p
    BY <1>2, <2>1, <2>2, <2>3, <2>5
  <2> QED
    BY <2>4, <2>5
<1>14. Announcing(st2, f2)
  <2> SUFFICES ASSUME NEW l \in Pid, NEW k \in Pid, NEW n \in PartyStarts(f, l, k)
      PROVE
      /\ l \in n.participants
      /\ st2[l] = "inParty"
      /\ \A r \in Pid : Requests(f2, l, r) = {}
      /\ \A r \in Pid : \A n2 \in PartyStarts(f, l, r) : n2 = n
      /\ \A r \in n.participants : st2[r] = "inParty" \/ n \in f2[l][r]
    BY <1>1 DEF Announcing, SamePartyStarts
  <2>1. l # p
    BY <1>6
  <2>2. n.participants \subseteq Pid
    BY DEF PartyStarts, Typed, Message
  <2> QED
    BY <1>2, <1>8, <2>1, <2>2 DEF Leading, Announcing, OnlyAt
<1>15. Exclusive(f2)
  BY <1>1 DEF Leading, Exclusive, SamePartyStarts
<1>16. NothingLost(qs2, pd2, f2)
  <2> SUFFICES ASSUME NEW a \in Pid, NEW b \in Pid, NEW u \in pd2[a],
                      ~NamedIn(f, a), Requests(f2, a, b) = {}
               PROVE  u \in qs2[b]
    BY <1>7 DEF NothingLost
  <2>1. CASE a = p
    BY <1>4, <2>1 DEF Insert
  <2>2. CASE a # p
    <3>1. u \in pd[a] /\ u.pid = a /\ u \in qs[b]
      BY <1>2, <2>2 DEF Leading, Own, NothingLost, OnlyAt
    <3> QED
      BY <2>2, <3>1 DEF OnlyAt, Insert
  <2> QED
    BY <2>1, <2>2
<1>17. HeldBack(qs2, pd2, f2)
  <2> SUFFICES ASSUME NEW k \in Pid, NEW u \in pd2[k]
      PROVE
      /\ \A l \in Pid : \A n \in PartyStarts(f, l, k) :
           k \notin n.participants => Held(qs2, f2, l, k, u, n) \/ NamedIn(f, k)
      /\ NamedIn(f, k) =>
           \E l \in Pid : \E n \in PartyStarts(f, l, k) :
             k \in n.participants /\ Held(qs2, f2, l, k, u, n)
    BY <1>1, <1>7 DEF HeldBack, SamePartyStarts
  <2>1. CASE k = p
    <3>1. \A l \in Pid : \A n \in PartyStarts(f, l, k) : Held(qs2, f2, l, k, u, n)
      BY <1>4, <1>6, <2>1 DEF Held
    <3> QED
      BY <3>1 DEF NamedIn
  <2>2. CASE k # p
    <3>1. ASSUME NEW l \in Pid, NEW n, Held(qs, f, l, k, u, n)
          PROVE  Held(qs2, f2, l, k, u, n)
      BY <1>1, <1>2, <2>2, <3>1 DEF Held, SameReplies, OnlyAt
    <3>2. u \in pd[k]
      BY <2>2 DEF OnlyAt
    <3> QED
      BY <3>1, <3>2 DEF Leading, HeldBack
  <2> QED
    BY <2>1, <2>2
<1>18. Forgotten(qs2, f2)
  <2> SUFFICES ASSUME NEW l \in Pid, NEW k \in Pid, NEW r \in Pid,
                      NEW n \in PartyStarts(f, l, k), n \notin f2[l][r],
                      NEW u \in qs2[r]
               PROVE  u.pid # l
    BY <1>1 DEF Forgotten, SamePartyStarts
  <2>1. l # p
    BY <1>6
  <2>2. n \notin f[l][r]
    BY <1>8
  <2>3. u = t \/ u \in qs[r]
    BY DEF OnlyAt, Insert
  <2> QED
    BY <2>1, <2>2, <2>3 DEF Leading, Forgotten
<1> QED
  BY <1>9, <1>10, <1>11, <1>12, <1>13, <1>14, <1>15, <1>16, <1>17, <1>18 DEF Leading

\* No message is about the request of p or makes p a member of a party.
SettledIn(f, p) ==
  \A a, b \in Pid :
    /\ Requests(f, p, b) = {}
    /\ Replies(f, a, p) = {}
    /\ \A m \in PartyStarts(f, a, b) : p \notin m.participants

\* Leaving a party keeps the invariant, when the traffic about it is over.
LEMMA ReleaseStage ==
  ASSUME NEW st, NEW qs, NEW pd, NEW rp, NEW f, NEW ck,
         Typed(st, qs, pd, rp, f, ck), Leading(st, qs, pd, rp, f, ck),
         NEW p \in Pid, st[p] = "inParty", SettledIn(f, p),
         NEW st2, NEW pd2, NEW rp2,
         OnlyAt(p, st, st2), st2[p] = "idle",
         OnlyAt(p, pd, pd2), pd2[p] = {},
         OnlyAt(p, rp, rp2), rp2[p] = {}
  PROVE  Leading(st2, qs, pd2, rp2, f, ck)
<1>1. \A a \in Pid : pd2[a] \subseteq pd[a] /\ rp2[a] \subseteq rp[a]
  BY DEF OnlyAt
<1>2. Exchange(st2, rp2, f)
  BY DEF Leading, Exchange, OnlyAt, SettledIn
<1>3. Current(pd2, f)
  BY <1>1 DEF Leading, Current
<1>4. Own(st2, qs, pd2)
  BY DEF Leading, Own, OnlyAt
<1>5. Complete(st2, rp2)
  BY DEF Leading, Complete, OnlyAt
<1>6. Fenced(pd2, rp2, f, ck)
  BY <1>1 DEF Leading, Fenced
<1>7. Announcing(st2, f)
  <2>1. \A l, k \in Pid : \A m \in PartyStarts(f, l, k) :
          p \notin m.participants /\ m.participants \subseteq Pid
    BY DEF SettledIn, PartyStarts, Typed, Message
  <2> QED
    BY <2>1 DEF Leading, Announcing, OnlyAt
<1>8. NothingLost(qs, pd2, f)
  BY <1>1 DEF Leading, NothingLost
<1>9. HeldBack(qs, pd2, f)
  BY <1>1 DEF Leading, HeldBack
<1> QED
  BY <1>2, <1>3, <1>4, <1>5, <1>6, <1>7, <1>8, <1>9 DEF Leading
-----------------------------------------------------------------------------
\* Taking a message.

\* To take a message changes only the messages of its type.
LEMMA TakesOther ==
  ASSUME NEW f, NEW q, NEW p, NEW m, NEW g, TakenFrom(f, q, p, m, g)
  PROVE  /\ m.type # "Request" => SameRequests(f, g)
         /\ m.type # "Reply" => SameReplies(f, g)
         /\ m.type # "PartyStart" => SamePartyStarts(f, g)
<1> SUFFICES ASSUME NEW a \in Pid, NEW b \in Pid
    PROVE  /\ m.type # "Request" => Requests(g, a, b) = Requests(f, a, b)
           /\ m.type # "Reply" => Replies(g, a, b) = Replies(f, a, b)
           /\ m.type # "PartyStart" => PartyStarts(g, a, b) = PartyStarts(f, a, b)
  BY DEF SameRequests, SameReplies, SamePartyStarts
<1>1. g[a][b] = f[a][b] \/ g[a][b] = f[a][b] \ {m}
  BY DEF TakenFrom
<1> QED
  BY <1>1 DEF Requests, Replies, PartyStarts

\* A process takes a reply, the oldest message of its channel, and counts it if
\* it is waiting.
LEMMA ReplyStage ==
  ASSUME NEW st, NEW qs, NEW pd, NEW rp, NEW f, NEW ck,
         Typed(st, qs, pd, rp, f, ck), Leading(st, qs, pd, rp, f, ck),
         NEW p \in Pid, NEW q \in Pid \ {p},
         NEW m \in f[q][p], m.type = "Reply",
         m.request.ts < m.sender.ts, m.sender.ts <= ck[q],
         \A n \in f[q][p] \ {m} : m.sender.ts < Stamp(n),
         NEW rp2 \in [Pid -> SUBSET Pid], OnlyAt(p, rp, rp2),
         rp2[p] = IF st[p] = "waiting" THEN rp[p] \cup {q} ELSE rp[p],
         NEW f2, TakenFrom(f, q, p, m, f2)
  PROVE  Leading(st, qs, pd, rp2, f2, ck)
<1>1. SameRequests(f, f2) /\ SamePartyStarts(f, f2)
  <2>1. m.type # "Request" /\ m.type # "PartyStart"
    OBVIOUS
  <2> QED
    BY <2>1, TakesOther
<1>2. /\ \A a, b \in Pid : ~(a = q /\ b = p) => Replies(f2, a, b) = Replies(f, a, b)
      /\ Replies(f, q, p) = {m} /\ Replies(f2, q, p) = {}
  <2>1. \A a, b \in Pid : ~(a = q /\ b = p) => f2[a][b] = f[a][b]
    BY DEF TakenFrom
  <2>2. f2[q][p] = f[q][p] \ {m}
    BY DEF TakenFrom
  <2>3. m \in Replies(f, q, p) /\ \A n \in Replies(f, q, p) : n = m
    BY DEF Replies, Leading, Exchange
  <2> QED
    BY <2>1, <2>2, <2>3 DEF Replies
<1>3. /\ st[p] # "idle" /\ q \notin rp[p] /\ st[p] # "queued"
      /\ Requests(f, p, q) = {}
  BY <1>2 DEF Leading, Exchange, Complete
<1>4. \A a \in Pid : NamedIn(f, a) <=> NamedIn(f2, a)
  BY <1>1 DEF NamedIn, SamePartyStarts
<1>5. Exchange(st, rp2, f2)
  <2> SUFFICES ASSUME NEW a \in Pid, NEW b \in Pid \ {a}
      PROVE
      /\ \A n, n2 \in Requests(f, a, b) : n = n2
      /\ \A n, n2 \in Replies(f2, b, a) : n = n2
      /\ Requests(f, a, b) = {} \/ Replies(f2, b, a) = {}
      /\ st[a] = "idle" \/ b \in rp2[a] =>
           Requests(f, a, b) = {} /\ Replies(f2, b, a) = {}
      /\ st[a] = "waiting" =>
           b \in rp2[a] \/ Requests(f, a, b) # {} \/ Replies(f2, b, a) # {}
    BY <1>1 DEF Exchange, SameRequests
  <2>1. CASE a = p /\ b = q
    BY <1>2, <1>3, <2>1
  <2>2. CASE ~(a = p /\ b = q)
    <3>1. Replies(f2, b, a) = Replies(f, b, a)
      BY <1>2, <2>2
    <3>2. (b \in rp2[a]) <=> (b \in rp[a])
      BY <2>2 DEF OnlyAt
    <3> QED
      BY <3>1, <3>2 DEF Leading, Exchange
  <2> QED
    BY <2>1, <2>2
<1>6. Current(pd, f2)
  BY <1>1, <1>2 DEF Leading, Current, SameRequests
<1>7. Complete(st, rp2)
  BY <1>3 DEF Leading, Complete, OnlyAt
<1>8. Fenced(pd, rp2, f2, ck)
  <2> SUFFICES ASSUME NEW a \in Pid, NEW b \in rp2[a] \ {a}, NEW t \in pd[a]
               PROVE  /\ t.ts <= ck[b]
                      /\ \A n \in Requests(f, b, a) : t.ts < n.request.ts
    BY <1>1 DEF Fenced, SameRequests
  <2>1. CASE b \in rp[a]
    BY <2>1 DEF Leading, Fenced
  <2>2. CASE b \notin rp[a]
    <3>1. a = p /\ b = q
      BY <2>2 DEF OnlyAt
    <3>2. m.request = t
      BY <1>2, <3>1 DEF Leading, Current
    <3>3. t.ts \in Nat /\ m.sender.ts \in Nat /\ ck[q] \in Nat
      BY DEF Typed, Ticket, Message
    <3>4. t.ts < m.sender.ts /\ t.ts <= ck[q]
      BY <3>2, <3>3
    <3>5. ASSUME NEW n \in Requests(f, q, p)
          PROVE  t.ts < n.request.ts
      <4>1. n # m /\ n \in f[q][p] /\ Stamp(n) = n.request.ts /\ n.request.ts \in Nat
        BY DEF Requests, Stamp, Typed, Message, Ticket
      <4> QED
        BY <3>3, <3>4, <4>1
    <3> QED
      BY <3>1, <3>4, <3>5
  <2> QED
    BY <2>1, <2>2
<1>9. Announcing(st, f2)
  <2>1. \A a, b \in Pid : \A n \in PartyStarts(f, a, b) : n \in f2[a][b]
    BY <1>1 DEF SamePartyStarts, PartyStarts
  <2>2. \A l, k, r \in Pid : \A n \in PartyStarts(f, l, k) :
          n \in f[l][r] => n \in f2[l][r]
    BY <2>1 DEF PartyStarts
  <2>3. \A l, k \in Pid : \A n \in PartyStarts(f, l, k) : n.participants \subseteq Pid
    BY DEF PartyStarts, Typed, Message
  <2> QED
    BY <1>1, <2>2, <2>3 DEF Leading, Announcing, SameRequests, SamePartyStarts
<1>10. Exclusive(f2)
  BY <1>1 DEF Leading, Exclusive, SamePartyStarts
<1>11. NothingLost(qs, pd, f2)
  BY <1>1, <1>4 DEF Leading, NothingLost, SameRequests
<1>12. HeldBack(qs, pd, f2)
  <2>1. ASSUME NEW l \in Pid, NEW k \in Pid, NEW t, NEW n \in PartyStarts(f, l, k),
               Held(qs, f, l, k, t, n)
        PROVE  Held(qs, f2, l, k, t, n)
    <3>1. CASE l = q /\ k = p
      <4>1. n # m /\ n \in f[q][p] /\ Stamp(n) = n.sender.ts
        BY <3>1 DEF PartyStarts, Stamp
      <4>2. n.sender.ts \in Nat /\ m.sender.ts \in Nat /\ m.sender.ts < n.sender.ts
        BY <4>1 DEF Typed, Message, Ticket, PartyStarts
      <4> QED
        BY <1>1, <1>2, <2>1, <3>1, <4>2 DEF Held, SameRequests
    <3>2. CASE ~(l = q /\ k = p)
      BY <1>1, <1>2, <2>1, <3>2 DEF Held, SameRequests
    <3> QED
      BY <3>1, <3>2
  <2> QED
    BY <1>1, <1>4, <2>1 DEF Leading, HeldBack, SamePartyStarts
<1>13. Forgotten(qs, f2)
  BY <1>1 DEF Leading, Forgotten, SamePartyStarts, PartyStarts
<1> QED
  BY <1>5, <1>6, <1>7, <1>8, <1>9, <1>10, <1>11, <1>12, <1>13 DEF Leading

\* p takes m from q and answers with r.
Answers(f, p, q, m, r, g) ==
  \A a, b \in Pid :
    g[a][b] = IF a = q /\ b = p THEN f[a][b] \ {m}
              ELSE IF a = p /\ b = q THEN f[a][b] \cup {r}
              ELSE f[a][b]

\* A process takes a request and answers it, with a time later than those of
\* all it has sent.
LEMMA RequestStage ==
  ASSUME NEW st, NEW qs, NEW pd, NEW rp, NEW f, NEW ck,
         Typed(st, qs, pd, rp, f, ck), Leading(st, qs, pd, rp, f, ck),
         NEW p \in Pid, NEW q \in Pid \ {p},
         NEW m \in f[q][p], m.type = "Request", m.request.pid = q,
         NEW r \in Message, r.type = "Reply", r.request = m.request,
         \A n \in f[p][q] : Stamp(n) < r.sender.ts,
         NEW qs2, OnlyAt(p, qs, qs2), qs2[p] = Insert(qs[p], m.request),
         NEW f2, Answers(f, p, q, m, r, f2)
  PROVE  Leading(st, qs2, pd, rp, f2, ck)
<1>1. /\ \A a, b \in Pid : ~(a = q /\ b = p) /\ ~(a = p /\ b = q) => f2[a][b] = f[a][b]
      /\ f2[q][p] = f[q][p] \ {m}
      /\ f2[p][q] = f[p][q] \cup {r}
  BY DEF Answers
<1>2. SamePartyStarts(f, f2)
  <2>1. m.type # "PartyStart" /\ r.type # "PartyStart"
    OBVIOUS
  <2> SUFFICES ASSUME NEW a \in Pid, NEW b \in Pid
               PROVE  PartyStarts(f2, a, b) = PartyStarts(f, a, b)
    BY DEF SamePartyStarts
  <2>2. CASE f2[a][b] = f[a][b]
    BY <2>2 DEF PartyStarts
  <2>3. CASE f2[a][b] = f[a][b] \ {m}
    BY <2>1, <2>3 DEF PartyStarts
  <2>4. CASE f2[a][b] = f[a][b] \cup {r}
    BY <2>1, <2>4 DEF PartyStarts
  <2> QED
    BY <1>1, <2>2, <2>3, <2>4
<1>3. m \in Requests(f, q, p)
  BY DEF Requests
<1>4. st[q] # "idle" /\ p \notin rp[q] /\ Replies(f, p, q) = {}
  BY <1>3 DEF Leading, Exchange
<1>5. \A n \in Requests(f, q, p) : n = m
  BY <1>3 DEF Leading, Exchange
<1>6. /\ \A a, b \in Pid : ~(a = q /\ b = p) => Requests(f2, a, b) = Requests(f, a, b)
      /\ Requests(f2, q, p) = {}
  <2>1. Requests(f2, p, q) = Requests(f, p, q)
    BY <1>1 DEF Requests
  <2>2. Requests(f2, q, p) = {}
    BY <1>1, <1>5 DEF Requests
  <2> QED
    BY <1>1, <2>1, <2>2 DEF Requests
<1>7. /\ \A a, b \in Pid : ~(a = p /\ b = q) => Replies(f2, a, b) = Replies(f, a, b)
      /\ Replies(f2, p, q) = {r}
  <2>1. Replies(f2, q, p) = Replies(f, q, p)
    BY <1>1 DEF Replies
  <2>2. Replies(f2, p, q) = {r}
    BY <1>1, <1>4 DEF Replies
  <2> QED
    BY <1>1, <2>1, <2>2 DEF Replies
<1>8. \A a \in Pid : NamedIn(f, a) <=> NamedIn(f2, a)
  BY <1>2 DEF NamedIn, SamePartyStarts
<1>9. \A b \in Pid : PartyStarts(f, q, b) = {}
  BY <1>3 DEF Leading, Announcing
<1>10. \A t \in pd[q] : t = m.request
  BY <1>3 DEF Leading, Current
<1>11. \A a, b \in Pid : \A n \in PartyStarts(f, a, b) : n.participants \subseteq Pid
  BY DEF PartyStarts, Typed, Message
<1>12. Exchange(st, rp, f2)
  <2> SUFFICES ASSUME NEW a \in Pid, NEW b \in Pid \ {a}
      PROVE
      /\ \A n, n2 \in Requests(f2, a, b) : n = n2
      /\ \A n, n2 \in Replies(f2, b, a) : n = n2
      /\ Requests(f2, a, b) = {} \/ Replies(f2, b, a) = {}
      /\ st[a] = "idle" \/ b \in rp[a] =>
           Requests(f2, a, b) = {} /\ Replies(f2, b, a) = {}
      /\ st[a] = "waiting" =>
           b \in rp[a] \/ Requests(f2, a, b) # {} \/ Replies(f2, b, a) # {}
    BY DEF Exchange
  <2>1. CASE a = q /\ b = p
    BY <1>4, <1>6, <1>7, <2>1
  <2>2. CASE ~(a = q /\ b = p)
    <3>1. Requests(f2, a, b) = Requests(f, a, b) /\ Replies(f2, b, a) = Replies(f, b, a)
      BY <1>6, <1>7, <2>2
    <3> QED
      BY <3>1 DEF Leading, Exchange
  <2> QED
    BY <2>1, <2>2
<1>13. Current(pd, f2)
  <2> SUFFICES ASSUME NEW a \in Pid, NEW b \in Pid, NEW t \in pd[a]
      PROVE  /\ \A n \in Requests(f2, a, b) : n.request = t
             /\ \A n \in Replies(f2, b, a) : n.request = t
    BY DEF Current
  <2>1. /\ \A n \in Requests(f, a, b) : n.request = t
        /\ \A n \in Replies(f, b, a) : n.request = t
    BY DEF Leading, Current
  <2> QED
    BY <1>6, <1>7, <1>10, <2>1
<1>14. Own(st, qs2, pd)
  BY DEF Leading, Own, OnlyAt, Insert
<1>15. Fenced(pd, rp, f2, ck)
  <2> SUFFICES ASSUME NEW a \in Pid, NEW b \in rp[a] \ {a}, NEW t \in pd[a]
               PROVE  /\ t.ts <= ck[b]
                      /\ \A n \in Requests(f2, b, a) : t.ts < n.request.ts
    BY DEF Fenced
  <2>1. b \in Pid
    BY DEF Typed
  <2>2. \A n \in Requests(f2, b, a) : n \in Requests(f, b, a)
    BY <1>6, <2>1
  <2> QED
    BY <2>2 DEF Leading, Fenced
<1>16. Announcing(st, f2)
  <2>1. \A a, b \in Pid : Requests(f, a, b) = {} => Requests(f2, a, b) = {}
    BY <1>6
  <2>2. \A a, b \in Pid : PartyStarts(f2, a, b) = PartyStarts(f, a, b)
    BY <1>2 DEF SamePartyStarts
  <2>3. \A l, k, b \in Pid : \A n \in PartyStarts(f, l, k) :
          n \in f[l][b] => n \in f2[l][b]
    <3>1. \A l, b \in Pid : \A n \in PartyStarts(f, l, b) : n \in f2[l][b]
      BY <2>2 DEF PartyStarts
    <3> QED
      BY <3>1 DEF PartyStarts
  <2> QED
    BY <1>11, <2>1, <2>2, <2>3 DEF Leading, Announcing
<1>17. Exclusive(f2)
  BY <1>2 DEF Leading, Exclusive, SamePartyStarts
<1>18. NothingLost(qs2, pd, f2)
  <2> SUFFICES ASSUME NEW a \in Pid, NEW b \in Pid, NEW t \in pd[a],
                      ~NamedIn(f, a), Requests(f2, a, b) = {}
               PROVE  t \in qs2[b]
    BY <1>8 DEF NothingLost
  <2>1. CASE a = q /\ b = p
    BY <1>10, <2>1 DEF Insert
  <2>2. CASE ~(a = q /\ b = p)
    <3>1. t \in qs[b] /\ t.pid = a
      BY <1>6, <2>2 DEF Leading, NothingLost, Own
    <3> QED
      BY <2>2, <3>1 DEF OnlyAt, Insert
  <2> QED
    BY <2>1, <2>2
<1>19. HeldBack(qs2, pd, f2)
  <2>1. ASSUME NEW l \in Pid, NEW k \in Pid, NEW t, NEW n \in PartyStarts(f, l, k),
               Held(qs, f, l, k, t, n)
        PROVE  Held(qs2, f2, l, k, t, n)
    <3>1. l # q
      BY <1>9
    <3>2. CASE \E u \in qs[k] : u.pid = l /\ Before(u, t)
      BY <3>1, <3>2 DEF Held, OnlyAt, Insert
    <3>3. CASE Requests(f, k, l) # {}
      <4>1. CASE k = q /\ l = p
        <5>1. n \in f[p][q] /\ Stamp(n) = n.sender.ts
          BY <4>1 DEF PartyStarts, Stamp
        <5> QED
          BY <1>7, <4>1, <5>1 DEF Held
      <4>2. CASE ~(k = q /\ l = p)
        BY <1>6, <3>3, <4>2 DEF Held
      <4> QED
        BY <4>1, <4>2
    <3>4. CASE \E n2 \in Replies(f, l, k) : n.sender.ts < n2.sender.ts
      <4>1. Replies(f, l, k) \subseteq Replies(f2, l, k)
        BY <1>4, <1>7
      <4> QED
        BY <3>4, <4>1 DEF Held
    <3> QED
      BY <2>1, <3>2, <3>3, <3>4 DEF Held
  <2> QED
    BY <1>2, <1>8, <2>1 DEF Leading, HeldBack, SamePartyStarts
<1>20. Forgotten(qs2, f2)
  <2> SUFFICES ASSUME NEW l \in Pid, NEW k \in Pid, NEW b \in Pid,
                      NEW n \in PartyStarts(f, l, k), n \notin f2[l][b],
                      NEW u \in qs2[b]
               PROVE  u.pid # l
    BY <1>2 DEF Forgotten, SamePartyStarts
  <2>1. l # q
    BY <1>9
  <2>2. n \notin f[l][b]
    BY <1>2 DEF SamePartyStarts, PartyStarts
  <2>3. u = m.request \/ u \in qs[b]
    BY DEF OnlyAt, Insert
  <2> QED
    BY <2>1, <2>2, <2>3 DEF Leading, Forgotten
<1> QED
  BY <1>12, <1>13, <1>14, <1>15, <1>16, <1>17, <1>18, <1>19, <1>20 DEF Leading

\* What a process forgets when it takes a PartyStart.
LEMMA ForgetStage ==
  ASSUME NEW st, NEW qs, NEW pd, NEW rp, NEW f, NEW ck,
         Typed(st, qs, pd, rp, f, ck), Leading(st, qs, pd, rp, f, ck),
         NEW p \in Pid, NEW q \in Pid \ {p},
         NEW m \in f[q][p], m.type = "PartyStart",
         NEW qs2, OnlyAt(p, qs, qs2), qs2[p] = Remove(qs[p], m.participants),
         NEW f2, TakenFrom(f, q, p, m, f2)
  PROVE  /\ SameRequests(f, f2) /\ SameReplies(f, f2)
         /\ \A a, b \in Pid : PartyStarts(f2, a, b) =
              IF a = q /\ b = p THEN {} ELSE PartyStarts(f, a, b)
         /\ \A a \in Pid \ {p} : NamedIn(f, a) => NamedIn(f2, a)
         /\ \A a \in Pid : NamedIn(f2, a) => NamedIn(f, a)
         /\ Exclusive(f2)
         /\ Forgotten(qs2, f2)
         /\ \A l, k, b \in Pid : \A n \in PartyStarts(f2, l, k) :
              n \in f[l][b] => n \in f2[l][b] \/ (b = p /\ n = m)
         /\ \A a, b \in Pid : \A t \in pd[a] :
              a # p => t \in qs2[b] \/ Requests(f2, a, b) # {} \/ NamedIn(f2, a)
<1>1. SameRequests(f, f2) /\ SameReplies(f, f2)
  <2>1. m.type # "Request" /\ m.type # "Reply"
    OBVIOUS
  <2> QED
    BY <2>1, TakesOther
<1>2. m \in PartyStarts(f, q, p) /\ \A n \in PartyStarts(f, q, p) : n = m
  BY DEF PartyStarts, Leading, Announcing
<1>3. ASSUME NEW a \in Pid, NEW b \in Pid
      PROVE  PartyStarts(f2, a, b) = IF a = q /\ b = p THEN {} ELSE PartyStarts(f, a, b)
  <2>1. CASE a = q /\ b = p
    BY <1>2, <2>1 DEF TakenFrom, PartyStarts
  <2>2. CASE ~(a = q /\ b = p)
    BY <2>2 DEF TakenFrom, PartyStarts
  <2> QED
    BY <2>1, <2>2
<1>4. /\ \A a \in Pid \ {p} : NamedIn(f, a) => NamedIn(f2, a)
      /\ \A a \in Pid : NamedIn(f2, a) => NamedIn(f, a)
  BY <1>3 DEF NamedIn
<1>5. Exclusive(f2)
  BY <1>3 DEF Leading, Exclusive
<1>6. \A l, k, b \in Pid : \A n \in PartyStarts(f2, l, k) :
        n \in f[l][b] => n \in f2[l][b] \/ (l = q /\ b = p /\ n = m)
  BY <1>3 DEF TakenFrom
<1>7. Forgotten(qs2, f2)
  <2> SUFFICES ASSUME NEW l \in Pid, NEW k \in Pid, NEW b \in Pid,
                      NEW n \in PartyStarts(f2, l, k), n \notin f2[l][b],
                      NEW u \in qs2[b]
               PROVE  u.pid # l
    BY DEF Forgotten
  <2>1. n \in PartyStarts(f, l, k)
    BY <1>3
  <2>2. CASE n \notin f[l][b]
    <3>1. u \in qs[b]
      BY DEF OnlyAt, Remove
    <3> QED
      BY <2>1, <2>2, <3>1 DEF Leading, Forgotten
  <2>3. CASE l = q /\ b = p /\ n = m
    <3>1. l \in m.participants
      BY <2>1, <2>3 DEF Leading, Announcing
    <3> QED
      BY <2>3, <3>1 DEF Remove
  <2> QED
    BY <1>6, <2>2, <2>3
<1>8. ASSUME NEW a \in Pid, NEW b \in Pid, NEW t \in pd[a], a # p
      PROVE  t \in qs2[b] \/ Requests(f2, a, b) # {} \/ NamedIn(f2, a)
  <2>1. t.pid = a /\ st[a] # "inParty"
    BY DEF Leading, Own
  <2>2. t \in qs[b] \/ Requests(f2, a, b) # {} \/ NamedIn(f2, a)
    BY <1>1, <1>4, <1>8 DEF Leading, NothingLost, SameRequests
  <2>3. CASE a \in m.participants
    <3>1. m \in f[q][a]
      BY <1>2, <2>1, <2>3 DEF Leading, Announcing
    <3>2. m \in PartyStarts(f, q, a)
      BY <3>1 DEF PartyStarts
    <3> QED
      BY <1>3, <1>8, <2>3, <3>2 DEF NamedIn
  <2>4. CASE a \notin m.participants
    BY <2>1, <2>2, <2>4 DEF OnlyAt, Remove
  <2> QED
    BY <2>3, <2>4
<1> QED
  BY <1>1, <1>3, <1>4, <1>5, <1>6, <1>7, <1>8

\* A process takes a PartyStart that does not name it.
LEMMA PartyStartStage ==
  ASSUME NEW st, NEW qs, NEW pd, NEW rp, NEW f, NEW ck,
         Typed(st, qs, pd, rp, f, ck), Leading(st, qs, pd, rp, f, ck),
         NEW p \in Pid, NEW q \in Pid \ {p},
         NEW m \in f[q][p], m.type = "PartyStart", p \notin m.participants,
         NEW qs2, OnlyAt(p, qs, qs2), qs2[p] = Remove(qs[p], m.participants),
         NEW f2, TakenFrom(f, q, p, m, f2)
  PROVE  Leading(st, qs2, pd, rp, f2, ck)
<1>1. /\ SameRequests(f, f2) /\ SameReplies(f, f2)
      /\ \A a, b \in Pid : PartyStarts(f2, a, b) =
           IF a = q /\ b = p THEN {} ELSE PartyStarts(f, a, b)
      /\ \A a \in Pid \ {p} : NamedIn(f, a) => NamedIn(f2, a)
      /\ \A a \in Pid : NamedIn(f2, a) => NamedIn(f, a)
      /\ Exclusive(f2) /\ Forgotten(qs2, f2)
      /\ \A l, k, b \in Pid : \A n \in PartyStarts(f2, l, k) :
           n \in f[l][b] => n \in f2[l][b] \/ (b = p /\ n = m)
      /\ \A a, b \in Pid : \A t \in pd[a] :
           a # p => t \in qs2[b] \/ Requests(f2, a, b) # {} \/ NamedIn(f2, a)
  BY ForgetStage
<1>2. NamedIn(f, p) => NamedIn(f2, p)
  <2> SUFFICES ASSUME NEW l \in Pid, NEW n \in PartyStarts(f, l, p), p \in n.participants
               PROVE  NamedIn(f2, p)
    BY DEF NamedIn
  <2>1. m \in PartyStarts(f, q, p) /\ n # m
    BY DEF PartyStarts
  <2>2. l # q
    BY <2>1 DEF Leading, Announcing
  <2> QED
    BY <1>1, <2>2 DEF NamedIn
<1>3. Exchange(st, rp, f2)
  BY <1>1 DEF Leading, Exchange, SameRequests, SameReplies
<1>4. Current(pd, f2)
  BY <1>1 DEF Leading, Current, SameRequests, SameReplies
<1>5. Own(st, qs2, pd)
  BY DEF Leading, Own, OnlyAt, Remove
<1>6. Fenced(pd, rp, f2, ck)
  <2>1. \A a \in Pid : rp[a] \subseteq Pid
    BY DEF Typed
  <2> QED
    BY <1>1, <2>1 DEF Leading, Fenced, SameRequests
<1>7. Announcing(st, f2)
  <2> SUFFICES ASSUME NEW l \in Pid, NEW k \in Pid, NEW n \in PartyStarts(f2, l, k)
      PROVE
      /\ l \in n.participants
      /\ st[l] = "inParty"
      /\ \A r \in Pid : Requests(f2, l, r) = {}
      /\ \A r \in Pid : \A n2 \in PartyStarts(f2, l, r) : n2 = n
      /\ \A r \in n.participants : st[r] = "inParty" \/ n \in f2[l][r]
    BY DEF Announcing
  <2>1. n \in PartyStarts(f, l, k) /\ n.participants \subseteq Pid
    <3>1. n \in PartyStarts(f, l, k)
      BY <1>1
    <3>2. n \in Message /\ n.type = "PartyStart"
      BY <3>1 DEF PartyStarts, Typed
    <3> QED
      BY <3>1, <3>2 DEF Message
  <2>2. \A r \in n.participants : st[r] = "inParty" \/ n \in f[l][r]
    BY <2>1 DEF Leading, Announcing
  <2>3. \A r \in n.participants : st[r] = "inParty" \/ n \in f2[l][r]
    BY <1>1, <2>1, <2>2
  <2> QED
    BY <1>1, <2>1, <2>3 DEF Leading, Announcing, SameRequests
<1>8. NothingLost(qs2, pd, f2)
  <2>1. ASSUME NEW b \in Pid, NEW t \in pd[p]
        PROVE  t \in qs2[b] \/ Requests(f2, p, b) # {} \/ NamedIn(f2, p)
    <3>1. t.pid = p
      BY DEF Leading, Own
    <3> QED
      BY <1>1, <1>2, <3>1 DEF Leading, NothingLost, SameRequests, OnlyAt, Remove
  <2> QED
    BY <1>1, <2>1 DEF NothingLost
<1>9. HeldBack(qs2, pd, f2)
  <2>1. ASSUME NEW l \in Pid, NEW k \in Pid, NEW t, NEW n \in PartyStarts(f2, l, k),
               Held(qs, f, l, k, t, n)
        PROVE  Held(qs2, f2, l, k, t, n)
    <3>1. k = p => l \notin m.participants
      <4>1. ASSUME k = p PROVE l # q
        BY <1>1, <4>1
      <4> QED
        BY <1>1, <4>1 DEF Leading, Exclusive, PartyStarts
    <3>2. ASSUME NEW u \in qs[k], u.pid = l PROVE u \in qs2[k]
      BY <3>1, <3>2 DEF OnlyAt, Remove
    <3> QED
      BY <1>1, <2>1, <3>2 DEF Held, SameRequests, SameReplies
  <2> SUFFICES ASSUME NEW k \in Pid, NEW t \in pd[k]
      PROVE
      /\ \A l \in Pid : \A n \in PartyStarts(f2, l, k) :
           k \notin n.participants => Held(qs2, f2, l, k, t, n) \/ NamedIn(f2, k)
      /\ NamedIn(f2, k) =>
           \E l \in Pid : \E n \in PartyStarts(f2, l, k) :
             k \in n.participants /\ Held(qs2, f2, l, k, t, n)
    BY DEF HeldBack
  <2>2. ASSUME NEW l \in Pid, NEW n \in PartyStarts(f2, l, k), k \notin n.participants
        PROVE  Held(qs2, f2, l, k, t, n) \/ NamedIn(f2, k)
    <3>1. n \in PartyStarts(f, l, k)
      BY <1>1
    <3> QED
      BY <1>1, <1>2, <2>1, <2>2, <3>1 DEF Leading, HeldBack
  <2>3. ASSUME NamedIn(f2, k)
        PROVE  \E l \in Pid : \E n \in PartyStarts(f2, l, k) :
                 k \in n.participants /\ Held(qs2, f2, l, k, t, n)
    <3>1. PICK l \in Pid : \E n \in PartyStarts(f, l, k) :
            k \in n.participants /\ Held(qs, f, l, k, t, n)
      BY <1>1, <2>3 DEF Leading, HeldBack
    <3>2. PICK n \in PartyStarts(f, l, k) :
            k \in n.participants /\ Held(qs, f, l, k, t, n)
      BY <3>1
    <3>3. ~(l = q /\ k = p)
      BY <3>2 DEF Leading, Announcing, PartyStarts
    <3> QED
      BY <1>1, <2>1, <3>2, <3>3
  <2> QED
    BY <2>2, <2>3
<1> QED
  BY <1>1, <1>3, <1>4, <1>5, <1>6, <1>7, <1>8, <1>9 DEF Leading

\* A process takes a PartyStart that names it and enters the party.
LEMMA MemberStage ==
  ASSUME NEW st, NEW qs, NEW pd, NEW rp, NEW f, NEW ck,
         Typed(st, qs, pd, rp, f, ck), Leading(st, qs, pd, rp, f, ck),
         NEW p \in Pid, NEW q \in Pid \ {p},
         NEW m \in f[q][p], m.type = "PartyStart", p \in m.participants,
         NEW st2, NEW qs2, NEW pd2, NEW rp2, NEW f2, NEW ck2,
         Joins(p, m.participants, st, qs, pd, rp, st2, qs2, pd2, rp2),
         TakenFrom(f, q, p, m, f2),
         ck2 \in [Pid -> Nat], \A a \in Pid : ck[a] <= ck2[a]
  PROVE  Leading(st2, qs2, pd2, rp2, f2, ck2)
<1>1. /\ SameRequests(f, f2) /\ SameReplies(f, f2)
      /\ \A a, b \in Pid : PartyStarts(f2, a, b) =
           IF a = q /\ b = p THEN {} ELSE PartyStarts(f, a, b)
      /\ \A a \in Pid \ {p} : NamedIn(f, a) => NamedIn(f2, a)
      /\ \A a \in Pid : NamedIn(f2, a) => NamedIn(f, a)
      /\ Exclusive(f2) /\ Forgotten(qs2, f2)
      /\ \A l, k, b \in Pid : \A n \in PartyStarts(f2, l, k) :
           n \in f[l][b] => n \in f2[l][b] \/ (b = p /\ n = m)
      /\ \A a, b \in Pid : \A t \in pd[a] :
           a # p => t \in qs2[b] \/ Requests(f2, a, b) # {} \/ NamedIn(f2, a)
  BY ForgetStage DEF Joins
<1>2. /\ \A a \in Pid : pd2[a] \subseteq pd[a] /\ rp2[a] \subseteq rp[a]
      /\ \A a \in Pid : rp2[a] \subseteq Pid
      /\ \A a \in Pid : \A t \in pd2[a] : a # p
  BY DEF Joins, OnlyAt, Typed
<1>3. Exchange(st2, rp2, f2)
  BY <1>1 DEF Leading, Exchange, SameRequests, SameReplies, Joins, OnlyAt
<1>4. Current(pd2, f2)
  BY <1>1, <1>2 DEF Leading, Current, SameRequests, SameReplies
<1>5. Own(st2, qs2, pd2)
  BY DEF Leading, Own, Joins, OnlyAt, Remove
<1>6. Complete(st2, rp2)
  BY DEF Leading, Complete, Joins, OnlyAt
<1>7. Fenced(pd2, rp2, f2, ck2)
  <2> SUFFICES ASSUME NEW a \in Pid, NEW b \in rp2[a] \ {a}, NEW t \in pd2[a]
               PROVE  /\ t.ts <= ck2[b]
                      /\ \A n \in Requests(f, b, a) : t.ts < n.request.ts
    BY <1>1, <1>2 DEF Fenced, SameRequests
  <2>1. b \in Pid /\ b \in rp[a] \ {a} /\ t \in pd[a]
    BY <1>2
  <2>2. t.ts \in Nat /\ ck[b] \in Nat /\ ck2[b] \in Nat /\ ck[b] <= ck2[b]
    BY <2>1 DEF Typed, Ticket
  <2> QED
    BY <2>1, <2>2 DEF Leading, Fenced
<1>8. Announcing(st2, f2)
  <2> SUFFICES ASSUME NEW l \in Pid, NEW k \in Pid, NEW n \in PartyStarts(f2, l, k)
      PROVE
      /\ l \in n.participants
      /\ st2[l] = "inParty"
      /\ \A r \in Pid : Requests(f2, l, r) = {}
      /\ \A r \in Pid : \A n2 \in PartyStarts(f2, l, r) : n2 = n
      /\ \A r \in n.participants : st2[r] = "inParty" \/ n \in f2[l][r]
    BY DEF Announcing
  <2>1. n \in PartyStarts(f, l, k) /\ n.participants \subseteq Pid
    <3>1. n \in PartyStarts(f, l, k)
      BY <1>1
    <3>2. n \in Message /\ n.type = "PartyStart"
      BY <3>1 DEF PartyStarts, Typed
    <3> QED
      BY <3>1, <3>2 DEF Message
  <2>2. \A a \in Pid : st[a] = "inParty" => st2[a] = "inParty"
    BY DEF Joins, OnlyAt
  <2>3. \A r \in n.participants : st[r] = "inParty" \/ n \in f[l][r]
    BY <2>1 DEF Leading, Announcing
  <2>4. \A r \in n.participants : st2[r] = "inParty" \/ n \in f2[l][r]
    BY <1>1, <2>1, <2>2, <2>3 DEF Joins
  <2> QED
    BY <1>1, <2>1, <2>2, <2>4 DEF Leading, Announcing, SameRequests
<1>9. NothingLost(qs2, pd2, f2)
  BY <1>1, <1>2 DEF NothingLost
<1>10. HeldBack(qs2, pd2, f2)
  <2> SUFFICES ASSUME NEW k \in Pid, NEW t \in pd2[k]
      PROVE
      /\ \A l \in Pid : \A n \in PartyStarts(f2, l, k) :
           k \notin n.participants => Held(qs2, f2, l, k, t, n) \/ NamedIn(f2, k)
      /\ NamedIn(f2, k) =>
           \E l \in Pid : \E n \in PartyStarts(f2, l, k) :
             k \in n.participants /\ Held(qs2, f2, l, k, t, n)
    BY DEF HeldBack
  <2>1. k # p /\ t \in pd[k] /\ qs2[k] = qs[k]
    BY <1>2 DEF Joins, OnlyAt
  <2>2. \A l \in Pid : PartyStarts(f2, l, k) = PartyStarts(f, l, k)
    BY <1>1, <2>1
  <2>3. \A l \in Pid : \A n : Held(qs, f, l, k, t, n) => Held(qs2, f2, l, k, t, n)
    BY <1>1, <2>1 DEF Held, SameRequests, SameReplies
  <2> QED
    BY <1>1, <2>1, <2>2, <2>3 DEF Leading, HeldBack
<1> QED
  BY <1>1, <1>3, <1>4, <1>5, <1>6, <1>7, <1>8, <1>9, <1>10 DEF Leading
=============================================================================
