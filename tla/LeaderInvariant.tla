-------------------------- MODULE LeaderInvariant ---------------------------
(***************************************************************************)
(* The inductive invariant behind the second group of properties of        *)
(* LamportQueueProperties: why, when a party outlasts the traffic about    *)
(* it, there is one leader at a time.  It is stated for any value of the   *)
(* variables, because a handler is proved correct in stages, between which *)
(* there is no state of the program: the message taken, then Recompute.    *)
(* Of a channel only the set of its messages matters; module               *)
(* LamportQueueProofs has shown that their stamps keep their order.        *)
(***************************************************************************)
EXTENDS LamportQueueProperties

\* f[a][b]: the messages on their way from a to b.
Flights(n) == [a \in Pid |-> [b \in Pid |-> Range(n[a][b])]]

Requests(f, a, b)    == {m \in f[a][b] : m.type = "Request"}
Replies(f, a, b)     == {m \in f[a][b] : m.type = "Reply"}
PartyStarts(f, a, b) == {m \in f[a][b] : m.type = "PartyStart"}

\* A PartyStart that makes k a member is on its way to k.
NamedIn(f, k) == \E l \in Pid : \E m \in PartyStarts(f, l, k) : k \in m.participants

\* Between a requester and each other process there is at most one message of
\* the current request: the request or the reply to it.  An idle process has
\* none, and a waiting one misses no reply that is not on its way.
Exchange(st, rp, f) ==
  \A a \in Pid : \A b \in Pid \ {a} :
    /\ \A m, n \in Requests(f, a, b) : m = n
    /\ \A m, n \in Replies(f, b, a) : m = n
    /\ Requests(f, a, b) = {} \/ Replies(f, b, a) = {}
    /\ st[a] = "idle" \/ b \in rp[a] =>
         Requests(f, a, b) = {} /\ Replies(f, b, a) = {}
    /\ st[a] = "waiting" =>
         b \in rp[a] \/ Requests(f, a, b) # {} \/ Replies(f, b, a) # {}

\* They are messages about the ticket that is pending.
Current(pd, f) ==
  \A a, b \in Pid : \A t \in pd[a] :
    /\ \A m \in Requests(f, a, b) : m.request = t
    /\ \A m \in Replies(f, b, a) : m.request = t

\* A process has one pending ticket while it waits for a party, the only one of
\* its own in its queue, and none otherwise.
Own(st, qs, pd) ==
  \A a \in Pid :
    /\ \A t \in qs[a] : t.pid = a <=> t \in pd[a]
    /\ pd[a] \subseteq qs[a]
    /\ \A t, u \in pd[a] : t = u
    /\ pd[a] # {} <=> st[a] \in {"waiting", "queued"}

\* A queued process has all replies.
Complete(st, rp) == \A a \in Pid : st[a] = "queued" => rp[a] = Pid

\* What a process that has replied sends from then on is younger than the
\* request it has replied to.
Fenced(pd, rp, f, ck) ==
  \A a \in Pid : \A b \in rp[a] \ {a} : \A t \in pd[a] :
    /\ t.ts <= ck[b]
    /\ \A m \in Requests(f, b, a) : t.ts < m.request.ts

\* While a PartyStart is under way its leader is a member, in its party, with
\* no request and no other PartyStart under way, and every member is in a party
\* or still has the PartyStart to come.
Announcing(st, f) ==
  \A l, k \in Pid : \A m \in PartyStarts(f, l, k) :
    /\ l \in m.participants
    /\ st[l] = "inParty"
    /\ \A r \in Pid : Requests(f, l, r) = {}
    /\ \A r \in Pid : \A n \in PartyStarts(f, l, r) : n = m
    /\ \A r \in m.participants : st[r] = "inParty" \/ m \in f[l][r]

\* No leader is a member of another's party.
Exclusive(f) ==
  \A l, k, l2, k2 \in Pid :
    \A m \in PartyStarts(f, l, k), n \in PartyStarts(f, l2, k2) :
      l # l2 => l2 \notin m.participants

\* NoLostRequest, ticket by ticket.
NothingLost(qs, pd, f) ==
  \A a, b \in Pid : \A t \in pd[a] :
    t \in qs[b] \/ Requests(f, a, b) # {} \/ NamedIn(f, a)

\* The PartyStart m from l keeps k, with ticket t, from starting a party before
\* it has taken m: k has an older ticket of l in its queue, which only m
\* removes, or misses a reply from l that comes after m.
Held(qs, f, l, k, t, m) ==
  \/ \E u \in qs[k] : u.pid = l /\ Before(u, t)
  \/ Requests(f, k, l) # {}
  \/ \E r \in Replies(f, l, k) : m.sender.ts < r.sender.ts

\* A requester to which PartyStarts are on their way is held back by each of
\* them or, if it is named, by one that names it.
HeldBack(qs, pd, f) ==
  \A k \in Pid : \A t \in pd[k] :
    /\ \A l \in Pid : \A m \in PartyStarts(f, l, k) :
         k \notin m.participants => Held(qs, f, l, k, t, m) \/ NamedIn(f, k)
    /\ NamedIn(f, k) =>
         \E l \in Pid : \E m \in PartyStarts(f, l, k) :
           k \in m.participants /\ Held(qs, f, l, k, t, m)

\* Who has taken a PartyStart that is still under way to others has no ticket
\* of its leader left.
Forgotten(qs, f) ==
  \A l, k, r \in Pid : \A m \in PartyStarts(f, l, k) :
    m \notin f[l][r] => \A t \in qs[r] : t.pid # l

Leading(st, qs, pd, rp, f, ck) ==
  /\ Exchange(st, rp, f)
  /\ Current(pd, f)
  /\ Own(st, qs, pd)
  /\ Complete(st, rp)
  /\ Fenced(pd, rp, f, ck)
  /\ Announcing(st, f)
  /\ Exclusive(f)
  /\ NothingLost(qs, pd, f)
  /\ HeldBack(qs, pd, f)
  /\ Forgotten(qs, f)

\* All of it, of the variables of the algorithm.
LeadingNow == Leading(state, queue, pending, replies, Flights(net), clock)
=============================================================================
