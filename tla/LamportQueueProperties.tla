----------------------- MODULE LamportQueueProperties -----------------------
(***************************************************************************)
(* What LamportQueueAlgorithm should guarantee.  The first group holds for *)
(* the code as it is; the second only when a party lasts longer than the   *)
(* traffic about it (PartyOutlastsTraffic); README.md says which statement *)
(* of the repository the runs that end in a violation refute.              *)
(***************************************************************************)
EXTENDS LamportQueueAlgorithm, Functions

InFlight(p, q) == Range(net[p][q])

Quiet == \A p, q \in Pid : net[p][q] = <<>>

\* A PartyStart that makes p a member is on its way to p.
Named(p) == \E q \in Pid : \E m \in InFlight(q, p) :
              m.type = "PartyStart" /\ p \in m.participants

\* The tickets of p that some process holds or that are on their way.
KnownTickets(p) ==
  {t \in UNION {queue[q] : q \in Pid} : t.pid = p}
    \cup {m.request : m \in {n \in UNION {InFlight(p, q) : q \in Pid} :
                               n.type = "Request"}}

\* The parties somebody is in or is being told of.
AnnouncedBy(m) ==
  [leader |-> m.sender.pid, id |-> m.id, members |-> m.participants]
Announced ==
  (UNION {party[p] : p \in Pid})
    \cup {AnnouncedBy(m) :
            m \in {n \in UNION {InFlight(p, q) : p, q \in Pid} :
                     n.type = "PartyStart"}}

Weight(group) ==
  LET hares == {p \in group : IsHare(p)}
  IN  Cardinality(hares) * HareWeight + Cardinality(group \ hares) * BearWeight

\* The requests that have been issued and have not ended in a party.
Outstanding == UNION {pending[p] : p \in Pid}

\* The time at which a message was sent.
Stamp(m) == IF m.type = "Request" THEN m.request.ts ELSE m.sender.ts
-----------------------------------------------------------------------------
\* Types, and no process has a channel to itself (Broadcast skips the sender).
TypeOK ==
  /\ clock \in [Pid -> Nat]
  /\ state \in [Pid -> AppState]
  /\ queue \in [Pid -> SUBSET Ticket]
  /\ pending \in [Pid -> SUBSET Ticket]
  /\ replies \in [Pid -> SUBSET Pid]
  /\ party \in [Pid -> SUBSET Party]
  /\ partyCounter \in [Pid -> PartyId]
  /\ shouldWant \in [Pid -> BOOLEAN]
  /\ inside \in [Pid -> BOOLEAN]
  /\ net \in [Pid -> [Pid -> Seq(Message)]]
  /\ \A p \in Pid : net[p][p] = <<>>
  /\ issued \in [Pid -> Nat]

\* LocalThread believes it is in a party exactly when the algorithm is in one,
\* and has a wish left only when the algorithm has no request.
LocalThreadAgrees ==
  \A p \in Pid :
    /\ inside[p] <=> state[p] = "inParty"
    /\ shouldWant[p] => state[p] \in {"idle", "inParty"}

\* LocalThread and the algorithm agree without sharing state: a wish is only
\* ever drawn when the algorithm is idle (the comment at line 150 of
\* lamport_queue_algorithm.cpp), although a process can be pulled into a party
\* while it is idle and its LocalThread still wants one.
WantOnlyWhenIdle == \A p \in Pid : MayWant(p) => state[p] = "idle"

\* A process has its own ticket in its own queue exactly while its request is
\* outstanding, and it is the ticket it sent: AmLeader looks for a ticket of
\* this request, and a member never leaves its own ticket behind on its way
\* into a party.
OwnRequestQueued ==
  \A p \in Pid :
    /\ {t \in queue[p] : t.pid = p} = pending[p]
    /\ pending[p] # {} <=> state[p] \in {"waiting", "queued"}

\* The request a process is waiting on is the newest of its tickets anywhere,
\* and no ticket is ahead of its owner's clock: replacing a ticket in Insert
\* never brings back an older one.
TicketsAreNewest ==
  \A p \in Pid : \A t \in KnownTickets(p) :
    t.ts <= clock[p] /\ \A u \in pending[p] : t.ts <= u.ts

\* A channel carries its messages in the order of their stamps, none ahead of
\* the sender's clock; a request is the sender's own; a reply is stamped later
\* than the request it answers.
ChannelOK(s, sender, now) ==
  /\ \A i \in DOMAIN s :
       /\ Stamp(s[i]) <= now
       /\ s[i].type = "Request" => s[i].request.pid = sender
       /\ s[i].type = "Reply" => s[i].request.ts < s[i].sender.ts
  /\ \A i, j \in DOMAIN s : i < j => Stamp(s[i]) < Stamp(s[j])

InOrder(n, ck) == \A p, q \in Pid : ChannelOK(n[p][q], p, ck[p])

ChannelsInOrder == InOrder(net, clock)

\* Lamport's use of FIFO channels: behind a reply to a request travel only
\* requests that come later in the order.  This is why a process that has all
\* replies to its request has seen every earlier request.
RepliesFenceRequests ==
  \A p, q \in Pid : \A i, j \in DOMAIN net[q][p] :
    /\ i < j
    /\ net[q][p][i].type = "Reply"
    /\ net[q][p][j].type = "Request"
    => Before(net[q][p][i].request, net[q][p][j].request)

\* Every party anybody hears of has its leader among its members, a weight of
\* exactly the capacity and a hare (README, limitation 4), whatever ghosts the
\* queue it was built from contained.
PartiesAreExact ==
  \A a \in Announced :
    /\ a.leader \in a.members
    /\ Weight(a.members) = PartyCapacity
    /\ \E p \in a.members : IsHare(p)

\* A process that is still waiting misses a reply: Recompute runs after the
\* last reply is marked, so nobody waits for what it already has (README,
\* step 3).  It is false in a world of one process, where no message ever
\* makes Recompute run.
WaitingMissesReply == \A p \in Pid : state[p] = "waiting" => replies[p] # Pid
-----------------------------------------------------------------------------
\* A queued process has the replies to the request it is queued with: every
\* other process has handled that request (state.hpp:13, README step 3).
QueuedIsKnownToAll ==
  \A p, q \in Pid : state[p] = "queued" =>
    \A m \in InFlight(p, q) : m.type # "Request"

\* An outstanding request is in every replica of the queue, or on its way
\* there, or has been answered by a party that is on its way to the requester.
NoLostRequest ==
  \A p, q \in Pid :
    \/ pending[p] \subseteq queue[q]
    \/ \E m \in InFlight(p, q) : m.type = "Request"
    \/ Named(p)

\* A process that may start a party has the oldest outstanding request, but
\* for those of processes that another party is about to take: there is one
\* leader at a time.
OldestLeads ==
  \A p, q \in Pid : \A t \in pending[p], u \in pending[q] :
    state[p] = "queued" /\ AmLeader(p, queue[p]) /\ Before(u, t) => Named(q)

\* Nobody starts a party while another party is about to take it.
LeaderIsFree ==
  [][\A p \in Pid : partyCounter'[p] # partyCounter[p] => ~Named(p)]_vars

\* The head of p's queue is a ticket of a process that asks for nothing: the
\* REQUEST was handled after the PARTY_START that served it (line 104 of
\* lamport_queue_algorithm.cpp), and only the next REQUEST of that process, or
\* a party that takes it again, removes the ticket.
StaleHead(p) ==
  \E t \in queue[p] : IsFirst(t, queue[p]) /\ pending[t.pid] = {}

\* When nothing is in flight and the outstanding requests allow a party, the
\* owner of the oldest has a stale ticket at the head of its queue: otherwise
\* it would have started the party (README, steps 4 and 5).  A ticket that one
\* queue has lost, for instance, would be another reason to wait for ever.
HeadStartsParty ==
  Quiet /\ TryFormGroup(Outstanding) # {} =>
    \A t \in Outstanding : IsFirst(t, Outstanding) => StaleHead(t.pid)
-----------------------------------------------------------------------------
\* A member never finds itself in a party when a PartyStart that names it
\* comes (the comment at line 131 of lamport_queue_algorithm.cpp).
MembersAreFree == \A p \in Pid : state[p] = "inParty" => ~Named(p)

\* When nothing is in flight, the outstanding requests allow no party: the head
\* of the queue starts one when it can, and those who have had a party are in
\* no queue any more (README, steps 4 to 6).
NobodyIsStuck == Quiet => TryFormGroup(Outstanding) = {}
-----------------------------------------------------------------------------
\* Every request gets its replies: nobody waits for ever, because every process
\* replies in every state, even in a party.  The requests of a run are bounded,
\* so there is a time again and again when nobody waits.
RequestsAreAnswered == []<>(\A p \in Pid : state[p] # "waiting")

\* The requests no party has taken: those of a party that is on its way to its
\* members are as good as served.
Unserved == UNION {pending[p] : p \in {q \in Pid : ~Named(q)}}

\* p is queued with the oldest of them, and they allow a party.
Due(p) ==
  /\ state[p] = "queued"
  /\ \E t \in pending[p] : IsFirst(t, Unserved)
  /\ TryFormGroup(Unserved) # {}

\* Who is due a party stays due until it gets one: no step of anybody, a new
\* request or another party, takes its place or the members it needs.
DueUntilServed ==
  [][\A p \in Pid : Due(p) => Due(p)' \/ Named(p)' \/ state'[p] = "inParty"]_vars

\* Nobody is due a party for ever, but behind a stale ticket.  With
\* DueUntilServed: the owner of the oldest request gets its party, if one is
\* possible and no stale ticket stays at the head of its queue.
OldestIsServed == []<>(\A p \in Pid : Due(p) => StaleHead(p))
=============================================================================
