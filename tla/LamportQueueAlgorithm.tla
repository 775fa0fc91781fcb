----------------------- MODULE LamportQueueAlgorithm ------------------------
(***************************************************************************)
(* The distributed algorithm: the handlers of every MPI rank and the       *)
(* reliable FIFO channels between them.                                    *)
(*                                                                         *)
(* A handler is one step: it takes the head of a channel (or a local       *)
(* event), updates the process and appends what it sends to the channels.  *)
(* Module Runtime has the loop, the vectors and the blocking sends that    *)
(* lie between the steps, and shows that they implement this.              *)
(***************************************************************************)
EXTENDS LamportQueueHandlers

CONSTANT
  PartyOutlastsTraffic
    \* TRUE: nobody leaves a party before the messages about its last request
    \* and about the party have been handled everywhere, as if kPartyTime
    \* were always longer than the network needs.  FALSE: the code as it is.

ASSUME TimingAssumption == PartyOutlastsTraffic \in BOOLEAN

VARIABLE net  \* net[p][q]: messages sent by p that q has not handled yet

vars == <<clock, state, queue, pending, replies, party, partyCounter,
          shouldWant, inside, net, issued>>

Init == InitProcesses /\ net = [p \in Pid |-> [q \in Pid |-> <<>>]]

\* A slip in the operator below: the sender broadcasts to itself.
BroadcastToSelf(n, p, m) ==
  [n EXCEPT ![p] = [r \in Pid |-> Append(n[p][r], m)]]

\* MpiTransport: Broadcast sends to every rank but one's own; a handled
\* message leaves its channel.
Broadcast(n, p, m) ==
  [n EXCEPT ![p] = [r \in Pid |-> IF r = p THEN n[p][r] ELSE Append(n[p][r], m)]]
Consumed(p, q) == [net EXCEPT ![q][p] = Tail(@)]
Arrives(p, q, type) == net[q][p] # <<>> /\ Head(net[q][p]).type = type

\* The handler leaves the channels n, and p broadcasts the message in msgs, if
\* there is one.
Sends(n, p, msgs) ==
  \/ msgs = {} /\ net' = n
  \/ \E m \in msgs : net' = Broadcast(n, p, m)

Concludes(p, now, q, got, n) ==
  Recompute(p, now, q, got) /\ Sends(n, p, Starts(p, now, q, got))
-----------------------------------------------------------------------------
\* OnMsg(Request): enqueue the ticket and reply, in whatever state p is.
OnRequest(p, q) ==
  /\ Arrives(p, q, "Request")
  /\ LET ticket == Head(net[q][p]).request
         now    == OnReceive(clock[p], ticket.ts)
         reply  == ReplyMsg(MyTicket(p, now), ticket)
     IN  Concludes(p, now, Insert(queue[p], ticket), replies[p],
                   [Consumed(p, q) EXCEPT ![p][q] = Append(@, reply)])

\* OnMsg(Reply): counted when p is waiting, whichever request it answers.
OnReply(p, q) ==
  /\ Arrives(p, q, "Reply")
  /\ LET now == OnReceive(clock[p], Head(net[q][p]).sender.ts)
     IN  \/ /\ state[p] = "waiting"
            /\ Concludes(p, now, queue[p], replies[p] \cup {q}, Consumed(p, q))
         \/ IgnoreReply(p, now) /\ net' = Consumed(p, q)

\* OnMsg(PartyStart): the members leave the queue; a member enters the party
\* in whatever state it is.
OnPartyStart(p, q) ==
  /\ Arrives(p, q, "PartyStart")
  /\ LET start == Head(net[q][p])
         now   == OnReceive(clock[p], start.sender.ts)
         rest  == Remove(queue[p], start.participants)
     IN  \/ /\ p \in start.participants
            /\ GoToParty(p, start, now, rest)
            /\ net' = Consumed(p, q)
            /\ UNCHANGED partyCounter
         \/ /\ p \notin start.participants
            /\ Concludes(p, now, rest, replies[p], Consumed(p, q))

\* LocalThread's events.
WantParty(p) == Want(p) /\ Sends(net, p, Asks(p))

\* Every message p sent as a requester, every reply to p and every
\* PartyStart that names p has been handled.
Settled(p) ==
  \A q, r \in Pid : \A i \in DOMAIN net[q][r] :
    LET m == net[q][r][i]
    IN  /\ m.type = "Request" => q # p
        /\ m.type = "Reply" => r # p
        /\ m.type = "PartyStart" => p \notin m.participants

ReleaseParty(p) ==
  /\ PartyOutlastsTraffic => Settled(p)
  /\ Release(p)
  /\ UNCHANGED net

Handle(p, q) == OnRequest(p, q) \/ OnReply(p, q) \/ OnPartyStart(p, q)

Next ==
  \/ \E p \in Pid : WantParty(p) \/ ReleaseParty(p)
  \/ \E p \in Pid : \E q \in Pid \ {p} : Handle(p, q)

Spec == Init /\ [][Next]_vars

\* Run polls the network for ever: while messages are under way some process
\* handles one.  Nobody has to want a party, and no party has to end.
Fairness == WF_vars(\E p \in Pid : \E q \in Pid \ {p} : Handle(p, q))

FairSpec == Spec /\ Fairness
=============================================================================
