------------------------- MODULE RuntimeProperties --------------------------
(***************************************************************************)
(* What the event loops and MPI guarantee to the algorithm: they implement *)
(* LamportQueueAlgorithm, whose handlers are single steps on ideal         *)
(* channels, and the blocking sends never stop them.                       *)
(***************************************************************************)
EXTENDS Runtime

\* What a rank's vector and its actions hold: messages and the other rank.
Entry == [peer : Pid, msg : Message]

\* The types of a rank's own state, as in LamportQueueProperties.
ProcessesTyped ==
  /\ clock \in [Pid -> Nat]
  /\ state \in [Pid -> AppState]
  /\ queue \in [Pid -> SUBSET Ticket]
  /\ pending \in [Pid -> SUBSET Ticket]
  /\ replies \in [Pid -> SUBSET Pid]
  /\ party \in [Pid -> SUBSET Party]
  /\ partyCounter \in [Pid -> PartyId]
  /\ shouldWant \in [Pid -> BOOLEAN]
  /\ inside \in [Pid -> BOOLEAN]
  /\ issued \in [Pid -> Nat]

\* The type of every variable; a rank never has a message to itself, neither in
\* its actions nor in MPI nor in its vector.
TypeOK ==
  /\ ProcessesTyped
  /\ phase \in [Pid -> {"polling", "handling"}]
  /\ batch \in [Pid -> Seq(Entry)]
  /\ actions \in [Pid -> Seq(Entry)]
  /\ chan \in [Pid -> [Pid -> Seq(Message)]]
  /\ \A p \in Pid :
       /\ chan[p][p] = <<>>
       /\ \A i \in DOMAIN batch[p] : batch[p][i].peer # p
       /\ \A i \in DOMAIN actions[p] : actions[p][i].peer # p

\* The messages in the vector s that come from, or go to, the rank q.
UpTo(s, q) ==
  LET f[n \in 0 .. Len(s)] ==
        IF n = 0 THEN <<>>
        ELSE IF s[n].peer = q THEN Append(f[n - 1], s[n].msg)
        ELSE f[n - 1]
  IN  f
Of(s, q) == UpTo(s, q)[Len(s)]

\* The messages of p that q has not handled: those in the vector of q, in MPI
\* and in the actions of p.
Unhandled(p, q) == Of(batch[q], p) \o chan[p][q] \o Of(actions[p], q)

Atomic == INSTANCE LamportQueueAlgorithm
            WITH net <- [p \in Pid |-> [q \in Pid |-> Unhandled(p, q)]],
                 PartyOutlastsTraffic <- FALSE

\* The loops implement the algorithm: whatever lies between the sends of a
\* broadcast, between MPI and the vector, and between the vector and its
\* handling, a handler that takes the next event of its vector does what it
\* would have done in one step with the message at the head of an ideal FIFO
\* channel.
ImplementsAlgorithm == Atomic!Spec

\* No ranks wait on one another in a circle of sends: a set of ranks that are
\* all blocked on ranks of the set would never poll again.
NoCircularWait ==
  \A S \in (SUBSET Pid) \ {{}} : \E p \in S : \A q \in S : ~WaitsFor(p, q)

\* "All messages are eventually delivered" (README, limitation 1): while the
\* ranks issue a bounded number of requests, a time comes again and again at
\* which every message has been handled.
Quiet == \A p, q \in Pid : Unhandled(p, q) = <<>>
MessagesAreHandled == ~Quiet ~> Quiet
=============================================================================
