------------------------------ MODULE Runtime -------------------------------
(***************************************************************************)
(* The event loop of every rank (runtime/runtime.cpp) on top of            *)
(* MpiTransport (transport/mpi_transport.cpp) and MPI.                     *)
(*                                                                         *)
(* A rank is one thread.  It receives what MPI has for it into a vector,   *)
(* handles the events of the vector one by one, then at most one event of  *)
(* LocalThread, and executes all the actions of an event before the next.  *)
(* An action to send is one MPI_Send, a broadcast one per other rank, in   *)
(* the order of the ranks.  MPI_Send may return only when the receiver has *)
(* taken the message: here MPI buffers SendBuffer messages between two     *)
(* ranks, and a rank that has sent more is blocked.  While it is blocked   *)
(* it receives nothing.                                                    *)
(*                                                                         *)
(* Notify reaches LocalThread in the step of the handler: nothing reads    *)
(* LocalThread before the actions are executed.                            *)
(***************************************************************************)
EXTENDS LamportQueueHandlers

CONSTANT SendBuffer  \* how many messages to one rank MPI_Send need not wait for

ASSUME RuntimeAssumption == SendBuffer \in Nat

VARIABLES
  phase,    \* phase[p]: "polling" in transport_->Poll(), or "handling"
  batch,    \* batch[p]: the vector of Net events of the current round
  actions,  \* actions[p]: the sends that DrainActions has yet to execute
  chan      \* chan[p][q]: messages p has sent and q has not received

loopVars == <<phase, batch, actions, chan>>
vars == <<processVars, loopVars>>

Init ==
  /\ InitProcesses
  /\ phase = [p \in Pid |-> "polling"]
  /\ batch = [p \in Pid |-> <<>>]
  /\ actions = [p \in Pid |-> <<>>]
  /\ chan = [p \in Pid |-> [q \in Pid |-> <<>>]]

\* Slips in the operators below: the loop over the ranks starts after the
\* sender's own, or does not skip it; a rank only looks for messages of the
\* next one instead of MPI_ANY_SOURCE.
BroadcastUpwards(p, msgs) ==
  IF msgs = {} THEN <<>>
  ELSE [i \in 1 .. WorldSize - 1 - p |->
          [peer |-> p + i, msg |-> CHOOSE m \in msgs : TRUE]]
BroadcastToAll(p, msgs) ==
  IF msgs = {} THEN <<>>
  ELSE [i \in 1 .. WorldSize |-> [peer |-> i - 1, msg |-> CHOOSE m \in msgs : TRUE]]
ProbeNextRank(p, q) == q = (p + 1) % WorldSize /\ chan[q][p] # <<>>

\* The MPI_Send of p to q has not returned.
WaitsFor(p, q) == Len(chan[p][q]) > SendBuffer

Blocked(p) == \E q \in Pid : WaitsFor(p, q)

\* Execute(Send) and Execute(Broadcast): the rows of MPI_Send they stand for.
Send(q, m) == <<[peer |-> q, msg |-> m]>>
Broadcast(p, msgs) ==
  IF msgs = {} THEN <<>>
  ELSE [i \in 1 .. WorldSize - 1 |->
          [peer |-> IF i <= p THEN i - 1 ELSE i, msg |-> CHOOSE m \in msgs : TRUE]]

\* The last MPI_Send has returned and no action is left.
Drained(p) == actions[p] = <<>> /\ ~Blocked(p)

\* MPI_Iprobe of p can find a message of q.
Probe(p, q) == chan[q][p] # <<>>

Returns(p, acts) == actions' = [actions EXCEPT ![p] = acts]
-----------------------------------------------------------------------------
\* The next MPI_Send of DrainActions.
Execute(p) ==
  /\ actions[p] # <<>> /\ ~Blocked(p)
  /\ LET a == Head(actions[p])
     IN  chan' = [chan EXCEPT ![p][a.peer] = Append(@, a.msg)]
  /\ Returns(p, Tail(actions[p]))
  /\ UNCHANGED <<phase, batch, processVars>>

\* MPI_Iprobe finds a message of q and MPI_Recv takes it.
Receive(p, q) ==
  /\ phase[p] = "polling" /\ Drained(p) /\ Probe(p, q)
  /\ batch' = [batch EXCEPT ![p] =
                  Append(@, [peer |-> q, msg |-> Head(chan[q][p])])]
  /\ chan' = [chan EXCEPT ![q][p] = Tail(@)]
  /\ UNCHANGED <<phase, actions, processVars>>

\* MPI_Iprobe finds nothing.  A message that has been sent may not have arrived.
EndPoll(p) ==
  /\ phase[p] = "polling" /\ Drained(p)
  /\ phase' = [phase EXCEPT ![p] = "handling"]
  /\ UNCHANGED <<batch, actions, chan, processVars>>

OnRequest(p, q, m) ==
  LET now  == OnReceive(clock[p], m.request.ts)
      rest == Insert(queue[p], m.request)
  IN  /\ Recompute(p, now, rest, replies[p])
      /\ Returns(p, Send(q, ReplyMsg(MyTicket(p, now), m.request))
                      \o Broadcast(p, Starts(p, now, rest, replies[p])))

OnReply(p, q, m) ==
  LET now == OnReceive(clock[p], m.sender.ts)
      got == replies[p] \cup {q}
  IN  \/ /\ state[p] = "waiting"
         /\ Recompute(p, now, queue[p], got)
         /\ Returns(p, Broadcast(p, Starts(p, now, queue[p], got)))
      \/ IgnoreReply(p, now) /\ UNCHANGED actions

OnPartyStart(p, m) ==
  LET now  == OnReceive(clock[p], m.sender.ts)
      rest == Remove(queue[p], m.participants)
  IN  \/ /\ p \in m.participants
         /\ GoToParty(p, m, now, rest)
         /\ UNCHANGED <<partyCounter, actions>>
      \/ /\ p \notin m.participants
         /\ Recompute(p, now, rest, replies[p])
         /\ Returns(p, Broadcast(p, Starts(p, now, rest, replies[p])))

\* The loop over the vector: HandleEvent of the next event.
HandleNet(p) ==
  /\ phase[p] = "handling" /\ Drained(p) /\ batch[p] # <<>>
  /\ LET ev == Head(batch[p])
     IN  \/ ev.msg.type = "Request" /\ OnRequest(p, ev.peer, ev.msg)
         \/ ev.msg.type = "Reply" /\ OnReply(p, ev.peer, ev.msg)
         \/ ev.msg.type = "PartyStart" /\ OnPartyStart(p, ev.msg)
  /\ batch' = [batch EXCEPT ![p] = Tail(@)]
  /\ UNCHANGED <<phase, chan>>

\* The end of a round: LocalThread::Poll returns a wish, the end of the party
\* or nothing.
HandleLocal(p) ==
  /\ phase[p] = "handling" /\ Drained(p) /\ batch[p] = <<>>
  /\ phase' = [phase EXCEPT ![p] = "polling"]
  /\ \/ Want(p) /\ Returns(p, Broadcast(p, Asks(p)))
     \/ Release(p) /\ UNCHANGED actions
     \/ UNCHANGED <<actions, processVars>>
  /\ UNCHANGED <<batch, chan>>

Step(p) == Execute(p) \/ EndPoll(p) \/ HandleNet(p) \/ HandleLocal(p)

Next == \E p \in Pid : Step(p) \/ \E q \in Pid : Receive(p, q)

Spec == Init /\ [][Next]_vars

\* A rank whose MPI_Send can return goes on with its loop, and a message that
\* stays in MPI while the receiver polls again and again is found at last.
\* LocalThread need not want a party or end one.
Fairness ==
  \A p \in Pid :
    WF_vars(Step(p)) /\ \A q \in Pid \ {p} : SF_vars(Receive(p, q))

FairSpec == Spec /\ Fairness
=============================================================================
