------------------------ MODULE LamportQueueHandlers ------------------------
(***************************************************************************)
(* What the LamportQueueAlgorithm and the LocalThread of one MPI rank do   *)
(* to their own state, and the message that is broadcast when a party      *)
(* starts.  How messages travel is left to the modules that extend this    *)
(* one: LamportQueueAlgorithm has ideal channels and takes a handler with  *)
(* all that it sends for one step, Runtime has the event loop and MPI.     *)
(*                                                                         *)
(* A std::optional is the set of its values: {} when it is empty.          *)
(***************************************************************************)
EXTENDS LamportPolicy, Sequences

CONSTANTS
  PartyIdOffset,  \* party_id_offset (10 000 000 in the code)
  PartyIdSpan,    \* PartyId is a uint32_t: ids are taken modulo 2^32
  MaxRequests     \* bound: how many requests each process issues

ASSUME AlgorithmAssumption ==
  /\ PartyIdOffset \in Nat
  /\ PartyIdSpan \in Nat \ {0}
  /\ MaxRequests \in [Pid -> Nat]

VARIABLES
  clock,         \* lamport_clock_
  state,         \* current_state_.state
  queue,         \* global_queue_: the local replica of the request queue
  pending,       \* pending_req_ticket_
  replies,       \* reply_tracker_: the processes marked
  party,         \* my_party_
  partyCounter,  \* party_counter_
  shouldWant,    \* LocalThread: should_want_
  inside,        \* LocalThread: current_notification_ = kEnteredParty
  issued         \* how many requests each process has issued (for the bound)

localVars == <<shouldWant, inside, issued>>
processVars == <<clock, state, queue, pending, replies, party, partyCounter,
                 shouldWant, inside, issued>>

AppState == {"idle", "waiting", "queued", "inParty"}
PartyId  == 0 .. PartyIdSpan - 1
Party    == [leader : Pid, id : PartyId, members : SUBSET Pid]

RequestMsg(t) == [type |-> "Request", request |-> t]
ReplyMsg(s, t) == [type |-> "Reply", sender |-> s, request |-> t]
PartyStartMsg(s, id, group) ==
  [type |-> "PartyStart", sender |-> s, id |-> id, participants |-> group]

Message ==
  [type : {"Request"}, request : Ticket]
    \cup [type : {"Reply"}, sender : Ticket, request : Ticket]
    \cup [type : {"PartyStart"}, sender : Ticket, id : PartyId,
          participants : SUBSET Pid]
-----------------------------------------------------------------------------
InitProcesses ==
  /\ clock = [p \in Pid |-> 0]
  /\ state = [p \in Pid |-> "idle"]
  /\ queue = [p \in Pid |-> {}]
  /\ pending = [p \in Pid |-> {}]
  /\ replies = [p \in Pid |-> {}]
  /\ party = [p \in Pid |-> {}]
  /\ partyCounter = [p \in Pid |-> (p * PartyIdOffset) % PartyIdSpan]
  /\ shouldWant = [p \in Pid |-> TRUE]
  /\ inside = [p \in Pid |-> FALSE]
  /\ issued = [p \in Pid |-> 0]

\* Slips in the operators below, each with the parameters of the one it stands
\* for: the clock is set back to the remote time, the leader is anyone in the
\* queue or the last, one reply fewer or one more is asked for, a wish is drawn
\* in a party.
OnReceiveTakesRemote(now, remote) == remote + 1
AnyLeader(p, q) == \E t \in q : t.pid = p
LastLeader(p, q) == \E t \in q : t.pid = p /\ \A u \in q \ {t} : Before(u, t)
OneReplyShort(got) == Cardinality(got) >= WorldSize - 1
OneReplyTooMany(got) == Cardinality(got) > WorldSize
MayWantInParty(p) == shouldWant[p]

\* LamportClock::Tick and LamportClock::OnReceive, applied to the time `now`.
Tick(now) == now + 1
OnReceive(now, remote) == (IF remote > now THEN remote ELSE now) + 1

MyTicket(p, now) == [pid |-> p, ts |-> now]

AmLeader(p, q) == \E t \in q : t.pid = p /\ IsFirst(t, q)

AllRepliesReceived(got) == got = Pid

CreatePartyId(p, now) == (partyCounter[p] + now) % PartyIdSpan

\* p enters the party announced by ps.  The handler has left it the time `now`
\* and the queue q.
GoToParty(p, ps, now, q) ==
  /\ state' = [state EXCEPT ![p] = "inParty"]
  /\ party' = [party EXCEPT ![p] = {[leader  |-> ps.sender.pid,
                                     id      |-> ps.id,
                                     members |-> ps.participants]}]
  /\ pending' = [pending EXCEPT ![p] = {}]
  /\ replies' = [replies EXCEPT ![p] = {}]
  /\ queue' = [queue EXCEPT ![p] = Remove(q, ps.participants)]
  /\ inside' = [inside EXCEPT ![p] = TRUE]
  /\ clock' = [clock EXCEPT ![p] = now]
  /\ UNCHANGED <<shouldWant, issued>>

\* p, left with the time `now`, the queue q and the replies `got`, becomes
\* queued or is queued already.
AllReplied(p, got) == state[p] = "waiting" /\ AllRepliesReceived(got)
Queued(p, got) == AllReplied(p, got) \/ state[p] = "queued"
Time(p, now, got) == IF AllReplied(p, got) THEN Tick(now) ELSE now

\* The PARTY_START that Recompute broadcasts, if any: that of a queued process
\* at the head of its own queue, when the policy finds a group with p in it.
Starts(p, now, q, got) ==
  LET group  == IF Queued(p, got) /\ AmLeader(p, q) THEN TryFormGroup(q) ELSE {}
      ticket == MyTicket(p, Tick(Time(p, now, got)))
  IN  IF p \in group
      THEN {PartyStartMsg(ticket, CreatePartyId(p, ticket.ts), group)}
      ELSE {}

\* Every message but a PartyStart for p itself ends here.  When the policy
\* fails (or would leave p out) p keeps waiting.
Recompute(p, now, q, got) ==
  \/ /\ Starts(p, now, q, got) = {}
     /\ state' = [state EXCEPT ![p] = IF Queued(p, got) THEN "queued" ELSE @]
     /\ clock' = [clock EXCEPT ![p] = Time(p, now, got)]
     /\ queue' = [queue EXCEPT ![p] = q]
     /\ replies' = [replies EXCEPT ![p] = got]
     /\ UNCHANGED <<pending, party, partyCounter, localVars>>
  \/ \E start \in Starts(p, now, q, got) :
       /\ GoToParty(p, start, start.sender.ts, q)
       /\ partyCounter' = [partyCounter EXCEPT ![p] = (@ + 1) % PartyIdSpan]

\* A reply that comes when p is not waiting only moves the clock.
IgnoreReply(p, now) ==
  /\ state[p] # "waiting"
  /\ clock' = [clock EXCEPT ![p] = now]
  /\ UNCHANGED <<state, queue, pending, replies, party, partyCounter, localVars>>

\* When LocalThread may draw a wish (the draw itself is the choice of taking
\* the step).
MayWant(p) == shouldWant[p] /\ ~inside[p]

\* LocalThread wants a party and OnEvent(kWantParty) issues the request,
\* unless the process is not idle: then the wish is spent.
Want(p) ==
  /\ MayWant(p)
  /\ issued[p] < MaxRequests[p]
  /\ shouldWant' = [shouldWant EXCEPT ![p] = FALSE]
  /\ clock' = [clock EXCEPT ![p] = Tick(@)]
  /\ LET ticket == MyTicket(p, Tick(clock[p]))
     IN  IF state[p] = "idle"
         THEN /\ state' = [state EXCEPT ![p] = "waiting"]
              /\ replies' = [replies EXCEPT ![p] = {p}]
              /\ pending' = [pending EXCEPT ![p] = {ticket}]
              /\ queue' = [queue EXCEPT ![p] = Insert(@, ticket)]
              /\ issued' = [issued EXCEPT ![p] = @ + 1]
         ELSE UNCHANGED <<state, replies, pending, queue, issued>>
  /\ UNCHANGED <<party, partyCounter, inside>>

\* The REQUEST that Want broadcasts, if any.
Asks(p) ==
  IF state[p] = "idle" THEN {RequestMsg(MyTicket(p, Tick(clock[p])))} ELSE {}

\* LocalThread ends the party some time after kPartyTime and
\* OnEvent(kReleaseParty) makes the process idle.  Nobody is told.
Release(p) ==
  /\ inside[p]
  /\ clock' = [clock EXCEPT ![p] = Tick(@)]
  /\ party' = [party EXCEPT ![p] = {}]
  /\ pending' = [pending EXCEPT ![p] = {}]
  /\ replies' = [replies EXCEPT ![p] = {}]
  /\ state' = [state EXCEPT ![p] = "idle"]
  /\ inside' = [inside EXCEPT ![p] = FALSE]
  /\ shouldWant' = [shouldWant EXCEPT ![p] = TRUE]
  /\ UNCHANGED <<queue, partyCounter, issued>>
=============================================================================
