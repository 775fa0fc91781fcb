# Hares and Bears: a verification project

TLA+ modules, TLC runs and TLAPS proofs for the group mutual exclusion program in
`src/`. Every MPI rank is a hare (weight 1) or a bear (weight 4). Processes ask
for a party; the one whose request is the oldest in its replica of the request
queue picks a group of exactly the party capacity and announces it.

## 1. The system

| component | state | operations | talks to |
|---|---|---|---|
| `LocalThread` (`include/mhb/local`) | `should_want_`, `current_notification_`, `time_mark_` | `Poll` (draw a wish, end a party), `OnNotify` | events to the algorithm through `Runtime`; notifications back |
| `LamportQueueAlgorithm` (`src/algorithm`) | clock, `AppState`, queue replica, pending ticket, reply tracker, party, party counter | `OnMsg` of `Request`, `Reply`, `PartyStart`; `OnEvent` of `kWantParty`, `kReleaseParty`; `Recompute`, `GoToParty` | returns actions: send, broadcast, notify, log |
| `LamportClock` (`src/clock`) | one counter | `Tick`, `OnReceive`, `Now` | used by the algorithm |
| `RequestQueue`, `Ticket` (`src/queue`, `src/core`) | `std::set` of tickets and a map from pid to iterator | `Insert`, `Remove`, `GetFirstPid`, `Snapshot` | used by the algorithm |
| `LamportPolicy` (`src/policy`) | capacity and weights, constant | `TryFormGroup` | asked by the leader |
| `Runtime` (`src/runtime`) | the running flag | `Run`: poll the network, poll `LocalThread`, execute actions, sleep 1 ms | calls everything, on one thread |
| `MpiTransport` (`src/transport`) | none (MPI has it) | `Send`, `Broadcast` (blocking `MPI_Send`), `Poll` (`MPI_Iprobe`, `MPI_Recv`) | wire protocol, MPI |
| wire protocol (`src/wire`) | none | `Serialize`, `Deserialize` | used by the transport |
| configuration and `main` (`core/config.hpp`, `apps`) | `Config` | `ApplyCli` | constructs everything; ends the world with `MPI_Abort` |
| `cxxopts` (vendored header) | table of options, parsed values | `Options::parse`, `ParseResult` | used by `ApplyCli` |

What makes it hard:

* Only the channels between pairs of processes are FIFO. A REQUEST and the
  PARTY_START that answers it come from different senders, so they can reach a
  third process in either order, and so can a PARTY_START and the next REQUEST of
  a member.
* Every process decides alone, from its own replica. Nothing but the order of
  requests and Lamport's argument about replies makes two replicas agree on the
  head.
* A PARTY_START takes a process out of *any* state. The algorithm and
  `LocalThread` are two state machines that must stay together through that.
* A leader whose policy fails has nothing scheduled: only a later message makes
  it try again.
* `Runtime` is one thread that sends with blocking calls: while it broadcasts it
  receives nothing, and the messages it has received wait in a vector while
  earlier ones are handled.
* Every rank reads the command line on its own. Unsigned numbers from the user are
  subtracted, and an option takes whatever follows it for its value.
* Nothing is persisted and no process fails; there are no timeouts or retries.
  The half second that a party lasts (`kPartyTime`) is the only time there is, and
  the protocol turns out to rely on it (section 3).

What makes each component correct: the queue is a set with one ticket per process
and no dangling iterator; the policy returns an exact, most bearish, oldest
group whenever there is one; the clock makes replies fence requests; the
algorithm has one leader at a time, loses no request, takes nobody twice and
starts a party when the requests allow one; `LocalThread` asks only when idle; the event
loops give the algorithm atomic handlers and FIFO channels and never wait on one
another in a circle; what is serialized is what is decoded; the command line
means what is written, the ranks that run have one sound configuration, and
either all run or none.

## 2. Modules

| module | models | correspondence |
|---|---|---|
| `Config` | `core/config.hpp` | constants with `ConfigAssumption`, which `ConfigIsSound` shows of the command line; `IsHare`, `WeightOf` |
| `Tickets` | `Ticket`, `operator<`, what `RequestQueue` does to its tickets | `Before`, `Insert`, `Remove`, `IsFirst` |
| `LamportPolicy` | `LamportPolicy::TryFormGroup` | `FormGroup` of the capacity of the policy and the set of tickets in the snapshot; the loops are set expressions (`BearCounts`, `BearsToTake`, `Oldest`). `TryFormGroup` is what the algorithm asks, for its own capacity |
| `LamportQueueHandlers` | what the algorithm, the clock and `LocalThread` of a rank do to their own state | `Recompute`, `GoToParty`, `Want`, `Release`, and what they broadcast (`Starts`, `Asks`) |
| `LamportQueueAlgorithm` | the distributed algorithm on ideal FIFO channels | one action per handler: `OnRequest`, `OnReply`, `OnPartyStart`, `WantParty`, `ReleaseParty` |
| `LamportQueueProperties` | the properties of the algorithm | |
| `LeaderInvariant` | why there is one leader at a time when parties outlast traffic | `LeadingNow` |
| `LamportQueueProofs` | proofs about the algorithm with any timing | |
| `LeaderStageProofs`, `LeaderProofs` | proofs about the algorithm when parties outlast traffic: the stages of a handler, then the handlers and the theorems | |
| `PolicyProofs` | proofs of what `FormGroup` returns, for any candidates and capacity, and of what the other proofs need of tickets, queues and groups | |
| `PartyProofs` | proofs about the parties that the algorithm makes with the policy | |
| `Runtime` | `Runtime::Run` and `MpiTransport` of every rank on MPI | one action per `MPI_Send` (`Execute`), per `MPI_Recv` (`Receive`), for an `MPI_Iprobe` that finds nothing (`EndPoll`), per event of the vector (`HandleNet`) and for `LocalThread::Poll` (`HandleLocal`) |
| `RuntimeProperties` | the types, the refinement of `LamportQueueAlgorithm` and what the sends must not do | |
| `RuntimeProofs` | proof that the loops implement the algorithm | |
| `TicketSet` | abstract: the queue as a set of tickets | |
| `RequestQueue` | the class: nodes at addresses, iterators | refines `TicketSet` with `tickets <- Range(node)` |
| `PolicyCheck` | the policy, asked on the snapshots of `RequestQueue`, against a reference that looks at every group | |
| `RequestQueueProofs` | proofs about the class, and that the policy meets the reference on its snapshots | |
| `WireProtocol` | `Serialize`, `Deserialize`, `ByteWriter`, `ByteReader` | operators on sequences of bytes; `{}` is `nullopt` |
| `WireCheck` | the transport's use of them, on messages and on arbitrary bytes | |
| `WireProofs` | proof that what is serialized is what is decoded | |
| `IntegerText` | `SplitInteger`, `integer_parser<uint32_t>` | `IntegerParser`, `{}` where it throws |
| `Cxxopts` | options, `OptionParser::parse`, `ParseResult` | `Reading` is one turn of the loop, `WithDefaults` what follows it |
| `CommandLine` | `ApplyCli` and `main` of every rank | `ParseNext`, `ParseThrows`, `EndParse`, then `ShowHelp`, `ConfigError` or `Run` |
| `CommandLineProperties` | a declarative reading of a command line, and the properties | |
| `MC*` | values of the constants for TLC | |

`LamportQueueHandlers` EXTENDS `LamportPolicy`, `Tickets` and `Config`; both
`LamportQueueAlgorithm` and `Runtime` EXTEND it, so that the loops and the atomic
algorithm run the same handlers, and `Runtime` is shown, and proved, to implement the
algorithm. The handlers work on the abstract queue, and `RequestQueue` shows that
the class is one.

An operator that is called a slip in its comment (`OneReplyShort`, `BigEndian`, ...) is a
wrong version of an operator of the code, kept beside it: put in its place it
breaks the property it is listed with in `PROJECT.json` under `mutants`, which
shows that the property depends on that code.

Choices of the core model:

* A handler with all its sends is one step, and the message is taken from its
  channel when it is handled. `Runtime` has the steps in between, and
  `ImplementsAlgorithm` shows that they make no difference.
* `net[p][q]` is the FIFO channel that MPI guarantees for one pair, one
  communicator and one tag.
* `replies` is the set of marked processes, `pending` and `party` are the sets of
  the values of their `std::optional`.
* `shouldWant` and `inside` are `LocalThread`'s two fields. The random draw and
  the passing of time are the choice to take `WantParty` or `ReleaseParty`.
* The order of the members in a PARTY_START is never used, so it is a set.
* Clocks are natural numbers; a 64-bit counter does not wrap. Party ids are taken
  modulo `PartyIdSpan`, which stands for 2^32 (`PartyId` is a `uint32_t`; TLC's
  integers end below that, and no action depends on an id). `PartyIdOffset` is
  scaled from 10 000 000 in the same way.
* `MaxRequests`, by process, bounds how often a process asks. It is the only bound
  of the core: clocks, channels and parties are bounded by it.

`PartyOutlastsTraffic = TRUE` adds one assumption: a process leaves a party only
after its last request, the replies to it and the PARTY_START messages naming it
have been handled everywhere (`Settled`). In practice messages take much less
than `kPartyTime` = 500 ms and event loops spin every millisecond, so
this is how the program behaves when nothing is slow. Nothing in the code
enforces it. With FALSE the model is the code with any timing.

Choices of `Runtime`:

* `chan[p][q]` holds the messages that `p` has given to MPI and `q` has not received.
  MPI lets `MPI_Send` return when the message is buffered or when the receiver has
  taken it. `SendBuffer` is how many messages to one rank MPI buffers; a rank with
  more in a channel is still inside `MPI_Send` (`WaitsFor`), and does nothing else.
  0 is a rendezvous; the eager protocol of an implementation is a large number.
* `Poll` may end while a message is in `chan`: it has been sent, but need not have
  arrived when `MPI_Iprobe` looks.
* `Notify` reaches `LocalThread` within the step of the handler. In the code it is one
  of the actions; nothing reads `LocalThread` before they are all executed.
* The mapping to `LamportQueueAlgorithm`: a message of `p` to `q` that is not handled is in
  the vector of `q`, in MPI, or among the actions that `p` has yet to execute, in this
  order (`Unhandled`). The entries of vectors and of actions are pairs of a peer and a message:
  the sender in a vector, the receiver in actions; `Of` selects those of one peer. The steps of sending, receiving and polling are stutters, those of the
  handlers are the actions of the algorithm.

Choices of the wire protocol: a byte has `ByteSpan` values (256), integers have the
sizes of the code as constants, scaled in the run so that sizes that differ in the
code still differ. The id of a PARTY_START may be wider in the message than on
the wire, as in the code; `RoundTrip` says that it comes out narrowed and everything
else unchanged.

Choices of the command line: an argument is what `option_pattern` makes of it (a long
option with or without a value, a group of letters, `--`, something malformed, anything
else), with what it would mean as the value of the option before it; characters are
not modelled. A number is a sign, a base and its digits. `UintMax` stands for 2^32 - 1,
and all arithmetic of `integer_parser` and of `num_hares` is modulo `UintMax + 1`. All ranks
get the same arguments, as `mpirun` gives them. `MPI_Abort` ends the rank that calls it
and reaches the others some time later (`Killed`).

## 3. What the runs show

| run | instance | what it checks |
|---|---|---|
| `core_safety` | 3 hares, capacity 2, process 0 asks twice; any timing | `TypeOK`, `WantOnlyWhenIdle`, `OwnRequestQueued`, `TicketsAreNewest`, `RepliesFenceRequests`, `PartiesAreExact`, `WaitingMissesReply` |
| `core_prompt` | 1 hare, 2 bears, capacity 5, the hare asks twice; parties outlast traffic, fair | `QueuedIsKnownToAll`, `NoLostRequest`, `OldestLeads`, `HeadStartsParty`, `LeaderIsFree`, `LeadingNow`, `DueUntilServed`, `RequestsAreAnswered`, `OldestIsServed` |
| `policy_on_queue` | 4 hares, 2 bears, timestamps 1..2, 6 addresses up to symmetry, capacities 1..11 | `IteratorsValid`, `ImplementsTicketSet`, `PolicySound`, `PolicyComplete`, `BearsPreferred`, `OldestFirst` |
| `runtime` | 3 hares, capacity 2, two of them ask once; one buffered message per pair; fair | `TypeOK`, `ImplementsAlgorithm`, `NoCircularWait`, `MessagesAreHandled`, no deadlock |
| `wire` | bytes of 4 values, timestamps of 2 bytes and all else of 1, at most 2 participants accepted; messages with up to 3, and all buffers of up to 8 bytes | `RoundTrip`, `TruncationIsDetected`, `NothingInvented` |
| `command_line` | 2 ranks, 8-bit numbers, all command lines of up to 3 of 18 arguments, and all numbers of up to 3 digits in all notations | `ParsesAsWritten`, `RefusesOnlyErrors`, `NoOptionIsSwallowed`, `ConfigIsSound`, `RunsTogether` |

Why the bounds are enough. Three processes are the fewest for the hazards of the
protocol: a requester, a leader and a third that sees their messages in the wrong
order. A party of two among three leaves one outside, who can become the next
leader. A second request of one process gives stale replies, ghosts of old
tickets and a PARTY_START that meets a newer ticket; the runs that end in a
violation use exactly these bounds or smaller ones, so the bounds reach those cases.
`core_safety` has about 1.6 million states, `core_prompt` about half a million. In
`core_prompt` every party needs the hare, and the bears outnumber it: the two
bears compete, and the policy fails for the head until the hare comes back. Then a
second party is possible, and the ticket of the bear that has had the first can still be
in a queue, at its head too: `stale_head` has the same bounds and ends in such a state.

`policy_on_queue` has capacities below and above every weight that its candidates
can reach; two timestamps give ties that the pid decides. There are as many
addresses as tickets, so freed nodes are reused, and addresses are only compared
for equality, so permuting them is sound. A bear weighs 3 there: the weights are
arguments of the policy's constructor, and with 3 the four hares can fill the
place of a hare and a bear, as five do with the default weight. The code counts in
unsigned integers, the model in integers: the guards at `lamport_policy.cpp:25`, `48` and
`60` keep every subtraction from wrapping, and are in the model as the bounds of
`BearCounts`. A wrap is therefore never taken, and what one would do is not modelled.

`runtime` lets two ranks ask, so that the two broadcasts, the replies of all
ranks and the PARTY_START cross one another, in MPI and in the vectors; the third
rank only answers. That is every kind of message in every place. What the buffers
must hold depends on the traffic: with all three ranks asking, one message per pair
is not enough and two are (checked by hand; 12 million states, too many for
a run kept here). In general a request costs two messages per pair and a party
one, and nothing in the program limits how many are under way.

`wire` has one participant more than is accepted, one more id than fits, and buffers
long enough for a PARTY_START with every field and a participant. The program's own limit
of 1 000 000 participants cannot be reached by a party, whose size is bounded by the
number of ranks.

`command_line`: a value that is taken from the wrong place needs two options and a
value, hence three arguments. With 8 bits, 25 and 15 are the greatest results that
another decimal or hexadecimal digit may follow, and three digits reach both sides
of both. The defaults are scaled to the world of two ranks (1 bear, capacity 2). With
the real defaults (5 bears) a world of fewer than six processes is refused unless
`--num-bears` is given, `./build/apps/mhb` without `mpirun`, as the README's build
section has it, included.

Deadlock is not checked in the runs of the core: when all requests of the bound
have been issued and handled, the model stops, and nobody has to release a party.
Being stuck is what `HeadStartsParty`, `DueUntilServed` and `OldestIsServed` are about.
Each says that a stale ticket (of a process that asks for nothing) at the head of
the oldest requester's queue is the only reason why a party that the requests allow
is not started, when parties outlast traffic. `NobodyIsStuck` says it without that
exception, and is false (`stale_head`). The loops of
`Runtime` never stop, so `runtime` does check deadlock; `blocked_sends`, whose
finding is one, states it as a property instead. `wire` ends at the longest buffer
and `command_line` where `main` enters the loop or ends.

**Fairness.** `FairSpec` has weak fairness of one thing: some process handles some
message while there are any. `Run` polls for ever and handles all that `Poll`
returns. One global condition is enough, since the traffic of a bounded number of
requests is finite: whatever the order, all of it is handled. Nobody has to want a
party (`WantParty` is a random draw) and no party has to end.

`Runtime` has weak fairness of every rank's loop (`Step`): the thread runs, and an
`MPI_Send` that can return does. `Receive` has strong fairness, for each pair of
ranks: it is enabled only while the rank polls, and again in every round, so a
message that stays in MPI is found in one of them. `MPI_Iprobe` with
`MPI_ANY_SOURCE` promises no less, and without it a rank could poll for ever and find
nothing. `HandleLocal` includes the poll of `LocalThread` that returns nothing, so
nobody has to want a party there either. `CommandLine` has weak fairness of every rank.

### Where the code departs from what the repository says

| run | property | what happens |
|---|---|---|
| `party_twice` | `MembersAreFree` | A member of a party is named by a second PARTY_START, which the comment at `lamport_queue_algorithm.cpp:131` says should not happen. |
| `stale_reply` | `QueuedIsKnownToAll` | A reply to an old request completes the set for the new one: README step 3, `state.hpp:13`. `OnMsg(Reply)` never looks at `request_ticket` (line 118). |
| `lost_request` | `HeadStartsParty` | A late PARTY_START removes a newer ticket by pid (line 127). The replica of one bear misses the hare; this bear is the head and never starts the party, the hare is queued behind it, and nothing is in flight. The other bear has had its party with the hare, and would change nothing if it came back. README steps 4 and 5. |
| `stale_head` | `NobodyIsStuck` | A REQUEST is handled after the PARTY_START that served it (line 104). Its ticket stays at the head of the queue of the process that now has the oldest request. Two processes are queued, a party of the two is possible and nothing is in flight, until the third, by a random draw, asks again. README steps 4 and 6. |
| `lone_process` | `WaitingMissesReply` | With one process (`--num-bears 0 --party-capacity 1`), nothing runs `Recompute` after the request (line 158). README step 3. |
| `blocked_sends` | `MessagesAreHandled` | Two processes request at once and MPI makes `MPI_Send` wait for the receiver: both stay inside `Broadcast` (`mpi_transport.cpp:37`). README, limitation 1: "all messages are eventually delivered". |

`party_twice` and `stale_head` need no slow process: two channels of different speed
are enough, within one party (both are violated with `PartyOutlastsTraffic = TRUE`). They
begin with a REQUEST that is handled after the PARTY_START which served it: the ticket of a
member stays in a queue (line 104, the check at lines 95-102 is commented out) although,
by README step 6, participants leave all queues. The leader of such a queue can take the
member a second time, or, when the ticket is at the head, there is no leader.
`stale_reply` and `lost_request` need a message slower than a party, and `core_prompt`
shows that they are gone when there is none.

## 4. What is proved

The theorems hold for every number of hares and bears, every capacity and weights
of the assumption, any number of requests and, where nothing else is said, both values of
`PartyOutlastsTraffic`. Assumptions: `ConfigAssumption` (what `ApplyCli` accepts),
`AlgorithmAssumption` and `RuntimeAssumption` (types of the constants); for the wire protocol
`WireAssumption` (a byte has more values than there are types of messages, no integer has
size 0) and `WireCheckAssumption` (the number of members of a party fits the 32 bits of the
count: there are no more of them than ranks, and MPI counts ranks with an `int`).

* `TypeCorrect` (`LamportQueueProofs`): `TypeOK` is inductive. It needs a fact
  about the policy: a group consists of candidates of the queue (`GroupIsPids`).
  `RecomputeCases` splits `Recompute` into staying out of a party and starting
  one; the other proofs use that split.
* `WishesComeWhenIdle`, `OwnRequestIsQueued`, `RepliesFence`, `RequestIsNewest`
  (`LamportQueueProofs`), from one inductive invariant `IInv`:
  * `TypeOK`;
  * `LocalThreadAgrees`: `inside` is the state `inParty`, and a wish is left only
    when the algorithm is idle or in a party. `WantOnlyWhenIdle` is not inductive
    alone: `MayWant` reads two fields of `LocalThread`, and both must be tied to
    `AppState` through a PARTY_START that comes in any state;
  * `OwnRequestQueued`: the pending ticket is in the own queue and nothing else of
    the process is;
  * `ChannelsInOrder`: every channel carries increasing stamps, none ahead of its
    sender's clock, and a reply is stamped later than its request.
    `RepliesFenceRequests` is not inductive (it says nothing of a reply that is
    about to be sent); it follows from the order, because a request behind a
    reply is stamped later than the reply, and the reply later than the request it
    answers;
  * `Newest`: tickets and requests of a process are neither ahead of its clock nor
    newer than its pending one. Here the FIFO order is not needed, only the clock.

  Each action has a lemma, each conjunct a step in it; `GoToPartyIInv` and
  `RecomputeIInv` serve all handlers.
* `WaitersMissReply` (`LamportQueueProofs`), with the hypothesis `WorldSize > 1`:
  `WaitingMissesReply` is inductive relative to `TypeOK`. Every handler that marks
  a reply ends in `Recompute`, which leaves a process waiting only when a reply is
  missing (`RecomputeAwaits`); the request itself marks one reply and is the step
  that needs a second process.
* `IteratorsStayValid`, `QueueImplementsTicketSet` (`RequestQueueProofs`): the map
  and the set of `RequestQueue` stay in one-to-one correspondence, so an equal
  ticket in the set is always erased before the insert (`InsertFindsNoEqual`: the
  branch in which `std::set` refuses a ticket is never taken), and every step of the
  class is a step of `TicketSet` or a stutter.

* `LeadingIsInvariant` (`LeaderProofs`), with the hypothesis `PartyOutlastsTraffic`: `LeadingNow` is
  inductive relative to the invariants above, and implies `QueuedIsKnownToAll`, `NoLostRequest`,
  `OldestLeads` and the action property `LeaderIsFree` (theorems `QueuedIsKnown`, `RequestsAreKept`,
  `LeaderIsOldest`, `StartersAreFree`). The hypothesis is needed: without it `stale_reply` and
  `lost_request` violate the first two. It is used in one place, the end of a party: a process that
  leaves one has no request, reply or PARTY_START of it under way. The conjuncts:
  * `Exchange`, `Current`, `Own`, `Complete`: between a requester and every other process there
    is one message of the current request at most, and a queued process has every reply;
  * `Fenced`: what a process that has replied sends from then on is younger than the request it
    has replied to, the step of Lamport's argument that two processes share;
  * `Announcing`, `Exclusive`, `Forgotten`: where the leader, the members and the others stand
    while a PARTY_START is under way, and that no leader is a member of another's party;
  * `NothingLost`, `HeldBack`: a ticket is only missing from a queue if its owner is about to be
    taken into a party, and a requester to which a PARTY_START is on its way cannot start a party
    before it has taken it: it still has the leader's older ticket, or misses a reply that
    the channel has behind the PARTY_START. Without the second, which relates three
    processes, a replica that has forgotten the leader's ticket early would make a second leader.

  A handler is proved in the stages it has in the code: the message is taken, the queue and the
  tracker change, then `Recompute` starts a party or does not (`LeaderStageProofs`; this is why the
  conjuncts take their variables as arguments). `LeaderProofs` puts the stages together, one
  lemma for each action.
* `GroupsAreValid`, `FailureIsRight`, `MostBears`, `OldestGoFirst` (`RequestQueueProofs`), on every
  snapshot of the class, for every capacity. The loops take prefixes of sorted candidates,
  so the proofs count: the rank of a ticket is a bijection from a finite set of
  tickets to `0 .. n - 1` (`RankIsBijection`), hence a prefix has the size asked for
  (`OldestCount`), and the weight of the group is the capacity (`FormGroupSound`).
  `FormGroupComplete` turns a valid group into a number of bears that
  qualifies, and the greatest that does is taken. The theorems need hares and bears
  to differ in weight (the code tells them apart by weight alone), and completeness
  needs hares of weight 1, which `TryFormGroup` demands; the program's weights are 1 and 4.
* `PartiesStayExact` (`PartyProofs`), for any timing: what `FormGroupSound` says of a group
  stays true of it in the channels and at the members (`ExactInv`, the induction over the
  handlers).
* `HeadsStartParties` (`PartyProofs`), when parties outlast traffic, there are two processes
  or more, and hares and bears differ in weight: with nothing under way, the owner of the
  oldest outstanding request starts the party that the requests allow, unless a stale ticket is
  at the head of its queue. The owner is queued (a waiting one misses a reply, `WaitersMissReply`,
  which would be under way), and its queue has every outstanding request (`LeadingNow`), so the
  head is its own ticket or one that is over. After every handler a queued head has no
  group to form (`AllAttentive`, inductive because the handlers that change a queue without
  running `Recompute` leave the process waiting, after its own request, or in a party). There
  may be tickets in the queue, behind its own, that are over; more candidates do
  not make a possible party impossible (`MoreCandidates`, from `FormGroupComplete`). So the
  requests allow no party. The exception is needed, as `stale_head` shows, and so is the timing
  (`lost_request`).
* `NobodyOvertakes` (`PartyProofs`), when parties outlast traffic and hares and bears differ in
  weight: a process that is due a party (queued, with the oldest request that no party has taken,
  and those requests allow one) stays due until it is in a party or named in one. The only step
  that takes requests is the start of a party, and who starts one has the oldest of those requests
  when it does (`OnlyDueStarts`, from `OlderIsNamed`, the lemma behind `OldestIsLeader`); so if it
  is another process, it names the one that was due. The other handlers take a request only from a
  process that a party names (`HandleUnmoved`). A new request is younger than all those of queued
  processes (the fence in `LeadingNow`), and one more candidate does not make a possible party
  impossible (`MoreCandidates`, `WantDue`). The theorem does not say that the party comes:
  a stale ticket at the head of its queue may keep the process due for ever (`stale_head`).

* `LoopsAreTyped`, `LoopsImplementAlgorithm` (`RuntimeProofs`), for every number of messages that
  MPI buffers: every step of the event loops is a step of `LamportQueueAlgorithm` with any timing of
  the parties, or a stutter. So the loops keep every safety property that is proved above for any timing.
  * `TypeOK` is the invariant that the refinement needs. It says more than types: no rank has its
    own messages in its vector or among its actions (`Broadcast` leaves the rank itself out), so that
    the three places of `Unhandled` hold the traffic of a pair and nothing else.
  * `Of` is defined by recursion over a sequence. That it exists, and what it does with a
    head, with an appended entry and with the entries of a broadcast, is proved by induction over
    the set of the lengths for which it holds (`UpToN`, `UpToExists`, `OfHead`, `OfAppend`,
    `BroadcastFacts`).
  * An `MPI_Send`, an `MPI_Recv` and the end of a poll move a message from one place to the next and
    leave their concatenation as it is (`ExecuteMoves`, `ReceiveMoves`, `EndPollMoves`).
  * The next event of the vector is the oldest unhandled message of its sender, whatever has
    arrived from the others (`NextEvent`), and what its handler sends comes after everything the rank has
    sent before, because no action is left from an earlier event (`Drained`; `NetMoves`,
    `LocalMoves`). If a handler could run before the actions of the last one are executed, this is the
    step that would fail.

* `SentIsDecoded`, `CutIsRefused`, `DecodedWasWritten` (`WireProofs`): for bytes of any number of values,
  integers of any sizes, any number of participants and any limit on them. The state has little to
  say (`IInv`: a buffer is bytes, and those of the message it was made from); the work is about the
  operators.
  * `Power`, `Written`, `Sums` and `Readers` are recursive functions. That such a function exists
    (`RecursionExists`, `PowerExists`) and what follows by induction is proved by
    induction over the set of numbers for which it holds, as for `Of` above.
  * An integer: `ValueOfBytes` says that the value of the bytes of a number is the number modulo
    `Power[size]`, whatever was narrowed, and `BytesOfValue` that the bytes of a value are
    the bytes it was read from. Both rest on the uniqueness of quotient and remainder.
  * A row of integers: `ReadAllFinds` (what is written in front of a tail is read, and the tail
    is left) and `ReadAllTakes` (what has been read without a failure, written again, is what was taken).
  * A message: `SentDecodes` (a message in front of any tail is decoded) gives `SentIsDecoded`, and
    `DecodedIsWritten` (a message that is decoded is written at the beginning of the buffer)
    gives `DecodedWasWritten`. `CutIsRefused` follows from both: if a prefix of a buffer could be
    decoded, the buffer would begin with the message found in the prefix and be decoded to it; it
    is decoded to what was sent, whose bytes are the whole buffer. A cut in the middle of
    the participants, of an integer or between two of them needs no case of its own.

**Only model-checked:** liveness (out of the prover's reach); `NoCircularWait`, which holds for the traffic that the
instance's requests make and the messages its MPI buffers, and not for every value of
the constants (`blocked_sends`); the command line, whose properties are about
folds over digits and arguments (`ConfigIsSound` too: that a capacity is a number at all
rests on the digits of the defaults, which are found with powers of ten).

## 5. What is not modelled

* `Runtime::Stop`, which nothing calls; the sleep of a millisecond, which only
  separates rounds; logging.
* The limit of the id's and the clock's width beyond `PartyIdSpan`: a 64-bit clock does
  not wrap, and no step depends on an id.
* In `cxxopts`: help texts, containers and positional options, other types of values, and
  the variant without regular expressions. The program uses none of them, except
  that `--help` prints the text.
* Different arguments for different ranks (`mpirun` can be told to), `run_seconds` and
  `max_parties` of `Config`, which are never read.
* A capacity that no group can reach is accepted by `ApplyCli`, and then nobody ever
  gets a party. No property is about it: the repository promises nothing there.
* Failures of processes and messages: the repository excludes them (README,
  limitations 1 and 2) and the code has nothing for them.

## 6. Plan

Done: all components; the type invariant and the first safety invariants of the
core, the leader's election and its order when parties outlast traffic, the policy, the refinement of
the queue, the refinement of the algorithm by the event loops and the wire protocol proved;
the command line model-checked.

1. An abstract specification of the service (parties as disjoint groups of exact
   weight). The code does not implement it, whatever the timing of the parties
   (`party_twice`), unless a REQUEST is always handled before the PARTY_START that serves it;
   the refinement under that assumption would show that nothing else is missing.
