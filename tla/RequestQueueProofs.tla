------------------------- MODULE RequestQueueProofs -------------------------
(***************************************************************************)
(* For any set of processes, timestamps and addresses: the iterators of a  *)
(* RequestQueue never dangle, and the class implements TicketSet.  Then,   *)
(* for any number of hares and bears and any capacity: what LamportPolicy  *)
(* promises on every content a RequestQueue can have.  The hypotheses on   *)
(* the weights hold of the defaults (1 and 4), which nothing changes: with *)
(* equal weights the code would take bears for hares, and it refuses to    *)
(* form a group when a hare does not weigh 1.                              *)
(***************************************************************************)
EXTENDS PolicyCheck, PolicyProofs

\* Restricting a function keeps its other values.
LEMMA WithoutFacts ==
  ASSUME NEW f, NEW S
  PROVE  /\ DOMAIN Without(f, S) = DOMAIN f \ S
         /\ \A x \in DOMAIN f \ S : Without(f, S)[x] = f[x]
         /\ Range(Without(f, S)) = {f[x] : x \in DOMAIN f \ S}
BY DEF Without, Restrict, Range

\* Adding one pair to a function, at a point outside its domain.
LEMMA RangeWith ==
  ASSUME NEW f, NEW x, NEW v, x \notin DOMAIN f
  PROVE  Range(With(f, x, v)) = Range(f) \cup {v}
<1>1. \A w \in Range(With(f, x, v)) : w \in Range(f) \cup {v}
  BY DEF Range, With
<1>2. \A w \in Range(f) \cup {v} : w \in Range(With(f, x, v))
  BY DEF Range, With
<1> QED
  BY <1>1, <1>2

IInv == TypeOK /\ IteratorsValid

\* What erasing the nodes of some processes through their iterators leaves:
\* exactly the tickets of the others.
LEMMA EraseFacts ==
  ASSUME IInv, NEW pids
  PROVE  LET others == Without(node, NodesOf(pids))
             rest   == Without(iterator, pids)
         IN  /\ DOMAIN others = {a \in DOMAIN node : node[a].pid \notin pids}
             /\ \A a \in DOMAIN others : others[a] = node[a]
             /\ DOMAIN rest = DOMAIN iterator \ pids
             /\ \A p \in DOMAIN rest : rest[p] = iterator[p]
             /\ Range(others) = Remove(Range(node), pids)
<1> DEFINE others == Without(node, NodesOf(pids))
           rest   == Without(iterator, pids)
<1>1. DOMAIN others = DOMAIN node \ NodesOf(pids)
  BY WithoutFacts
<1>2. \A a \in DOMAIN node : a \in NodesOf(pids) <=> node[a].pid \in pids
  BY DEF IInv, IteratorsValid, NodesOf
<1>3. DOMAIN others = {a \in DOMAIN node : node[a].pid \notin pids}
  BY <1>1, <1>2
<1>4. \A a \in DOMAIN others : others[a] = node[a]
  BY <1>1, WithoutFacts
<1>5. DOMAIN rest = DOMAIN iterator \ pids
  BY WithoutFacts
<1>6. \A p \in DOMAIN rest : rest[p] = iterator[p]
  BY <1>5, WithoutFacts
<1>7. Range(others) = Remove(Range(node), pids)
  <2> HIDE DEF others
  <2> QED BY <1>3, <1>4 DEF Range, Remove
<1> QED
  BY <1>3, <1>4, <1>5, <1>6, <1>7

\* A ticket equal to the one inserted can only be the one just erased: the
\* branch of Insert in which std::set refuses the ticket is never taken.
LEMMA InsertFindsNoEqual ==
  ASSUME IInv, NEW t
  PROVE  t \notin Range(Without(node, NodesOf({t.pid})))
<1> DEFINE others == Without(node, NodesOf({t.pid}))
<1>1. Range(others) = Remove(Range(node), {t.pid})
  BY EraseFacts
<1> HIDE DEF others
<1>2. t \notin Range(others)
  BY <1>1 DEF Remove
<1> QED
  BY <1>2 DEF others

\* The invariant holds initially.
LEMMA InitIInv == Init => IInv
BY DEF Init, IInv, TypeOK, IteratorsValid

\* What Insert does, in terms of the tickets left after the erase.
LEMMA InsertStep ==
  ASSUME IInv, NEW t \in [pid : Pid, ts : Stamps], InsertTicket(t)
  PROVE  IInv' /\ Range(node') = Insert(Range(node), t)
<1> DEFINE others == Without(node, NodesOf({t.pid}))
           rest   == Without(iterator, {t.pid})
<1>1. /\ DOMAIN others = {a \in DOMAIN node : node[a].pid \notin {t.pid}}
      /\ \A a \in DOMAIN others : others[a] = node[a]
      /\ DOMAIN rest = DOMAIN iterator \ {t.pid}
      /\ \A p \in DOMAIN rest : rest[p] = iterator[p]
      /\ Range(others) = Remove(Range(node), {t.pid})
  BY EraseFacts
<1>2. PICK a \in Address \ DOMAIN others :
        node' = With(others, a, t) /\ iterator' = With(rest, t.pid, a)
  BY InsertFindsNoEqual DEF InsertTicket
<1>3. /\ DOMAIN node' = DOMAIN others \cup {a}
      /\ \A x \in DOMAIN others : node'[x] = others[x]
      /\ node'[a] = t
      /\ Range(node') = Range(others) \cup {t}
  <2> HIDE DEF others
  <2>1. /\ DOMAIN node' = DOMAIN others \cup {a}
        /\ \A x \in DOMAIN others : node'[x] = others[x]
        /\ node'[a] = t
    BY <1>2 DEF With
  <2>2. Range(node') = Range(others) \cup {t}
    BY <1>2, RangeWith
  <2> QED BY <2>1, <2>2
<1>4. /\ DOMAIN iterator' = DOMAIN rest \cup {t.pid}
      /\ \A p \in DOMAIN rest : iterator'[p] = rest[p]
      /\ iterator'[t.pid] = a
  <2>1. t.pid \notin DOMAIN rest
    BY <1>1
  <2> HIDE DEF rest
  <2> QED BY <1>2, <2>1 DEF With
<1>5. Range(node') = Insert(Range(node), t)
  BY <1>1, <1>3 DEF Insert, Remove
<1>6. node' \in [DOMAIN node' -> [pid : Pid, ts : Stamps]]
  <2>1. node' = [x \in DOMAIN node' |-> node'[x]]
    BY <1>2 DEF With
  <2>2. \A x \in DOMAIN node' : node'[x] \in [pid : Pid, ts : Stamps]
    <3> HIDE DEF others
    <3> QED BY <1>1, <1>3 DEF IInv, TypeOK
  <2> QED BY <2>1, <2>2
<1>7. iterator' \in [DOMAIN iterator' -> Address]
  <2>1. iterator' = [x \in DOMAIN iterator' |-> iterator'[x]]
    BY <1>2 DEF With
  <2>2. \A p \in DOMAIN iterator' : iterator'[p] \in Address
    <3> HIDE DEF rest
    <3> QED BY <1>1, <1>2, <1>4 DEF IInv, TypeOK
  <2> QED BY <2>1, <2>2
<1>8. TypeOK'
  <2> HIDE DEF others, rest
  <2>1. DOMAIN node' \subseteq Address
    BY <1>1, <1>2, <1>3 DEF IInv, TypeOK
  <2>2. DOMAIN iterator' \subseteq Pid
    BY <1>1, <1>4 DEF IInv, TypeOK
  <2> QED BY <1>6, <1>7, <2>1, <2>2 DEF TypeOK
<1>9. IteratorsValid'
  <2> HIDE DEF others, rest
  <2>1. \A p \in DOMAIN iterator' :
          iterator'[p] \in DOMAIN node' /\ node'[iterator'[p]].pid = p
    <3>1. \A p \in DOMAIN rest :
            iterator'[p] \in DOMAIN others /\ others[iterator'[p]].pid = p
      BY <1>1, <1>4 DEF IInv, IteratorsValid
    <3> QED BY <1>3, <1>4, <3>1
  <2>2. \A x \in DOMAIN node' :
          node'[x].pid \in DOMAIN iterator' /\ iterator'[node'[x].pid] = x
    <3>1. \A x \in DOMAIN others :
            others[x].pid \in DOMAIN rest /\ rest[others[x].pid] = x
      BY <1>1 DEF IInv, IteratorsValid
    <3> QED BY <1>3, <1>4, <3>1
  <2> QED BY <2>1, <2>2 DEF IteratorsValid
<1> QED
  BY <1>5, <1>8, <1>9 DEF IInv

\* What Remove does, in terms of the tickets it leaves.
LEMMA RemoveStep ==
  ASSUME IInv, NEW pids \in SUBSET Pid, RemoveTickets(pids)
  PROVE  IInv' /\ Range(node') = Remove(Range(node), pids)
<1>1. /\ DOMAIN node' = {a \in DOMAIN node : node[a].pid \notin pids}
      /\ \A a \in DOMAIN node' : node'[a] = node[a]
      /\ DOMAIN iterator' = DOMAIN iterator \ pids
      /\ \A p \in DOMAIN iterator' : iterator'[p] = iterator[p]
      /\ Range(node') = Remove(Range(node), pids)
  <2> DEFINE others == Without(node, NodesOf(pids))
             rest   == Without(iterator, pids)
  <2>1. node' = others /\ iterator' = rest
    BY DEF RemoveTickets
  <2>2. /\ DOMAIN others = {a \in DOMAIN node : node[a].pid \notin pids}
        /\ \A a \in DOMAIN others : others[a] = node[a]
        /\ DOMAIN rest = DOMAIN iterator \ pids
        /\ \A p \in DOMAIN rest : rest[p] = iterator[p]
        /\ Range(others) = Remove(Range(node), pids)
    BY EraseFacts
  <2> HIDE DEF others, rest
  <2> QED
    BY <2>1, <2>2
<1>2. node' = [x \in DOMAIN node' |-> node'[x]]
  BY DEF RemoveTickets, Without, Restrict
<1>3. iterator' = [x \in DOMAIN iterator' |-> iterator'[x]]
  BY DEF RemoveTickets, Without, Restrict
<1>4. TypeOK'
  BY <1>1, <1>2, <1>3 DEF IInv, TypeOK
<1>5. IteratorsValid'
  BY <1>1 DEF IInv, IteratorsValid
<1> QED
  BY <1>1, <1>4, <1>5 DEF IInv

\* The inductive step: Insert and Remove keep the map and the set together.
LEMMA NextIInv == IInv /\ [Next]_vars => IInv'
<1> SUFFICES ASSUME IInv, [Next]_vars PROVE IInv'
  OBVIOUS
<1>1. ASSUME NEW t \in [pid : Pid, ts : Stamps], InsertTicket(t) PROVE IInv'
  BY <1>1, InsertStep
<1>2. ASSUME NEW pids \in SUBSET Pid, RemoveTickets(pids) PROVE IInv'
  BY <1>2, RemoveStep
<1>3. CASE UNCHANGED vars
  BY <1>3 DEF vars, IInv, TypeOK, IteratorsValid
<1> QED
  BY <1>1, <1>2, <1>3 DEF Next

\* No erase of RequestQueue goes through a dangling iterator, and a process
\* has at most one ticket in the set (IteratorsValid), in every behaviour.
THEOREM IteratorsStayValid == Spec => []IteratorsValid
<1>1. IInv => IteratorsValid
  BY DEF IInv
<1> QED
  BY InitIInv, NextIInv, <1>1, PTL DEF Spec

\* The class implements the set of tickets that LamportQueueAlgorithm uses:
\* Insert and Remove of the class are Insert and Remove of module Tickets.
THEOREM QueueImplementsTicketSet == Spec => ImplementsTicketSet
<1>1. Init => TicketsHeld!Init
  BY DEF Init, TicketsHeld!Init, Range
<1>2. IInv /\ [Next]_vars => [TicketsHeld!Next]_(Range(node))
  <2> SUFFICES ASSUME IInv, [Next]_vars
               PROVE  TicketsHeld!Next \/ Range(node') = Range(node)
    OBVIOUS
  <2>0. /\ TicketsHeld!Pid = Pid
        /\ \A q, t : TicketsHeld!Insert(q, t) = Insert(q, t)
        /\ \A q, pids : TicketsHeld!Remove(q, pids) = Remove(q, pids)
    BY DEF TicketsHeld!Pid, TicketsHeld!WorldSize, Pid, WorldSize,
           TicketsHeld!Insert, Insert, TicketsHeld!Remove, Remove
  <2>1. ASSUME NEW t \in [pid : Pid, ts : Stamps], InsertTicket(t)
        PROVE  TicketsHeld!Next
    BY <2>0, <2>1, InsertStep DEF TicketsHeld!Next, TicketsHeld!InsertTicket
  <2>2. ASSUME NEW pids \in SUBSET Pid, RemoveTickets(pids)
        PROVE  TicketsHeld!Next
    BY <2>0, <2>2, RemoveStep DEF TicketsHeld!Next, TicketsHeld!RemoveTickets
  <2>3. CASE UNCHANGED vars
    BY <2>3 DEF vars
  <2> QED
    BY <2>1, <2>2, <2>3 DEF Next
<1> QED
  BY InitIInv, NextIInv, <1>1, <1>2, PTL
  DEF Spec, ImplementsTicketSet, TicketsHeld!Spec
-----------------------------------------------------------------------------
\* The tickets the policy is asked about are a snapshot: IteratorsValid leaves
\* no room for two tickets of a process.
LEMMA CandidatesAreSnapshot ==
  ASSUME IInv PROVE Snapshot(candidates)
<1>1. candidates = {node[a] : a \in DOMAIN node}
  BY DEF candidates, Range
<1>2. /\ DOMAIN node \subseteq Address
      /\ \A a \in DOMAIN node : node[a] \in [pid : Pid, ts : Stamps]
  BY DEF IInv, TypeOK
<1>3. candidates \in SUBSET Ticket
  BY <1>1, <1>2, RequestQueueAssumption DEF Ticket
<1>4. ASSUME NEW t \in candidates, NEW u \in candidates, t.pid = u.pid
      PROVE  t = u
  BY <1>1, <1>4 DEF IInv, IteratorsValid
<1>5. IsFiniteSet(candidates)
  <2> DEFINE pid == [t \in candidates |-> t.pid]
  <2>1. pid \in Injection(candidates, Pid)
    BY <1>3, <1>4 DEF Injection, IsInjective, Ticket
  <2>2. IsFiniteSet(Pid)
    BY FS_Interval, ConfigAssumption DEF Pid, WorldSize
  <2> HIDE DEF pid
  <2> QED BY <2>1, <2>2, FS_Injection
<1> QED
  BY <1>3, <1>4, <1>5 DEF Snapshot

\* The words of PolicyCheck in those of PolicyProofs.
LEMMA SameWords ==
  ASSUME NEW S, Snapshot(S)
  PROVE  /\ PidsOf(S) = Members(S)
         /\ \A g : Hares(g) = HaresAmong(g)
         /\ S # {} => \A p : Leads(p, S) <=> p = LeaderOf(S).pid
<1>1. ASSUME S # {}, NEW p PROVE Leads(p, S) <=> p = LeaderOf(S).pid
  <2>1. LeaderOf(S) \in S /\ IsFirst(LeaderOf(S), S)
    BY <1>1, LeaderFacts
  <2>2. \A t, u \in S : IsFirst(t, S) /\ IsFirst(u, S) => t = u
    BY <1>1, FirstExists DEF Snapshot
  <2> QED
    BY <2>1, <2>2 DEF Leads
<1> QED
  BY <1>1 DEF PidsOf, Members, Hares, HaresAmong

\* The same of a valid group.
LEMMA ValidGroupFacts ==
  ASSUME Snapshot(candidates), NEW c \in Capacities, NEW g
  PROVE  g \in ValidGroups(c) <=>
           /\ candidates # {} /\ g \in SUBSET Members(candidates)
           /\ LeaderOf(candidates).pid \in g
           /\ HaresAmong(g) # {}
           /\ Cardinality(HaresAmong(g)) * HareWeight
                + Cardinality(g \ HaresAmong(g)) * BearWeight = c
<1>1. CASE candidates # {}
  BY <1>1, SameWords DEF ValidGroups, Valid, BearsIn
<1>2. CASE candidates = {}
  BY <1>2 DEF ValidGroups, Leads
<1> QED
  BY <1>1, <1>2

\* A group the policy returns is valid, in every state of the queue.
THEOREM GroupsAreValid ==
  HareWeight # BearWeight => (Spec => []PolicySound)
<1> SUFFICES ASSUME HareWeight # BearWeight PROVE Spec => []PolicySound
  OBVIOUS
<1>1. ASSUME IInv PROVE PolicySound
  <2>1. Snapshot(candidates)
    BY <1>1, CandidatesAreSnapshot
  <2>2. SUFFICES ASSUME NEW c \in Capacities, FormGroup(c, candidates) # {}
                 PROVE  FormGroup(c, candidates) \in ValidGroups(c)
    BY DEF PolicySound
  <2>3. c \in Nat /\ candidates # {}
    BY <2>2, PolicyCheckAssumption DEF FormGroup
  <2> QED
    BY <2>1, <2>2, <2>3, FormGroupSound, ValidGroupFacts
<1> QED
  BY InitIInv, NextIInv, <1>1, PTL DEF Spec

\* No valid group exists when the policy fails, and none has more bears than
\* the one it returns.
LEMMA ValidGroupIsFound ==
  ASSUME HareWeight = 1, BearWeight # 1, IInv,
         NEW c \in Capacities, NEW g \in ValidGroups(c)
  PROVE  /\ FormGroup(c, candidates) # {}
         /\ BearsIn(g) <= BearsIn(FormGroup(c, candidates))
<1>1. Snapshot(candidates) /\ c \in Nat
  BY CandidatesAreSnapshot, PolicyCheckAssumption
<1>2. /\ candidates # {} /\ g \in SUBSET Members(candidates)
      /\ LeaderOf(candidates).pid \in g
      /\ HaresAmong(g) # {}
      /\ Cardinality(HaresAmong(g)) * HareWeight
           + Cardinality(g \ HaresAmong(g)) * BearWeight = c
  BY <1>1, ValidGroupFacts
<1>3. /\ FormGroup(c, candidates) # {}
      /\ Cardinality(g \ HaresAmong(g))
           <= Cardinality(FormGroup(c, candidates)
                            \ HaresAmong(FormGroup(c, candidates)))
  BY <1>1, <1>2, FormGroupComplete
<1> QED
  BY <1>1, <1>3, SameWords DEF BearsIn

\* The policy fails only when there is no valid group: counting the bears down
\* from the most that fit loses no combination.
THEOREM FailureIsRight ==
  HareWeight = 1 /\ BearWeight # 1 => (Spec => []PolicyComplete)
<1> SUFFICES ASSUME HareWeight = 1, BearWeight # 1
             PROVE  Spec => []PolicyComplete
  OBVIOUS
<1>1. IInv => PolicyComplete
  BY ValidGroupIsFound DEF PolicyComplete
<1> QED
  BY InitIInv, NextIInv, <1>1, PTL DEF Spec

\* No valid group has more bears than the one the policy returns.
THEOREM MostBears ==
  HareWeight = 1 /\ BearWeight # 1 => (Spec => []BearsPreferred)
<1> SUFFICES ASSUME HareWeight = 1, BearWeight # 1
             PROVE  Spec => []BearsPreferred
  OBVIOUS
<1>1. IInv => BearsPreferred
  BY ValidGroupIsFound DEF BearsPreferred
<1> QED
  BY InitIInv, NextIInv, <1>1, PTL DEF Spec

\* Who is left out has a younger ticket than the members of its species.
THEOREM OldestGoFirst ==
  HareWeight # BearWeight => (Spec => []OldestFirst)
<1> SUFFICES ASSUME HareWeight # BearWeight PROVE Spec => []OldestFirst
  OBVIOUS
<1>1. ASSUME IInv PROVE OldestFirst
  <2>1. Snapshot(candidates)
    BY <1>1, CandidatesAreSnapshot
  <2>2. \A c \in Capacities : c \in Nat
    BY PolicyCheckAssumption
  <2> QED
    BY <2>1, <2>2, FormGroupOldest DEF OldestFirst
<1> QED
  BY InitIInv, NextIInv, <1>1, PTL DEF Spec
=============================================================================
