----------------------------- MODULE PolicyCheck ----------------------------
(***************************************************************************)
(* What LamportPolicy::TryFormGroup promises, against a reference that     *)
(* looks at every group.  The policy is asked on the Snapshot of the       *)
(* RequestQueue, in every state that insertions and removals can bring the *)
(* class to, for a group of every capacity.                                *)
(***************************************************************************)
EXTENDS RequestQueue, LamportPolicy

CONSTANT Capacities  \* the party capacities

ASSUME PolicyCheckAssumption == Capacities \subseteq Nat \ {0}

\* Snapshot: what the set holds, in the order of the tickets.
candidates == Range(node)
-----------------------------------------------------------------------------
PidsOf(S) == {t.pid : t \in S}

Leads(p, S) == \E t \in S : t.pid = p /\ IsFirst(t, S)

Hares(group) == {p \in group : IsHare(p)}
BearsIn(group) == Cardinality(group \ Hares(group))

Valid(group, capacity) ==
  /\ Hares(group) # {}
  /\ Cardinality(Hares(group)) * HareWeight + BearsIn(group) * BearWeight
       = capacity

\* The groups the leader may start a party with (README, limitation 4).
ValidGroups(capacity) ==
  {g \in SUBSET PidsOf(candidates) :
     Valid(g, capacity) /\ \E p \in g : Leads(p, candidates)}
-----------------------------------------------------------------------------
\* A group the policy returns is valid and led by the oldest candidate; the
\* code has its own check of the weight commented out (lamport_policy.cpp:106).
PolicySound ==
  \A c \in Capacities :
    LET group == FormGroup(c, candidates)
    IN  group # {} => group \in ValidGroups(c)

\* The policy fails only when no valid group exists: counting down from the
\* greatest number of bears loses no combination.
PolicyComplete ==
  \A c \in Capacities :
    FormGroup(c, candidates) = {} => ValidGroups(c) = {}

\* No valid group has more bears (README, "Bears are preferred").
BearsPreferred ==
  \A c \in Capacities : \A g \in ValidGroups(c) :
    BearsIn(g) <= BearsIn(FormGroup(c, candidates))

\* A candidate is passed over only for older ones of its species.
OldestFirst ==
  \A c \in Capacities :
    LET group == FormGroup(c, candidates)
    IN  \A t, u \in candidates :
          /\ t.pid \in group /\ u.pid \notin group
          /\ IsHare(t.pid) <=> IsHare(u.pid)
          => Before(t, u)
=============================================================================
