--------------------------- MODULE LamportPolicy ----------------------------
(***************************************************************************)
(* Choosing the members of a party (policy/lamport_policy).  The           *)
(* candidates are the snapshot of the leader's queue, a set of tickets     *)
(* with one ticket per process; the order of the vector is the order of    *)
(* the tickets.  The group is the set of the chosen pids, {} when the      *)
(* policy finds none: the order of the vector of members is never used.    *)
(***************************************************************************)
EXTENDS Tickets

\* Slips in the policy, each in place of the operator that follows it: the
\* youngest candidates, no check that there are enough hares, a place for a
\* hare beside a leader that is one, and counting the bears upwards.
Youngest(S, n) == {t \in S : Cardinality({u \in S : Before(t, u)}) < n}
BearCountsUnchecked(capacity, leader, hares, bears) ==
  {b \in 0 .. Cardinality(bears) :
     capacity - WeightOf(leader.pid) - b * BearWeight >= 0}
BearCountsPlaceForHare(capacity, leader, hares, bears) ==
  {b \in 0 .. Cardinality(bears) :
     LET h == capacity - WeightOf(leader.pid) - b * BearWeight
     IN  1 <= h /\ h <= Cardinality(hares)}
FewestBears(counts) == CHOOSE b \in counts : \A c \in counts : b <= c

\* The candidates that come first: the loops over `bears` and `hares` take
\* a prefix of each.
Oldest(S, n) == {t \in S : Cardinality({u \in S : Before(u, t)}) < n}

\* The loop at line 59: how many bears may join, so that the hares left over
\* fill the remaining capacity exactly and the party has a hare.  The early
\* returns before the loop (a leader heavier than the capacity, no hare for
\* a bear, no room for one) are cases in which no number qualifies.
BearCounts(capacity, leader, hares, bears) ==
  LET remaining    == capacity - WeightOf(leader.pid)
      placeForHare == IF WeightOf(leader.pid) = HareWeight THEN 0 ELSE 1
      HaresFor(b)  == remaining - b * BearWeight
  IN  {b \in 0 .. Cardinality(bears) :
         HaresFor(b) >= placeForHare /\ HaresFor(b) <= Cardinality(hares)}

\* The number of bears taken: the first that qualifies, counting down.
BearsToTake(counts) == CHOOSE b \in counts : \A c \in counts : c <= b

\* The group that a policy made for a capacity (capacity_) forms.
FormGroup(capacity, candidates) ==
  IF candidates = {} \/ HareWeight # 1 THEN {}
  ELSE
  LET leader == CHOOSE t \in candidates : IsFirst(t, candidates)
      others == candidates \ {leader}
      hares  == {t \in others : WeightOf(t.pid) = HareWeight}
      bears  == {t \in others \ hares : WeightOf(t.pid) = BearWeight}
      counts == BearCounts(capacity, leader, hares, bears)
      b      == BearsToTake(counts)
      h      == capacity - WeightOf(leader.pid) - b * BearWeight
  IN  IF counts = {} THEN {}
      ELSE {t.pid : t \in {leader} \cup Oldest(bears, b) \cup Oldest(hares, h)}

\* What the algorithm asks of the policy it was made with.
TryFormGroup(candidates) == FormGroup(PartyCapacity, candidates)
=============================================================================
