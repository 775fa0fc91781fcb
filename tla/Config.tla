------------------------------- MODULE Config -------------------------------
(***************************************************************************)
(* The configuration every process is started with (core/config.hpp) and   *)
(* the checks the command line makes on it (apps/mhb_main.cpp, ApplyCli).  *)
(* Processes are MPI ranks; the first NumHares of them are hares.          *)
(***************************************************************************)
EXTENDS Integers, FiniteSets

CONSTANTS
  NumHares,       \* num_hares
  NumBears,       \* num_bears
  PartyCapacity,  \* party_capacity: the weight a party must reach exactly
  HareWeight,     \* hare_weight
  BearWeight      \* bear_weight

\* ApplyCli aborts on a zero capacity and on a world without hares; the
\* weights keep their defaults, which are positive.
ASSUME ConfigAssumption ==
  /\ NumHares \in Nat \ {0}
  /\ NumBears \in Nat
  /\ PartyCapacity \in Nat \ {0}
  /\ HareWeight \in Nat \ {0}
  /\ BearWeight \in Nat \ {0}

WorldSize == NumHares + NumBears

Pid == 0 .. WorldSize - 1

IsHare(p) == p < NumHares

WeightOf(p) == IF IsHare(p) THEN HareWeight ELSE BearWeight
=============================================================================
