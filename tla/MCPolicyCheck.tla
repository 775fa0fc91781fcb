--------------------------- MODULE MCPolicyCheck ----------------------------
(***************************************************************************)
(* Values for the run of RequestQueue and PolicyCheck: every capacity up   *)
(* to one more than the weight of all the candidates together.  Addresses  *)
(* are only compared for equality, so they can be permuted.  A bear weighs *)
(* three hares here (the weight is an argument of the policy), so that     *)
(* four hares can fill a place that one of them and a bear fill as well.   *)
(***************************************************************************)
EXTENDS PolicyCheck, TLC

MCStamps == 1 .. 2
MCCapacities == 1 .. NumHares * HareWeight + NumBears * BearWeight + 1

AddressSymmetry == Permutations(Address)
=============================================================================
