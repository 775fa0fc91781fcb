----------------------------- MODULE MCRuntime ------------------------------
(***************************************************************************)
(* Values of the bound MaxRequests for the runs of Runtime.                *)
(***************************************************************************)
EXTENDS RuntimeProperties

OneEach == [p \in Pid |-> 1]

\* The last rank only answers.
AllButLast == [p \in Pid |-> IF p = WorldSize - 1 THEN 0 ELSE 1]
=============================================================================
