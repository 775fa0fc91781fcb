---------------------- MODULE MCLamportQueueAlgorithm -----------------------
(***************************************************************************)
(* Values of the bound MaxRequests for the model-checking runs.            *)
(***************************************************************************)
EXTENDS LeaderInvariant

OneEach == [p \in Pid |-> 1]

\* Process p may come back with a second request.
Again(p) == [OneEach EXCEPT ![p] = 2]
Again0 == Again(0)
Again1 == Again(1)
=============================================================================
