------------------------------- MODULE MCWire -------------------------------
(***************************************************************************)
(* Bytes of four values, processes and ids of one byte and timestamps of   *)
(* two: every width of the protocol that differs from another still does.  *)
(***************************************************************************)
EXTENDS WireCheck

MCWidestId == Power[PartyIdSize]
=============================================================================
