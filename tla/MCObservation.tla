---------------------------- MODULE MCObservation ----------------------------
(* Observation for TLC: two counters are enough to tell updates apart. *)
EXTENDS Observation
=============================================================================
