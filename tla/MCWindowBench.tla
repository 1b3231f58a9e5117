---------------------------- MODULE MCWindowBench ----------------------------
(* WindowBench for TLC: the constants are given in the configurations.     *)
EXTENDS WindowBench
=============================================================================
