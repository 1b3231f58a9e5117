---------------------------- MODULE MCCpu3Worker ----------------------------
(* Cpu3Worker for TLC: two priorities, so that one can starve the other. *)
EXTENDS Cpu3Worker
=============================================================================
