---------------------------- MODULE MCSharedMemory ----------------------------
(* The two structures of the shared memory without a lock, for TLC: one    *)
(* ring of three slots (two usable frames) with enough frames to wrap the  *)
(* indices twice, and one observation record with two counters, enough to  *)
(* tell updates apart.  They share no word, so a behaviour follows one of  *)
(* them.                                                                   *)
EXTENDS MailMsgRing, Observation

VARIABLE follows   \* the structure this behaviour is about

MCInit == Init /\ ObservationInit /\ follows \in {"ring", "record"}

RingStep == follows = "ring" /\ Next /\ UNCHANGED <<recordVars, follows>>
RecordStep == follows = "record" /\ ObservationNext /\ UNCHANGED <<vars, follows>>

MCSpec == MCInit /\ [][RingStep \/ RecordStep]_<<vars, recordVars, follows>>
=============================================================================
