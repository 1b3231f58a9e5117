----------------------------- MODULE WindowBench -----------------------------
(***************************************************************************)
(* tools/mailmsg_window_bench.c: one process keeps up to window PINGs of   *)
(* one priority outstanding until its deadline, drains what is left for a  *)
(* bounded time, and exits with a verdict the board tests rely on.         *)
(*                                                                         *)
(* Every system call and every reading of the clock is a step.  The slots  *)
(* are the set of the values outstanding; latencies are left out, and the  *)
(* error counters are one flag, because the verdict only asks whether they *)
(* are zero.                                                               *)
(***************************************************************************)
EXTENDS RequestService

CONSTANT Windows   \* window sizes the benchmark is called with

ASSUME WindowAssumption == Windows \subseteq 1 .. Modulus - 1

VARIABLES
  phase,         \* top, fill, poll, read, drain, drain_read, done
  window,        \* the argument
  slots, outstanding, next_value,
  write_ok, acks, pongs,
  fault,         \* write_other, read_error, nack, duplicate or unknown
  expired,       \* the measurement deadline has passed
  drain_expired  \* and so has the five seconds' drain

countVars == <<slots, outstanding, acks, pongs>>
clockVars == <<window, expired, drain_expired>>
windowVars == <<serviceVars, phase, countVars, next_value, write_ok, fault, clockVars>>

BenchInit ==
  /\ ServiceInit
  /\ reliable \in BOOLEAN /\ window \in Windows
  /\ phase = "top"
  /\ slots = {} /\ outstanding = 0 /\ next_value = 0
  /\ write_ok = 0 /\ acks = 0 /\ pongs = 0
  /\ fault = FALSE
  /\ expired = FALSE /\ drain_expired = FALSE

Ping(value) == [type |-> "PING", arg |-> value, valid |-> TRUE, status |-> "OK"]

Top ==
  /\ phase = "top"
  /\ phase' = IF expired THEN "drain" ELSE "fill"
  /\ UNCHANGED <<serviceVars, countVars, next_value, write_ok, fault, clockVars>>

(* Mutant: one request more than the window.                               *)
HasFreeSlotLate == outstanding <= window

HasFreeSlot == outstanding < window /\ Cardinality(slots) < window

FillWrite ==
  /\ phase = "fill" /\ HasFreeSlot
  /\ next_sequence < MaxSequence
  /\ LinuxSend(Ping(next_value))
  /\ slots' = slots \cup {next_value}
  /\ next_value' = (next_value + 1) % Modulus
  /\ write_ok' = write_ok + 1
  /\ outstanding' = outstanding + 1
  /\ UNCHANGED <<phase, acks, pongs, fault, clockVars>>

FillFull ==
  /\ phase = "fill" /\ HasFreeSlot
  /\ next_sequence < MaxSequence
  /\ LinuxSendFull
  /\ phase' = "poll"
  /\ UNCHANGED <<countVars, next_value, write_ok, fault, clockVars>>

FillOffline ==
  /\ phase = "fill" /\ HasFreeSlot
  /\ ~active
  /\ phase' = "drain"
  /\ fault' = TRUE
  /\ UNCHANGED <<serviceVars, countVars, next_value, write_ok, clockVars>>

(* The window is full, or the model's bound on requests is reached.        *)
FillDone ==
  /\ phase = "fill"
  /\ ~HasFreeSlot \/ (active /\ next_sequence = MaxSequence)
  /\ phase' = "poll"
  /\ UNCHANGED <<serviceVars, countVars, next_value, write_ok, fault, clockVars>>

(* poll with 10 ms: POLLERR, POLLIN or nothing.                            *)
Poll ==
  /\ phase = "poll"
  /\ phase' = IF ~active THEN "drain"
              ELSE IF to_linux # <<>> THEN "read" ELSE "top"
  /\ fault' = (fault \/ ~active)
  /\ UNCHANGED <<serviceVars, countVars, next_value, write_ok, clockVars>>

(* read until EAGAIN; any other error ends the measurement.                *)
ReadNothing ==
  /\ phase \in {"read", "drain_read"}
  /\ ~active \/ to_linux = <<>>
  /\ phase' = IF active /\ phase = "read" THEN "top" ELSE "drain"
  /\ fault' = (fault \/ ~active)
  /\ UNCHANGED <<serviceVars, countVars, next_value, write_ok, clockVars>>

(* A PONG of 0 is unknown, one whose value is not outstanding a duplicate. *)
ReadFrame ==
  LET frame == Head(to_linux)
      found == frame.type = "PONG" /\ frame.arg # 0 /\ frame.arg - 1 \in slots
  IN  /\ phase \in {"read", "drain_read"}
      /\ LinuxReceive
      /\ acks' = IF frame.type = "ACK" THEN acks + 1 ELSE acks
      /\ slots' = IF found THEN slots \ {frame.arg - 1} ELSE slots
      /\ outstanding' = IF found THEN outstanding - 1 ELSE outstanding
      /\ pongs' = IF found THEN pongs + 1 ELSE pongs
      /\ fault' = (fault \/ ~(found \/ frame.type = "ACK"))
      /\ UNCHANGED <<phase, next_value, write_ok, clockVars>>

Drain ==
  /\ phase = "drain"
  /\ outstanding # 0 /\ ~drain_expired
  /\ active /\ to_linux # <<>>
  /\ phase' = "drain_read"
  /\ UNCHANGED <<serviceVars, countVars, next_value, write_ok, fault, clockVars>>

(* Mutant: the drain has no deadline.                                      *)
DrainEndsUnbounded ==
  /\ phase = "drain"
  /\ outstanding = 0 \/ ~active
  /\ phase' = "done"
  /\ UNCHANGED <<serviceVars, countVars, next_value, write_ok, fault, clockVars>>

DrainEnds ==
  /\ phase = "drain"
  /\ outstanding = 0 \/ drain_expired \/ ~active
  /\ phase' = "done"
  /\ UNCHANGED <<serviceVars, countVars, next_value, write_ok, fault, clockVars>>

(* Mutant: the verdict of an unreliable priority for every priority.       *)
ExitCodeLenient == IF fault THEN 1 ELSE 0

ExitCode ==
  IF fault \/ (reliable /\ (outstanding # 0 \/ acks # write_ok \/ pongs # write_ok))
    THEN 1 ELSE 0

(* The clock.  The drain's five seconds start when the drain starts.       *)
DeadlinePasses ==
  /\ ~expired /\ phase \in {"top", "fill", "poll", "read"}
  /\ expired' = TRUE
  /\ UNCHANGED <<serviceVars, phase, countVars, next_value, write_ok, fault,
                 window, drain_expired>>

DrainDeadlinePasses ==
  /\ ~drain_expired /\ phase \in {"drain", "drain_read"}
  /\ drain_expired' = TRUE
  /\ UNCHANGED <<serviceVars, phase, countVars, next_value, write_ok, fault,
                 window, expired>>

Bench ==
  \/ Top \/ FillWrite \/ FillFull \/ FillOffline \/ FillDone
  \/ Poll \/ ReadNothing \/ ReadFrame \/ Drain \/ DrainEnds

benchVars == <<phase, countVars, next_value, write_ok, fault, clockVars>>

BenchService == Cpu3Next /\ UNCHANGED benchVars

Done == phase = "done" /\ UNCHANGED windowVars

BenchNext == Bench \/ BenchService \/ DeadlinePasses \/ DrainDeadlinePasses \/ Done

BenchSpec == BenchInit /\ [][BenchNext]_windowVars

(* Linux runs the process and time passes; CPU3 may hang.                  *)
BenchFairSpec ==
  /\ BenchSpec
  /\ WF_windowVars(Bench)
  /\ WF_windowVars(DeadlinePasses) /\ WF_windowVars(DrainDeadlinePasses)
-----------------------------------------------------------------------------
(* Type invariant of the benchmark and of the service under it.            *)
BenchTypeOK ==
  /\ ServiceTypeOK
  /\ phase \in {"top", "fill", "poll", "read", "drain", "drain_read", "done"}
  /\ slots \subseteq 0 .. Modulus - 1
  /\ outstanding \in 0 .. window
  /\ write_ok \in 0 .. MaxSequence
  /\ acks \in 0 .. write_ok /\ pongs \in 0 .. write_ok

FramesPerRequest == IF reliable THEN 2 ELSE 1

(* A window whose replies all fit into the return ring never makes CPU3    *)
(* give up a reply, however long the reader sleeps: three requests of a    *)
(* reliable priority, seven of an unreliable one.                          *)
SafeWindow == FramesPerRequest * window <= Capacity
NoReplyRefused == SafeWindow => tx_full_count = 0

(* With a safe window a run that neither loses its session nor exhausts    *)
(* the drain nor wraps its values succeeds: no ACK is still unread when    *)
(* the last PONG ends the run.                                             *)
HealthyRunPasses ==
  /\ phase = "done" /\ active /\ ~drain_expired
  /\ SafeWindow /\ write_ok < Modulus
  => ExitCode = 0

(* Success on a reliable priority means that CPU3 carried out each request *)
(* that was accepted, and nothing else.                                    *)
SuccessMeansExecuted ==
  phase = "done" /\ ExitCode = 0 /\ reliable => Cardinality(executed) = write_ok

(* The process ends even when CPU3 never answers.                          *)
BenchEnds == <>(phase = "done")
=============================================================================
