---------------------------- MODULE AmpLifecycle ----------------------------
(***************************************************************************)
(* The life of CPU3 as the Linux driver drives it                          *)
(* (scripts/linux-support/drivers/lzamp_amp_mailmsg.c): load an image,     *)
(* CPU_ON, wait for SESSION_READY, open the data plane, stop, observe OFF, *)
(* rearm.  CPU3 (zephyr/app/src/main.c) boots, announces its session,      *)
(* serves frames and goes off; its worker is detailed in Cpu3Worker.       *)
(*                                                                         *)
(* Concurrency.  Every Linux handler runs under data->lock and is one      *)
(* action; the mailbox callback takes no lock.  The three works are        *)
(* queued, armed, fired and run as separate actions, so a work that fired  *)
(* before a handler cancelled it still runs afterwards.  CPU3 and the      *)
(* firmware take their steps at any time.                                  *)
(*                                                                         *)
(* Data.  A frame is its type and the one word lifecycle control compares: *)
(* the session generation, or the sequence of the STOP_REQUEST.  Time is   *)
(* one bit: whether jiffies has reached lifecycle_deadline.                *)
(***************************************************************************)
EXTENDS Integers, Sequences, FiniteSets

CONSTANTS
  Priority,       \* message priorities; 0 is MAILMSG_PRIO_CRITICAL
  RingCapacity,   \* usable frames of one ring
  WORD,           \* 2^32: generations and sequences wrap and skip zero
  ImageSize,      \* image chunks
  MaxOpen,        \* bound: open files
  Builds          \* the builds and environments, see Build

ASSUME PriorityAssumption == Priority \subseteq 0 .. 3 /\ 0 \in Priority
ASSUME BoundsAssumption ==
  /\ RingCapacity \in Nat \ {0}
  /\ WORD \in Nat /\ WORD >= 2
  /\ ImageSize \in Nat \ {0}
  /\ MaxOpen \in Nat

\* What a behaviour runs with from beginning to end.
Build ==
  [stop_control : BOOLEAN,     \* built with MAILMSG_ENABLE_STOP_CONTROL
   self_off : BOOLEAN,         \* built with MAILMSG_TEST_SELF_OFF_VALUE
   lag : BOOLEAN,              \* AFFINITY_INFO may say OFF after a good CPU_ON
   errors : BOOLEAN,           \* AFFINITY_INFO may fail
   used : SUBSET Priority]     \* bound: priorities users send on

ASSUME BuildAssumption == Builds \subseteq Build

VARIABLES
  build,          \* a member of Builds
  \* struct r1_amp_cpu_on_data
  mailmsg_state, image_written, cpu_on_attempted, cpu_on_ret, affinity_seen_on,
  session_generation, peer_generation, session_result,
  stop_request_sequence, stop_reply_type, stop_result,
  next_sequence, open_count,
  \* works and time
  deadline_passed, timeout_armed, timeout_running, control_queued,
  affinity_armed,
  \* shared memory and mailbox
  shared_generation, linux_to_cpu3, cpu3_to_linux, a2b, b2a,
  \* CPU3 and firmware
  cpu3, cpu3_generation, pending, affinity

sessionVars == <<session_generation, peer_generation, session_result>>
stopVars == <<stop_request_sequence, stop_reply_type, stop_result>>
launchVars == <<image_written, cpu_on_attempted, cpu_on_ret>>
timeoutVars == <<deadline_passed, timeout_armed, timeout_running>>
peerVars == <<cpu3, cpu3_generation, pending, affinity>>
sharedVars == <<shared_generation, linux_to_cpu3, cpu3_to_linux, a2b, b2a>>
systemVars == <<mailmsg_state, launchVars, affinity_seen_on, sessionVars, stopVars,
          next_sequence, open_count, timeoutVars, control_queued,
          affinity_armed, sharedVars, peerVars>>
vars == <<build, systemVars>>

State == {"UNARMED", "STARTING", "START_TIMEOUT", "ACTIVE", "STOPPING",
          "STOP_TIMEOUT", "OFFLINE"}
Monitored == {"STARTING", "START_TIMEOUT", "ACTIVE", "STOPPING", "STOP_TIMEOUT"}
LifecyclePending == {"STARTING", "STOPPING"}
Word == 0 .. WORD - 1
FrameType == {"BUSINESS", "STOP_REQUEST", "SESSION_READY", "STOP_READY",
              "STOP_REFUSED"}
Frame == [type : FrameType, word : Word]
Business == [type |-> "BUSINESS", word |-> 0]
Reliable == {0, 1}

\* A counter that wraps at 2^32 and never yields zero.
NextNonZero(n) == IF n + 1 = WORD THEN 1 ELSE n + 1

\* What PSCI AFFINITY_INFO may answer now.
Observed == {affinity} \cup IF build.errors THEN {"error"} ELSE {}

Init ==
  /\ build \in Builds
  /\ mailmsg_state = "UNARMED"
  /\ image_written = 0 /\ cpu_on_attempted = FALSE /\ cpu_on_ret = "EAGAIN"
  /\ affinity_seen_on = FALSE
  /\ session_generation = 0 /\ peer_generation = 0 /\ session_result = "EAGAIN"
  /\ stop_request_sequence = 0 /\ stop_reply_type = "none"
  /\ stop_result = "EAGAIN"
  /\ next_sequence = 0 /\ open_count = 0
  /\ deadline_passed = FALSE /\ timeout_armed = FALSE /\ timeout_running = FALSE
  /\ control_queued = FALSE /\ affinity_armed = FALSE
  /\ shared_generation = 0
  /\ linux_to_cpu3 = [p \in Priority |-> <<>>]
  /\ cpu3_to_linux = [p \in Priority |-> <<>>]
  /\ a2b = {} /\ b2a = {}
  /\ cpu3 = "off" /\ cpu3_generation = 0 /\ pending = {} /\ affinity = "OFF"

-----------------------------------------------------------------------------
(* Helpers of the locked handlers *)

\* r1_amp_refresh_affinity_locked: OFF ends a session only once the core has
\* been seen alive.
GoesOffline(observed) ==
  /\ cpu_on_ret = "OK" /\ affinity_seen_on /\ observed = "OFF"
  /\ mailmsg_state \in Monitored

RefreshAffinity(observed) ==
  /\ affinity_seen_on' = (affinity_seen_on \/ observed \in {"ON", "ON_PENDING"})
  /\ mailmsg_state' = IF GoesOffline(observed) THEN "OFFLINE" ELSE mailmsg_state
  /\ timeout_armed' = (timeout_armed /\ ~GoesOffline(observed))

\* Mutant: a stop that timed out stays STOPPING.
SetTimeoutStartOnly ==
  /\ mailmsg_state' = IF mailmsg_state = "STARTING" THEN "START_TIMEOUT"
                      ELSE mailmsg_state
  /\ session_result' = IF mailmsg_state = "STARTING" THEN "ETIMEDOUT"
                       ELSE session_result
  /\ stop_result' = IF mailmsg_state = "STOPPING" THEN "ETIMEDOUT"
                    ELSE stop_result

\* r1_amp_mailmsg_set_timeout_locked.
SetTimeout ==
  \/ /\ mailmsg_state = "STARTING"
     /\ mailmsg_state' = "START_TIMEOUT"
     /\ session_result' = "ETIMEDOUT"
     /\ UNCHANGED stop_result
  \/ /\ mailmsg_state = "STOPPING"
     /\ mailmsg_state' = "STOP_TIMEOUT"
     /\ stop_result' = "ETIMEDOUT"
     /\ UNCHANGED session_result

\* Mutant: the deadline is set and the work is not armed.
ArmDeadlineOnly == deadline_passed' = FALSE /\ UNCHANGED timeout_armed

\* lifecycle_deadline = jiffies + 5 s, and the timeout work armed for it.
ArmTimeout == deadline_passed' = FALSE /\ timeout_armed' = TRUE

Full(ring) == Len(ring) = RingCapacity
DropFirst(ring, n) == SubSeq(ring, n + 1, Len(ring))

-----------------------------------------------------------------------------
(* sysfs: image, start, rearm, stop, affinity_state *)

image_write ==
  /\ ~cpu_on_attempted
  /\ image_written < ImageSize
  /\ image_written' = image_written + 1
  /\ UNCHANGED <<mailmsg_state, cpu_on_attempted, cpu_on_ret, affinity_seen_on,
                 sessionVars, stopVars, next_sequence, open_count, timeoutVars,
                 control_queued, affinity_armed, sharedVars, peerVars>>

\* A start that finds CPU3 not OFF changes what the refresh changes.
StartBusy ==
  /\ ~cpu_on_attempted /\ image_written = ImageSize
  /\ \E observed \in Observed \ {"OFF"} : RefreshAffinity(observed)
  /\ UNCHANGED <<launchVars, sessionVars, stopVars, next_sequence, open_count,
                 deadline_passed, timeout_running, control_queued,
                 affinity_armed, sharedVars, peerVars>>

\* The new session: shared state zeroed, endpoint bound, statuses reset.
OpenSession ==
  /\ ~cpu_on_attempted /\ image_written = ImageSize
  /\ "OFF" \in Observed
  /\ session_generation' = NextNonZero(session_generation)
  /\ shared_generation' = session_generation'
  /\ linux_to_cpu3' = [p \in Priority |-> <<>>]
  /\ cpu3_to_linux' = [p \in Priority |-> <<>>]
  /\ next_sequence' = 0
  /\ peer_generation' = 0
  /\ stop_request_sequence' = 0 /\ stop_reply_type' = "none"
  /\ stop_result' = "EAGAIN"
  /\ affinity_seen_on' = FALSE
  /\ cpu_on_attempted' = TRUE
  /\ UNCHANGED <<image_written, open_count, timeout_running, control_queued,
                 a2b, b2a, pending, cpu3_generation>>

\* Mutant: a good CPU_ON opens the data plane.
StartTrustsCpuOn ==
  /\ OpenSession
  /\ cpu3 = "off"
  /\ cpu_on_ret' = "OK"
  /\ mailmsg_state' = "ACTIVE" /\ session_result' = "OK"
  /\ UNCHANGED <<deadline_passed, timeout_armed>>
  /\ affinity_armed' = TRUE
  /\ cpu3' = "booting" /\ affinity' = "ON_PENDING"

StartCpuOn ==
  /\ OpenSession
  /\ cpu3 = "off"
  /\ cpu_on_ret' = "OK"
  /\ mailmsg_state' = "STARTING" /\ session_result' = "EINPROGRESS"
  /\ ArmTimeout
  /\ affinity_armed' = TRUE
  /\ cpu3' = "booting"
  /\ affinity' \in {"ON_PENDING"} \cup IF build.lag THEN {"OFF"} ELSE {}

StartCpuOnFails ==
  /\ OpenSession
  /\ cpu_on_ret' = "FAILED"
  /\ mailmsg_state' = "UNARMED" /\ session_result' = "FAILED"
  /\ UNCHANGED <<deadline_passed, timeout_armed, affinity_armed, cpu3, affinity>>

RearmBusy ==
  /\ cpu_on_attempted /\ open_count = 0
  /\ \E observed \in Observed :
       /\ observed # "OFF" \/ a2b # {}
       /\ RefreshAffinity(observed)
  /\ UNCHANGED <<launchVars, sessionVars, stopVars, next_sequence, open_count,
                 deadline_passed, timeout_running, control_queued,
                 affinity_armed, sharedVars, peerVars>>

rearm_store ==
  /\ cpu_on_attempted /\ open_count = 0
  /\ "OFF" \in Observed
  /\ a2b = {}
  /\ next_sequence' = 0
  /\ timeout_armed' = FALSE
  /\ image_written' = 0 /\ cpu_on_attempted' = FALSE /\ cpu_on_ret' = "EAGAIN"
  /\ affinity_seen_on' = FALSE
  /\ mailmsg_state' = "UNARMED"
  /\ peer_generation' = 0 /\ session_result' = "EAGAIN"
  /\ stop_request_sequence' = 0 /\ stop_reply_type' = "none"
  /\ stop_result' = "EAGAIN"
  /\ UNCHANGED <<session_generation, open_count, deadline_passed,
                 timeout_running, control_queued, affinity_armed, sharedVars,
                 peerVars>>

affinity_state_show ==
  /\ \E observed \in Observed : RefreshAffinity(observed)
  /\ UNCHANGED <<launchVars, sessionVars, stopVars, next_sequence, open_count,
                 deadline_passed, timeout_running, control_queued,
                 affinity_armed, sharedVars, peerVars>>

\* Mutant: stop does not look at open files.
StopPreflightFilesOpen == cpu3_to_linux[0] = <<>>

\* The loop returns at its first test: has_received answers 0 for an empty
\* ring, which is not MAILMSG_RING_EMPTY, and 0 is success.
StopPreflight == open_count = 0 /\ cpu3_to_linux[0] = <<>>

mailmsg_stop_store ==
  /\ mailmsg_state = "ACTIVE"
  /\ StopPreflight
  /\ next_sequence' = NextNonZero(next_sequence)
  /\ stop_reply_type' = "none"
  /\ \/ /\ Full(linux_to_cpu3[0])
        /\ stop_request_sequence' = 0
        /\ stop_result' = "ENOSPC"
        /\ UNCHANGED <<mailmsg_state, linux_to_cpu3, a2b, deadline_passed,
                       timeout_armed>>
     \/ /\ ~Full(linux_to_cpu3[0])
        /\ linux_to_cpu3' = [linux_to_cpu3 EXCEPT ![0] =
             Append(@, [type |-> "STOP_REQUEST", word |-> next_sequence'])]
        /\ a2b' = a2b \cup {0}
        /\ mailmsg_state' = "STOPPING"
        /\ stop_request_sequence' = next_sequence'
        /\ stop_result' = "EINPROGRESS"
        /\ ArmTimeout
  /\ UNCHANGED <<launchVars, affinity_seen_on, sessionVars, open_count,
                 timeout_running, control_queued, affinity_armed,
                 shared_generation, cpu3_to_linux, b2a, peerVars>>

-----------------------------------------------------------------------------
(* Users of the data plane *)

r1_amp_mailmsg_user_open ==
  /\ mailmsg_state = "ACTIVE"
  /\ open_count < MaxOpen
  /\ open_count' = open_count + 1
  /\ UNCHANGED <<mailmsg_state, launchVars, affinity_seen_on, sessionVars,
                 stopVars, next_sequence, timeoutVars, control_queued,
                 affinity_armed, sharedVars, peerVars>>

r1_amp_mailmsg_user_release ==
  /\ open_count > 0
  /\ open_count' = open_count - 1
  /\ UNCHANGED <<mailmsg_state, launchVars, affinity_seen_on, sessionVars,
                 stopVars, next_sequence, timeoutVars, control_queued,
                 affinity_armed, sharedVars, peerVars>>

\* A business frame: mailmsg_ping, a device write, or (doorbell FALSE)
\* mailmsg_queue_push and an injected notification failure.
mailmsg_send(p, doorbell) ==
  /\ mailmsg_state = "ACTIVE"
  /\ next_sequence' = NextNonZero(next_sequence)
  /\ \/ Full(linux_to_cpu3[p]) /\ UNCHANGED <<linux_to_cpu3, a2b>>
     \/ /\ ~Full(linux_to_cpu3[p])
        /\ linux_to_cpu3' = [linux_to_cpu3 EXCEPT ![p] = Append(@, Business)]
        /\ a2b' = IF doorbell THEN a2b \cup {p} ELSE a2b
  /\ UNCHANGED <<mailmsg_state, launchVars, affinity_seen_on, sessionVars,
                 stopVars, open_count, timeoutVars, control_queued,
                 affinity_armed, shared_generation, cpu3_to_linux, b2a,
                 peerVars>>

\* r1_amp_mailmsg_user_read: one frame of one ring.
mailmsg_receive(p) ==
  /\ mailmsg_state = "ACTIVE" /\ open_count > 0
  /\ cpu3_to_linux[p] # <<>>
  /\ cpu3_to_linux' = [cpu3_to_linux EXCEPT ![p] = Tail(@)]
  /\ UNCHANGED <<mailmsg_state, launchVars, affinity_seen_on, sessionVars,
                 stopVars, next_sequence, open_count, timeoutVars,
                 control_queued, affinity_armed, shared_generation,
                 linux_to_cpu3, a2b, b2a, peerVars>>

\* The sysfs reader drains every ring.
mailmsg_response_show ==
  /\ mailmsg_state = "ACTIVE"
  /\ cpu3_to_linux' = [p \in Priority |-> <<>>]
  /\ UNCHANGED <<mailmsg_state, launchVars, affinity_seen_on, sessionVars,
                 stopVars, next_sequence, open_count, timeoutVars,
                 control_queued, affinity_armed, shared_generation,
                 linux_to_cpu3, a2b, b2a, peerVars>>

-----------------------------------------------------------------------------
(* Mailbox callback, works and time *)

r1_amp_mbox_rx_callback(p) ==
  /\ p \in b2a
  /\ b2a' = b2a \ {p}
  /\ control_queued' = (control_queued \/ mailmsg_state \in LifecyclePending)
  /\ UNCHANGED <<mailmsg_state, launchVars, affinity_seen_on, sessionVars,
                 stopVars, next_sequence, open_count, timeoutVars,
                 affinity_armed, shared_generation, linux_to_cpu3,
                 cpu3_to_linux, a2b, peerVars>>

\* The frame the lifecycle plane is waiting for.
Decisive(frame) ==
  \/ /\ mailmsg_state = "STARTING"
     /\ frame.type = "SESSION_READY" /\ frame.word = session_generation
  \/ /\ mailmsg_state = "STOPPING"
     /\ frame.type \in {"STOP_READY", "STOP_REFUSED"}
     /\ frame.word = stop_request_sequence

\* Frame n of p0 is the first decisive one.
FirstDecisive(n) ==
  /\ n \in 1 .. Len(cpu3_to_linux[0])
  /\ Decisive(cpu3_to_linux[0][n])
  /\ \A k \in 1 .. n - 1 : ~Decisive(cpu3_to_linux[0][k])

\* One run of r1_amp_mailmsg_control_work, which holds the lock throughout and
\* takes n frames from p0.
ControlRun(n) ==
  /\ control_queued /\ control_queued' = FALSE
  /\ cpu3_to_linux' = [cpu3_to_linux EXCEPT ![0] = DropFirst(@, n)]
  /\ UNCHANGED <<launchVars, session_generation, stop_request_sequence,
                 next_sequence, open_count, timeout_running, affinity_armed,
                 shared_generation, linux_to_cpu3, a2b, b2a, peerVars>>

\* Not in a lifecycle phase, or no decisive frame: drained and dropped.
ControlNothing ==
  /\ ControlRun(IF mailmsg_state \in LifecyclePending
                THEN Len(cpu3_to_linux[0]) ELSE 0)
  /\ mailmsg_state \in LifecyclePending =>
       ~deadline_passed /\ \A n \in 1 .. Len(cpu3_to_linux[0]) :
                             ~Decisive(cpu3_to_linux[0][n])
  /\ UNCHANGED <<mailmsg_state, affinity_seen_on, peer_generation,
                 session_result, stop_reply_type, stop_result, deadline_passed,
                 timeout_armed>>

\* The deadline is found passed on entry (n = 0) or after taking frame n.
ControlTimeout(n) ==
  /\ mailmsg_state \in LifecyclePending
  /\ n <= Len(cpu3_to_linux[0])
  /\ deadline_passed => n = 0
  /\ ~deadline_passed => n > 0
  /\ \A k \in 1 .. n - 1 : ~Decisive(cpu3_to_linux[0][k])
  /\ ControlRun(n)
  /\ SetTimeout
  /\ deadline_passed' = TRUE /\ timeout_armed' = FALSE
  /\ UNCHANGED <<affinity_seen_on, peer_generation, stop_reply_type>>

ControlSessionReady(n) ==
  /\ mailmsg_state = "STARTING" /\ ~deadline_passed /\ FirstDecisive(n)
  /\ ControlRun(n)
  /\ peer_generation' = session_generation /\ session_result' = "OK"
  /\ affinity_seen_on' = TRUE
  /\ mailmsg_state' = "ACTIVE"
  /\ timeout_armed' = FALSE
  /\ UNCHANGED <<stop_reply_type, stop_result, deadline_passed>>

ControlStopReply(n) ==
  /\ mailmsg_state = "STOPPING" /\ ~deadline_passed /\ FirstDecisive(n)
  /\ ControlRun(n)
  /\ stop_reply_type' = cpu3_to_linux[0][n].type
  /\ \/ /\ stop_reply_type' = "STOP_READY"
        /\ stop_result' = "OK"
        /\ ArmTimeout
        /\ UNCHANGED mailmsg_state
     \/ /\ stop_reply_type' = "STOP_REFUSED"
        /\ stop_result' = "ECANCELED"
        /\ mailmsg_state' = "ACTIVE"
        /\ timeout_armed' = FALSE
        /\ UNCHANGED deadline_passed
  /\ UNCHANGED <<affinity_seen_on, peer_generation, session_result>>

r1_amp_mailmsg_control_work ==
  \/ ControlNothing
  \/ \E n \in 0 .. RingCapacity :
       ControlTimeout(n) \/ ControlSessionReady(n) \/ ControlStopReply(n)

\* jiffies reaches the deadline of the phase in progress.
DeadlinePasses ==
  /\ mailmsg_state \in LifecyclePending /\ ~deadline_passed
  /\ deadline_passed' = TRUE
  /\ UNCHANGED <<mailmsg_state, launchVars, affinity_seen_on, sessionVars,
                 stopVars, next_sequence, open_count, timeout_armed,
                 timeout_running, control_queued, affinity_armed, sharedVars,
                 peerVars>>

\* The timer queues the work; cancel_delayed_work no longer stops it.
TimeoutFires ==
  /\ timeout_armed /\ deadline_passed /\ ~timeout_running
  /\ timeout_armed' = FALSE /\ timeout_running' = TRUE
  /\ UNCHANGED <<mailmsg_state, launchVars, affinity_seen_on, sessionVars,
                 stopVars, next_sequence, open_count, deadline_passed,
                 control_queued, affinity_armed, sharedVars, peerVars>>

r1_amp_mailmsg_lifecycle_timeout_work ==
  /\ timeout_running /\ timeout_running' = FALSE
  /\ \/ /\ mailmsg_state \notin LifecyclePending
        /\ UNCHANGED <<mailmsg_state, affinity_seen_on, session_result,
                       stop_result, timeout_armed>>
     \/ /\ mailmsg_state \in LifecyclePending /\ ~deadline_passed
        /\ timeout_armed' = TRUE
        /\ UNCHANGED <<mailmsg_state, affinity_seen_on, session_result,
                       stop_result>>
     \/ /\ mailmsg_state = "STOPPING" /\ stop_reply_type = "STOP_READY"
        /\ deadline_passed
        /\ \E observed \in Observed :
             \/ /\ GoesOffline(observed) /\ RefreshAffinity(observed)
                /\ UNCHANGED <<session_result, stop_result>>
             \/ /\ ~GoesOffline(observed) /\ SetTimeout
                /\ affinity_seen_on' =
                     (affinity_seen_on \/ observed \in {"ON", "ON_PENDING"})
                /\ UNCHANGED timeout_armed
     \/ /\ mailmsg_state \in LifecyclePending /\ deadline_passed
        /\ ~(mailmsg_state = "STOPPING" /\ stop_reply_type = "STOP_READY")
        /\ SetTimeout
        /\ UNCHANGED <<affinity_seen_on, timeout_armed>>
  /\ UNCHANGED <<launchVars, session_generation, peer_generation,
                 stop_request_sequence, stop_reply_type, next_sequence,
                 open_count, deadline_passed, control_queued, affinity_armed,
                 sharedVars, peerVars>>

\* Mutant: the monitor samples once and does not rearm.
AffinityWorkOnce ==
  /\ affinity_armed /\ affinity_armed' = FALSE
  /\ mailmsg_state \in Monitored
  /\ \E observed \in Observed : RefreshAffinity(observed)
  /\ control_queued' =
       (control_queued \/ mailmsg_state' \in LifecyclePending)
  /\ UNCHANGED <<launchVars, sessionVars, stopVars, next_sequence, open_count,
                 deadline_passed, timeout_running, sharedVars, peerVars>>

r1_amp_affinity_work ==
  /\ affinity_armed
  /\ \/ /\ mailmsg_state \notin Monitored
        /\ affinity_armed' = FALSE
        /\ UNCHANGED <<mailmsg_state, affinity_seen_on, timeout_armed,
                       control_queued>>
     \/ /\ mailmsg_state \in Monitored
        /\ \E observed \in Observed : RefreshAffinity(observed)
        /\ control_queued' =
             (control_queued \/ mailmsg_state' \in LifecyclePending)
        /\ affinity_armed' = (mailmsg_state' \in Monitored)
  /\ UNCHANGED <<launchVars, sessionVars, stopVars, next_sequence, open_count,
                 deadline_passed, timeout_running, sharedVars, peerVars>>

-----------------------------------------------------------------------------
(* CPU3 *)

linuxVars == <<mailmsg_state, launchVars, affinity_seen_on, sessionVars,
               stopVars, next_sequence, open_count, timeoutVars,
               control_queued, affinity_armed>>

CpuState == {"off", "booting", "bound", "announced", "running", "stopping",
             "quiesced", "halted"}
SessionValid == shared_generation = cpu3_generation

\* Reset to endpoint_bind and enabled A2B interrupts.
Cpu3Boot ==
  /\ cpu3 = "booting"
  /\ cpu3' = "bound" /\ affinity' = "ON"
  /\ cpu3_generation' = shared_generation
  /\ UNCHANGED <<linuxVars, sharedVars, pending>>

\* The frame and its doorbell go out before the flag the worker tests is set.
mailmsg_service_session_ready ==
  \/ /\ cpu3 = "bound" /\ SessionValid
     /\ ~Full(cpu3_to_linux[0])
     /\ cpu3' = "announced"
     /\ cpu3_to_linux' = [cpu3_to_linux EXCEPT ![0] =
          Append(@, [type |-> "SESSION_READY", word |-> cpu3_generation])]
     /\ b2a' = b2a \cup {0}
     /\ UNCHANGED <<linuxVars, shared_generation, linux_to_cpu3, a2b,
                    cpu3_generation, pending, affinity>>
  \/ /\ cpu3 = "announced" /\ cpu3' = "running"
     /\ UNCHANGED <<linuxVars, sharedVars, cpu3_generation, pending, affinity>>

mailmsg_mailbox_a2b_matrix_isr(p) ==
  /\ cpu3 \in {"bound", "announced", "running"}
  /\ p \in a2b
  /\ a2b' = a2b \ {p} /\ pending' = pending \cup {p}
  /\ UNCHANGED <<linuxVars, shared_generation, linux_to_cpu3, cpu3_to_linux,
                 b2a, cpu3, cpu3_generation, affinity>>

\* A wakeup served before session_ready_published is consumed with no work.
ServeUnpublished ==
  /\ cpu3 \in {"bound", "announced"} /\ pending # {}
  /\ pending' = {}
  /\ UNCHANGED <<linuxVars, sharedVars, cpu3, cpu3_generation, affinity>>

\* The ring is drained, or the session is no longer CPU3's.
ServeNothing(p) ==
  /\ cpu3 = "running" /\ p \in pending
  /\ linux_to_cpu3[p] = <<>> \/ ~SessionValid
  /\ pending' = pending \ {p}
  /\ UNCHANGED <<linuxVars, sharedVars, cpu3, cpu3_generation, affinity>>

\* Take a frame; the replies that fit go out, each with its doorbell.
ServeFrame(p, replies, next) ==
  /\ cpu3 = "running" /\ p \in pending
  /\ linux_to_cpu3[p] # <<>> /\ SessionValid
  /\ linux_to_cpu3' = [linux_to_cpu3 EXCEPT ![p] = Tail(@)]
  /\ LET answered == cpu3_to_linux[p] \o replies
     IN  cpu3_to_linux' = [cpu3_to_linux EXCEPT ![p] =
           IF Len(answered) <= RingCapacity THEN answered
           ELSE SubSeq(answered, 1, RingCapacity)]
  /\ b2a' = IF replies = <<>> \/ Full(cpu3_to_linux[p]) THEN b2a
            ELSE b2a \cup {p}
  /\ cpu3' = next
  /\ UNCHANGED <<linuxVars, shared_generation, a2b, cpu3_generation, pending,
                 affinity>>

ServeBusiness(p) ==
  /\ linux_to_cpu3[p] # <<>> /\ Head(linux_to_cpu3[p]).type = "BUSINESS"
  /\ \/ ServeFrame(p, IF p \in Reliable THEN <<Business, Business>>
                      ELSE <<Business>>, "running")
     \/ build.self_off /\ p = 0 /\ ServeFrame(p, <<>>, "stopping")

\* Mutant: STOP_READY is answered and the service loop goes on.
ServeStopStays ==
  /\ linux_to_cpu3[0] # <<>> /\ Head(linux_to_cpu3[0]).type = "STOP_REQUEST"
  /\ ServeFrame(0,
       <<[type |-> "STOP_READY", word |-> Head(linux_to_cpu3[0]).word]>>,
       "running")

\* CPU3 goes off only when STOP_READY has been queued.
ServeStop ==
  /\ linux_to_cpu3[0] # <<>> /\ Head(linux_to_cpu3[0]).type = "STOP_REQUEST"
  /\ ServeFrame(0,
       <<[type |-> IF build.stop_control THEN "STOP_READY" ELSE "STOP_REFUSED",
          word |-> Head(linux_to_cpu3[0]).word]>>,
       IF build.stop_control /\ ~Full(cpu3_to_linux[0]) THEN "stopping" ELSE "running")

\* Mutant: doorbells are left pending.
Cpu3QuiesceNoAck ==
  /\ cpu3 = "stopping"
  /\ cpu3' = "quiesced"
  /\ UNCHANGED <<linuxVars, sharedVars, cpu3_generation, pending, affinity>>

\* mailmsg_cpu_off_after_ready: interrupts are off, doorbells acknowledged.
Cpu3Quiesce ==
  /\ cpu3 = "stopping"
  /\ cpu3' = "quiesced" /\ a2b' = {}
  /\ UNCHANGED <<linuxVars, shared_generation, linux_to_cpu3, cpu3_to_linux,
                 b2a, cpu3_generation, pending, affinity>>

mailmsg_arch_cpu_off ==
  /\ cpu3 = "quiesced"
  /\ \/ cpu3' = "off" /\ affinity' = "OFF" /\ pending' = {}
     \/ cpu3' = "halted" /\ UNCHANGED <<affinity, pending>>
  /\ UNCHANGED <<linuxVars, sharedVars, cpu3_generation>>

-----------------------------------------------------------------------------
Sysfs ==
  \/ image_write \/ StartBusy \/ StartCpuOn \/ StartCpuOnFails
  \/ RearmBusy \/ rearm_store \/ mailmsg_stop_store \/ affinity_state_show
  \/ mailmsg_response_show
User ==
  \/ r1_amp_mailmsg_user_open \/ r1_amp_mailmsg_user_release
  \/ \E p \in build.used :
       mailmsg_receive(p) \/ \E doorbell \in BOOLEAN : mailmsg_send(p, doorbell)
Works ==
  \/ r1_amp_mailmsg_control_work \/ r1_amp_mailmsg_lifecycle_timeout_work
  \/ r1_amp_affinity_work \/ TimeoutFires \/ DeadlinePasses
  \/ \E p \in Priority : r1_amp_mbox_rx_callback(p)
Cpu3 ==
  \/ Cpu3Boot \/ mailmsg_service_session_ready \/ ServeUnpublished \/ ServeStop
  \/ Cpu3Quiesce \/ mailmsg_arch_cpu_off
  \/ \E p \in Priority :
       mailmsg_mailbox_a2b_matrix_isr(p) \/ ServeNothing(p) \/ ServeBusiness(p)

Next == (Sysfs \/ User \/ Works \/ Cpu3) /\ UNCHANGED build
Spec == Init /\ [][Next]_vars

\* The timeout works run when queued, and time passes; nothing is assumed of
\* CPU3, of users or of the control work: no deadline depends on its also looking
\* at the time.  The affinity work is fair where AFFINITY_INFO answers; where it
\* fails the work only arms itself again, and nothing forces an answer.
FairSpec ==
  /\ Spec
  /\ WF_systemVars(DeadlinePasses) /\ WF_systemVars(TimeoutFires)
  /\ WF_systemVars(r1_amp_mailmsg_lifecycle_timeout_work)
  /\ WF_systemVars(~build.errors /\ r1_amp_affinity_work)

-----------------------------------------------------------------------------
(* Properties *)

\* Every variable of the driver, the shared memory and CPU3 keeps its type; the
\* rings never hold more than their usable slots.
TypeOK ==
  /\ mailmsg_state \in State
  /\ image_written \in 0 .. ImageSize
  /\ cpu_on_attempted \in BOOLEAN /\ cpu_on_ret \in {"EAGAIN", "OK", "FAILED"}
  /\ affinity_seen_on \in BOOLEAN
  /\ session_generation \in Word /\ peer_generation \in Word
  /\ session_result \in {"EAGAIN", "EINPROGRESS", "OK", "ETIMEDOUT", "FAILED"}
  /\ stop_request_sequence \in Word
  /\ stop_reply_type \in {"none", "STOP_READY", "STOP_REFUSED"}
  /\ stop_result \in {"EAGAIN", "EINPROGRESS", "OK", "ECANCELED", "ETIMEDOUT",
                      "ENOSPC"}
  /\ next_sequence \in Word /\ open_count \in 0 .. MaxOpen
  /\ deadline_passed \in BOOLEAN
  /\ timeout_armed \in BOOLEAN /\ timeout_running \in BOOLEAN
  /\ control_queued \in BOOLEAN /\ affinity_armed \in BOOLEAN
  /\ shared_generation \in Word
  /\ linux_to_cpu3 \in [Priority -> Seq(Frame)]
  /\ cpu3_to_linux \in [Priority -> Seq(Frame)]
  /\ \A p \in Priority : /\ Len(linux_to_cpu3[p]) <= RingCapacity
                         /\ Len(cpu3_to_linux[p]) <= RingCapacity
  /\ a2b \subseteq Priority /\ b2a \subseteq Priority
  /\ cpu3 \in CpuState /\ cpu3_generation \in Word
  /\ pending \subseteq Priority /\ affinity \in {"OFF", "ON_PENDING", "ON"}

\* The data plane is open, or being closed, only towards a CPU3 that bound this
\* very session and announced it: STARTING is left for ACTIVE by nothing but
\* the SESSION_READY of the current generation, however late doorbells, works
\* and timeouts come.  Its number is a 32-bit word and not 0, which marks an
\* unbound session, also after the counter has come round.
ActiveMeansPeerReady ==
  mailmsg_state \in {"ACTIVE", "STOPPING", "STOP_TIMEOUT"} =>
    /\ session_generation \in Word \ {0}
    /\ peer_generation = session_generation
    /\ cpu3_generation = session_generation
    /\ shared_generation = session_generation
    /\ cpu3 \notin {"booting", "bound"}

\* Whatever the order of arming, firing, cancelling and running, a phase with a
\* deadline has a timeout work that is armed or about to run, and a session
\* that can still go offline has its affinity monitor armed.
WatchdogsLive ==
  /\ mailmsg_state \in LifecyclePending => timeout_armed \/ timeout_running
  /\ mailmsg_state \in Monitored => affinity_armed

\* A STOP_READY accepted for this stop is the answer of a CPU3 that has left its
\* service loop for good.
StopReadyIsGenuine ==
  mailmsg_state = "STOPPING" /\ stop_reply_type = "STOP_READY" =>
    cpu3 \in {"stopping", "quiesced", "halted", "off"}

\* CPU3 leaves no doorbell pending when a controlled stop takes it off, so the
\* A2B test of rearm cannot refuse for ever (main.c, the comment on the final
\* acknowledgement in mailmsg_cpu_off_after_ready).
RearmNotBlocked == ~build.self_off /\ cpu3 = "off" => a2b = {}

\* Every phase with a deadline ends, and in a state that has none.
PhaseResolves ==
  (mailmsg_state \in LifecyclePending) ~> (mailmsg_state \notin LifecyclePending)

\* Where AFFINITY_INFO answers, a CPU3 that was seen alive and has gone off is
\* noticed, in every state: the affinity work keeps arming itself until then.
OffIsNoticed ==
  (~build.errors /\ cpu3 = "off" /\ affinity_seen_on /\ mailmsg_state \in Monitored) ~>
    (mailmsg_state \in {"OFFLINE", "UNARMED"})

\* CPU3 as the firmware knows it.
Power == IF cpu3 = "off" THEN "off" ELSE IF cpu3 = "booting" THEN "pending" ELSE "on"

\* The works, timers, rings and frames together do what AmpSession promises:
\* every step of the driver or of CPU3 is one of its steps or invisible there.
Session == INSTANCE AmpSession WITH
  phase <- mailmsg_state, image <- image_written, attempted <- cpu_on_attempted,
  files <- open_count, lag <- build.lag,
  power <- Power
ImplementsSession == Session!SessionSpec

\* A stop discards no business frame (the comment on stop preflight: "existing
\* queued business frames are never discarded to make room for lifecycle
\* control").
BusinessOnP0 ==
  Len(SelectSeq(cpu3_to_linux[0], LAMBDA frame : frame = Business))
BusinessNeverDiscarded ==
  [][mailmsg_state = "STOPPING" => BusinessOnP0' >= BusinessOnP0]_vars
=============================================================================
