----------------------------- MODULE Cpu3Worker -----------------------------
(***************************************************************************)
(* How a frame Linux queued for CPU3 comes to be served: the doorbell      *)
(* (lzamp_amp_mailmsg.c), the A2B interrupt handler, the worker thread and *)
(* the main thread (zephyr/app/src/main.c).                                *)
(*                                                                         *)
(* Concurrency.  Linux runs on another core.  On CPU3 the handler preempts *)
(* both threads and does not nest; the worker is cooperative and preempts  *)
(* main; main runs only while the worker waits.                            *)
(*                                                                         *)
(* Data.  A ring is the FIFO MailMsgRing implements; a frame is intact or  *)
(* "bad" (its CRC fails).  Replies leave by endpoint_send, whose result    *)
(* the worker ignores: the way back is the subject of MailMsgReader.       *)
(* STOP_REQUEST is the subject of AmpLifecycle.                            *)
(***************************************************************************)
EXTENDS Integers, Sequences, FiniteSetsExt

CONSTANTS
  Priority,      \* message priorities, 0 the most urgent
  RingCapacity,  \* usable frames of a ring
  QUOTA,         \* MAILMSG_WORKER_DRAIN_QUOTA
  Faults         \* priorities with test hooks used: silent pushes, bad frames

ASSUME WorkerAssumption ==
  /\ Priority \subseteq 0 .. 3 /\ Priority # {}
  /\ RingCapacity \in Nat \ {0} /\ QUOTA \in Nat \ {0}
  /\ Faults \subseteq Priority

VARIABLES
  ring,        \* linux_to_cpu3
  sending,     \* Linux between the push and the doorbell: {} or {priority}
  a2b,         \* A2B_STATUS
  isr, isrPc,  \* the handler's channel, {} or {priority}, and its place
  pending,     \* mailmsg_pending_priorities
  sem,         \* mailmsg_work_sem, at most 1
  workerPc, scan, handled, reschedule,  \* the worker and its locals
  mainPc,      \* main: "bound", "announced", "published"
  excused      \* history: why a frame may wait with no wakeup in flight

linuxVars == <<ring, sending, a2b>>
isrVars == <<isr, isrPc>>
wakeVars == <<pending, sem>>
workerVars == <<workerPc, scan, handled, reschedule>>
vars == <<linuxVars, isrVars, wakeVars, workerVars, mainPc, excused>>

Init ==
  /\ ring = [p \in Priority |-> <<>>]
  /\ sending = {} /\ a2b = {}
  /\ isr = {} /\ isrPc = "idle"
  /\ pending = {} /\ sem = 0
  /\ workerPc = "wait" /\ scan = {} /\ handled = 0 /\ reschedule = {}
  /\ mainPc = "bound"
  /\ excused = {}

-----------------------------------------------------------------------------
(* Linux, in ACTIVE: after SESSION_READY was announced *)

FrameKind(p) == {"good"} \cup IF p \in Faults THEN {"bad"} ELSE {}

\* The ring push of endpoint_send or of the CRC test; the doorbell is next.
LinuxPush(p, frame) ==
  /\ mainPc # "bound" /\ sending = {}
  /\ Len(ring[p]) < RingCapacity
  /\ ring' = [ring EXCEPT ![p] = Append(@, frame)]
  /\ sending' = {p}
  /\ UNCHANGED <<a2b, isrVars, wakeVars, workerVars, mainPc, excused>>

\* mailmsg_queue_push, or an injected notification failure: no doorbell.
LinuxPushSilently(p) ==
  /\ p \in Faults
  /\ mainPc # "bound" /\ sending = {}
  /\ Len(ring[p]) < RingCapacity
  /\ ring' = [ring EXCEPT ![p] = Append(@, "good")]
  /\ excused' = excused \cup {p}
  /\ UNCHANGED <<sending, a2b, isrVars, wakeVars, workerVars, mainPc>>

\* mailmsg_notify_locked: rung, or coalesced into the pending one.
LinuxNotify ==
  /\ sending # {}
  /\ a2b' = a2b \cup sending
  /\ excused' = excused \ sending
  /\ sending' = {}
  /\ UNCHANGED <<ring, isrVars, wakeVars, workerVars, mainPc>>

\* doorbell_store: a raw doorbell with no frame.
LinuxDoorbell(p) ==
  /\ mainPc # "bound" /\ sending = {}
  /\ p \notin a2b
  /\ a2b' = a2b \cup {p}
  /\ excused' = excused \ {p}
  /\ UNCHANGED <<ring, sending, isrVars, wakeVars, workerVars, mainPc>>

-----------------------------------------------------------------------------
(* mailmsg_mailbox_a2b_matrix_isr: acknowledge, post, give *)

IsrAcknowledge(p) ==
  /\ isrPc = "idle" /\ p \in a2b
  /\ a2b' = a2b \ {p}
  /\ isr' = {p} /\ isrPc' = "post"
  /\ UNCHANGED <<ring, sending, wakeVars, workerVars, mainPc, excused>>

IsrPost ==
  /\ isrPc = "post"
  /\ pending' = pending \cup isr
  /\ isr' = {} /\ isrPc' = "give"
  /\ UNCHANGED <<linuxVars, sem, workerVars, mainPc, excused>>

IsrGive ==
  /\ isrPc = "give"
  /\ sem' = 1
  /\ isrPc' = "idle"
  /\ UNCHANGED <<linuxVars, isr, pending, workerVars, mainPc, excused>>

-----------------------------------------------------------------------------
(* mailmsg_worker and mailmsg_pingpong_test_service *)

WorkerTake ==
  /\ isrPc = "idle" /\ workerPc = "wait" /\ sem = 1
  /\ sem' = 0 /\ workerPc' = "swap"
  /\ UNCHANGED <<linuxVars, isrVars, pending, scan, handled, reschedule, mainPc,
                 excused>>

\* atomic_set(&pending, 0).  Nothing is served for an empty set, nor before
\* session_ready_published.
WorkerSwap ==
  /\ isrPc = "idle" /\ workerPc = "swap"
  /\ pending' = {}
  /\ IF mainPc = "published"
       THEN /\ workerPc' = IF pending = {} THEN "wait" ELSE "drain"
            /\ scan' = pending /\ handled' = 0 /\ reschedule' = {}
            /\ UNCHANGED excused
       ELSE /\ workerPc' = "wait"
            /\ excused' = excused \cup pending
            /\ UNCHANGED <<scan, handled, reschedule>>
  /\ UNCHANGED <<linuxVars, isrVars, sem, mainPc>>

current == Min(scan)

\* The worker, not preempted, in the drain loop of the current priority.
Draining == isrPc = "idle" /\ workerPc = "drain" /\ scan # {}

LeavePriority ==
  /\ scan' = scan \ {current} /\ handled' = 0

WorkerFrame ==
  /\ Draining /\ handled < QUOTA
  /\ ring[current] # <<>> /\ Head(ring[current]) = "good"
  /\ ring' = [ring EXCEPT ![current] = Tail(@)]
  /\ handled' = handled + 1
  /\ UNCHANGED <<sending, a2b, isrVars, wakeVars, workerPc, scan, reschedule,
                 mainPc, excused>>

\* A frame that fails its CRC ends the drain of its priority; the quota test
\* follows all the same.
WorkerBadFrame ==
  /\ Draining /\ handled < QUOTA
  /\ ring[current] # <<>> /\ Head(ring[current]) = "bad"
  /\ ring' = [ring EXCEPT ![current] = Tail(@)]
  /\ IF handled + 1 = QUOTA
       THEN handled' = QUOTA /\ UNCHANGED <<scan, excused>>
       ELSE LeavePriority /\ excused' = excused \cup {current}
  /\ UNCHANGED <<sending, a2b, isrVars, wakeVars, workerPc, reschedule, mainPc>>

WorkerEmpty ==
  /\ Draining /\ handled < QUOTA
  /\ ring[current] = <<>>
  /\ LeavePriority
  /\ excused' = excused \ {current}
  /\ UNCHANGED <<linuxVars, isrVars, wakeVars, workerPc, reschedule, mainPc>>

\* Mutant: at the quota the worker goes on until the ring is empty.
WorkerQuotaIgnored ==
  /\ Draining /\ handled = QUOTA
  /\ handled' = 0
  /\ scan' = IF ring[current] # <<>> THEN scan ELSE scan \ {current}
  /\ UNCHANGED <<linuxVars, isrVars, wakeVars, workerPc, reschedule, mainPc,
                 excused>>

WorkerQuota ==
  /\ Draining /\ handled = QUOTA
  /\ LeavePriority
  /\ reschedule' = IF ring[current] # <<>> THEN reschedule \cup {current}
                   ELSE reschedule
  /\ UNCHANGED <<linuxVars, isrVars, wakeVars, workerPc, mainPc, excused>>

\* Mutant: an assignment where the code has atomic_or.
WorkerRepostOverwrites ==
  /\ isrPc = "idle" /\ workerPc = "drain" /\ scan = {}
  /\ pending' = reschedule
  /\ workerPc' = IF reschedule = {} THEN "wait" ELSE "give"
  /\ reschedule' = {}
  /\ UNCHANGED <<linuxVars, isrVars, sem, scan, handled, mainPc, excused>>

\* Priorities cut short by the quota are posted again.
WorkerRepost ==
  /\ isrPc = "idle" /\ workerPc = "drain" /\ scan = {}
  /\ pending' = pending \cup reschedule
  /\ workerPc' = IF reschedule = {} THEN "wait" ELSE "give"
  /\ reschedule' = {}
  /\ UNCHANGED <<linuxVars, isrVars, sem, scan, handled, mainPc, excused>>

WorkerGive ==
  /\ isrPc = "idle" /\ workerPc = "give"
  /\ sem' = 1 /\ workerPc' = "wait"
  /\ UNCHANGED <<linuxVars, isrVars, pending, scan, handled, reschedule, mainPc,
                 excused>>

-----------------------------------------------------------------------------
(* main: mailmsg_service_session_ready *)

MainMayRun == isrPc = "idle" /\ workerPc = "wait" /\ sem = 0

\* SESSION_READY and its doorbell; Linux may open the data plane from here.
MainAnnounce ==
  /\ MainMayRun /\ mainPc = "bound"
  /\ mainPc' = "announced"
  /\ UNCHANGED <<linuxVars, isrVars, wakeVars, workerVars, excused>>

MainPublish ==
  /\ MainMayRun /\ mainPc = "announced"
  /\ mainPc' = "published"
  /\ UNCHANGED <<linuxVars, isrVars, wakeVars, workerVars, excused>>

-----------------------------------------------------------------------------
Linux == \/ LinuxNotify
         \/ \E p \in Priority : \/ LinuxPushSilently(p) \/ LinuxDoorbell(p)
                                \/ \E frame \in FrameKind(p) : LinuxPush(p, frame)
Isr == IsrPost \/ IsrGive \/ \E p \in Priority : IsrAcknowledge(p)
Worker == \/ WorkerTake \/ WorkerSwap \/ WorkerFrame \/ WorkerBadFrame
          \/ WorkerEmpty \/ WorkerQuota \/ WorkerRepost \/ WorkerGive
Main == MainAnnounce \/ MainPublish

Next == Linux \/ Isr \/ Worker \/ Main
Spec == Init /\ [][Next]_vars

\* CPU3 keeps executing and takes each interrupt that stays pending, and Linux
\* finishes a send it began.  Linux may send for ever or never.
FairSpec ==
  /\ Spec
  /\ WF_vars(LinuxNotify)
  /\ WF_vars(IsrPost) /\ WF_vars(IsrGive)
  /\ \A p \in Priority : SF_vars(IsrAcknowledge(p))
  /\ SF_vars(Worker) /\ WF_vars(Main)

-----------------------------------------------------------------------------
(* Properties *)

\* Rings, sets of priorities and program counters keep their types; the
\* semaphore never exceeds its limit of one.
TypeOK ==
  /\ ring \in [Priority -> Seq({"good", "bad"})]
  /\ \A p \in Priority : Len(ring[p]) <= RingCapacity
  /\ {sending, a2b, isr, pending, scan, reschedule, excused}
       \subseteq SUBSET Priority
  /\ isrPc \in {"idle", "post", "give"}
  /\ sem \in {0, 1}
  /\ workerPc \in {"wait", "swap", "drain", "give"}
  /\ handled \in 0 .. QUOTA
  /\ mainPc \in {"bound", "announced", "published"}

\* A wakeup for priority p is on its way: somebody between the push and the
\* drain loop still remembers p.
InFlight(p) == p \in sending \cup a2b \cup isr \cup pending \cup scan \cup reschedule

\* No wakeup is lost.  A queued frame always has a wakeup for its priority in
\* flight, whatever the interleaving of push, coalesced doorbell, interrupt
\* and drain loop, except for the three reasons recorded in excused: its
\* doorbell was suppressed by a test hook, the drain stopped at a bad frame
\* before it, or its wakeup was consumed before session_ready_published.
NoLostWakeup ==
  \A p \in Priority : ring[p] # <<>> => InFlight(p) \/ p \in excused

\* A posted priority never waits for a semaphore nobody will give: the binary
\* semaphore may merge gives but never loses the last one.
SemaphoreBacksPending ==
  pending # {} =>
    sem = 1 \/ isrPc = "give" \/ workerPc \in {"swap", "give"}

\* The worker's locals are live only where the code uses them, so a priority
\* left in scan or reschedule is really going to be visited.
LocalsAreLive ==
  /\ workerPc # "drain" => scan = {} /\ reschedule = {}
  /\ isr # {} <=> isrPc = "post"

\* Every doorbell is served, also while Linux keeps the more urgent rings full:
\* the drain quota bounds the time the worker spends on one priority.
EveryDoorbellIsServed ==
  \A p \in Priority :
    (mainPc = "published" /\ p \in a2b \cup pending) ~>
      (workerPc = "drain" /\ scan # {} /\ current = p)

\* A queued frame never stays unattended for ever (docs/mailmsg.md: "The
\* receiver drains the indicated ring on wakeup and retains fallback
\* scanning").
FallbackScanning ==
  \A p \in Priority :
    (ring[p] # <<>> /\ ~InFlight(p)) ~> (ring[p] = <<>> \/ InFlight(p))
=============================================================================
