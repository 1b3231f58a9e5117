---------------------------- MODULE MailMsgReader ----------------------------
(***************************************************************************)
(* The way back: how frames CPU3 queued wake a reader of one priority      *)
(* device (/dev/mailmsg-pN of lzamp_amp_mailmsg.c): open, the single       *)
(* reader claim, blocking and non-blocking read, poll, release, the        *)
(* mailbox callback, the sysfs drain, and the end of the session.          *)
(*                                                                         *)
(* Concurrency.  Files belong to different tasks.  What runs under         *)
(* data->lock is one step; the sample of rx_generation, the sleep and the  *)
(* callback are steps outside the lock.  CPU3 pushes, then rings.          *)
(*                                                                         *)
(* Data.  The ring is its number of frames.  rx_generation is only ever    *)
(* compared with an earlier sample, so the model keeps the set of files    *)
(* whose sample is still current.                                          *)
(***************************************************************************)
EXTENDS Integers, FiniteSets

CONSTANTS File, NonBlock, RingCapacity

ASSUME ReaderAssumption ==
  /\ IsFiniteSet(File) /\ NonBlock \subseteq File   \* O_NONBLOCK files
  /\ RingCapacity \in Nat \ {0}

VARIABLES
  mailmsg_state,      \* ACTIVE or OFFLINE: all an open file can meet
  ring,               \* frames in cpu3_to_linux of this priority
  ringing,            \* CPU3 between its push and its doorbell
  b2a, callback,      \* B2A_STATUS bit; acknowledged, callback due
  pc,                 \* each file: closed, open, or where its call is
  claimed,            \* files with reader_claimed
  reader_open_count,
  current,            \* files whose sample equals rx_generation
  waiting             \* pollers not woken since they registered

wakeVars == <<current, waiting>>
cpu3Vars == <<ringing, b2a, callback>>
claimVars == <<claimed, reader_open_count>>
readerVars == <<mailmsg_state, ring, cpu3Vars, pc, claimVars, wakeVars>>

ReaderInit ==
  /\ mailmsg_state = "ACTIVE" /\ ring = 0
  /\ ringing = FALSE /\ b2a = FALSE /\ callback = FALSE
  /\ pc = [f \in File |-> "closed"]
  /\ claimed = {} /\ reader_open_count = 0
  /\ current = {} /\ waiting = {}

Goto(f, from, to) == pc[f] = from /\ pc' = [pc EXCEPT ![f] = to]

\* atomic_inc(rx_generation); wake_up_interruptible(rx_wait).
WakeAll == current' = {} /\ waiting' = {}

-----------------------------------------------------------------------------
(* File operations *)

r1_amp_mailmsg_user_open(f) ==
  /\ mailmsg_state = "ACTIVE"
  /\ Goto(f, "closed", "open")
  /\ UNCHANGED <<mailmsg_state, ring, cpu3Vars, claimVars, wakeVars>>

r1_amp_mailmsg_user_release(f) ==
  /\ Goto(f, "open", "closed")
  /\ reader_open_count' = reader_open_count - (IF f \in claimed THEN 1 ELSE 0)
  /\ claimed' = claimed \ {f}
  /\ UNCHANGED <<mailmsg_state, ring, cpu3Vars, wakeVars>>

\* Mutant: every file may claim.
MayAlwaysClaim(f) == f \in File

\* The claim succeeds for its holder and when nobody holds it.
MayClaim(f) == f \in claimed \/ reader_open_count = 0

r1_amp_mailmsg_user_claim_reader(f) ==
  /\ MayClaim(f)
  /\ claimed' = claimed \cup {f}
  /\ reader_open_count' = reader_open_count + (IF f \in claimed THEN 0 ELSE 1)

\* A read whose claim is refused returns EBUSY and changes nothing.
ReadBegin(f) ==
  /\ Goto(f, "open", "sample")
  /\ r1_amp_mailmsg_user_claim_reader(f)
  /\ UNCHANGED <<mailmsg_state, ring, cpu3Vars, wakeVars>>

ReadSample(f) ==
  /\ Goto(f, "sample", "receive")
  /\ current' = current \cup {f}
  /\ UNCHANGED <<mailmsg_state, ring, cpu3Vars, claimVars, waiting>>

\* Gate and receive under the lock: a frame, an error, EAGAIN or sleep.
ReadReceive(f) ==
  /\ Goto(f, "receive",
          IF mailmsg_state = "ACTIVE" /\ ring = 0 /\ f \notin NonBlock
          THEN "sleep" ELSE "open")
  /\ ring' = IF mailmsg_state = "ACTIVE" /\ ring > 0 THEN ring - 1 ELSE ring
  /\ UNCHANGED <<mailmsg_state, cpu3Vars, claimVars, wakeVars>>

\* Mutant: a wakeup takes a new sample and sleeps again.
ReadWakeResamples(f) ==
  /\ f \notin current /\ pc[f] = "sleep"
  /\ current' = current \cup {f}
  /\ UNCHANGED <<mailmsg_state, ring, cpu3Vars, pc, claimVars, waiting>>

\* wait_event_interruptible: the sample is out of date, or a signal.
ReadWake(f) ==
  /\ f \notin current
  /\ Goto(f, "sleep", "sample")
  /\ UNCHANGED <<mailmsg_state, ring, cpu3Vars, claimVars, wakeVars>>

ReadInterrupted(f) ==
  /\ Goto(f, "sleep", "open")
  /\ UNCHANGED <<mailmsg_state, ring, cpu3Vars, claimVars, wakeVars>>

\* poll_wait comes before the state is looked at.
PollBegin(f) ==
  /\ Goto(f, "open", "poll")
  /\ r1_amp_mailmsg_user_claim_reader(f)
  /\ waiting' = waiting \cup {f}
  /\ UNCHANGED <<mailmsg_state, ring, cpu3Vars, current>>

PollCheck(f) ==
  /\ Goto(f, "poll",
          IF mailmsg_state = "ACTIVE" /\ ring = 0 THEN "pollsleep" ELSE "open")
  /\ UNCHANGED <<mailmsg_state, ring, cpu3Vars, claimVars, wakeVars>>

PollWake(f) ==
  /\ f \notin waiting
  /\ Goto(f, "pollsleep", "poll")
  /\ waiting' = waiting \cup {f}
  /\ UNCHANGED <<mailmsg_state, ring, cpu3Vars, claimVars, current>>

PollTimeout(f) ==
  /\ Goto(f, "pollsleep", "open")
  /\ UNCHANGED <<mailmsg_state, ring, cpu3Vars, claimVars, wakeVars>>

-----------------------------------------------------------------------------
(* The rest of the driver, and CPU3 *)

\* sysfs drains the ring whoever holds the reader claim.
mailmsg_response_show ==
  /\ mailmsg_state = "ACTIVE"
  /\ ring' = 0
  /\ UNCHANGED <<mailmsg_state, cpu3Vars, pc, claimVars, wakeVars>>

\* Mutant: the end of the session wakes nobody.
MarkOfflineSilently ==
  /\ mailmsg_state = "ACTIVE" /\ ~ringing
  /\ mailmsg_state' = "OFFLINE"
  /\ UNCHANGED <<ring, cpu3Vars, pc, claimVars, wakeVars>>

\* CPU3 is off: nothing it began is left unfinished.
r1_amp_mailmsg_mark_offline_locked ==
  /\ mailmsg_state = "ACTIVE" /\ ~ringing
  /\ mailmsg_state' = "OFFLINE"
  /\ WakeAll
  /\ UNCHANGED <<ring, cpu3Vars, pc, claimVars>>

\* rearm, start and SESSION_READY: only with every file closed (AmpLifecycle).
Restart ==
  /\ mailmsg_state = "OFFLINE" /\ \A f \in File : pc[f] = "closed"
  /\ mailmsg_state' = "ACTIVE" /\ ring' = 0
  /\ UNCHANGED <<cpu3Vars, pc, claimVars, wakeVars>>

Cpu3Push ==
  /\ mailmsg_state = "ACTIVE" /\ ~ringing
  /\ ring < RingCapacity
  /\ ring' = ring + 1 /\ ringing' = TRUE
  /\ UNCHANGED <<mailmsg_state, b2a, callback, pc, claimVars, wakeVars>>

\* Rung, or coalesced into the doorbell still pending.
mailmsg_cpu3_notify ==
  /\ ringing
  /\ ringing' = FALSE /\ b2a' = TRUE
  /\ UNCHANGED <<mailmsg_state, ring, callback, pc, claimVars, wakeVars>>

\* The mailbox controller acknowledges the doorbell, then calls the client.
MailboxAcknowledge ==
  /\ b2a /\ ~callback
  /\ b2a' = FALSE /\ callback' = TRUE
  /\ UNCHANGED <<mailmsg_state, ring, ringing, pc, claimVars, wakeVars>>

r1_amp_mbox_rx_callback ==
  /\ callback
  /\ callback' = FALSE
  /\ WakeAll
  /\ UNCHANGED <<mailmsg_state, ring, ringing, b2a, pc, claimVars>>

-----------------------------------------------------------------------------
FileStep(f) ==
  \/ ReadSample(f) \/ ReadReceive(f) \/ ReadWake(f)
  \/ PollCheck(f) \/ PollWake(f)
FileCall(f) ==
  \/ r1_amp_mailmsg_user_open(f) \/ r1_amp_mailmsg_user_release(f)
  \/ ReadBegin(f) \/ ReadInterrupted(f) \/ PollBegin(f) \/ PollTimeout(f)
Wakeup == mailmsg_cpu3_notify \/ MailboxAcknowledge \/ r1_amp_mbox_rx_callback

ReaderNext ==
  \/ \E f \in File : FileStep(f) \/ FileCall(f)
  \/ Wakeup \/ Cpu3Push
  \/ mailmsg_response_show \/ r1_amp_mailmsg_mark_offline_locked \/ Restart
ReaderSpec == ReaderInit /\ [][ReaderNext]_readerVars

\* A runnable task runs, interrupts are delivered, CPU3 finishes a send.
ReaderFairSpec ==
  /\ ReaderSpec
  /\ \A f \in File : WF_readerVars(FileStep(f))
  /\ WF_readerVars(mailmsg_cpu3_notify) /\ WF_readerVars(MailboxAcknowledge)
  /\ WF_readerVars(r1_amp_mbox_rx_callback)

-----------------------------------------------------------------------------
(* Properties *)

\* Ring, flags, program counters and the reader count keep their types.
ReaderTypeOK ==
  /\ mailmsg_state \in {"ACTIVE", "OFFLINE"}
  /\ ring \in 0 .. RingCapacity
  /\ ringing \in BOOLEAN /\ b2a \in BOOLEAN /\ callback \in BOOLEAN
  /\ pc \in [File -> {"closed", "open", "sample", "receive", "sleep", "poll",
                      "pollsleep"}]
  /\ claimed \subseteq File /\ reader_open_count \in Nat
  /\ current \subseteq File /\ waiting \subseteq File

\* Asleep and not yet due to wake.
Asleep(f) == \/ pc[f] = "sleep" /\ f \in current
             \/ pc[f] = "pollsleep" /\ f \in waiting

\* Nobody sleeps on work: while a blocking read or a poll sleeps, a frame in
\* its ring has a doorbell or a callback on the way, and the session is not
\* over.  Sampling rx_generation before the receive is what closes the window
\* between finding the ring empty and going to sleep.
NobodySleepsOnWork ==
  \A f \in File : Asleep(f) =>
    /\ ring > 0 => ringing \/ b2a \/ callback
    /\ mailmsg_state = "ACTIVE"

\* The ring has one consumer: the counter is the number of claims, at most one,
\* and every call that may take or await frames belongs to the claimant (the
\* comment on reader_open_count: "The shared reverse ring has exactly one
\* Linux-side consumer").
OneReader ==
  /\ reader_open_count <= 1
  /\ \A f \in File : f \in claimed => claimed = {f} /\ reader_open_count = 1
  /\ \A f \in File : pc[f] \notin {"closed", "open"} => f \in claimed

\* A sleeping reader whose ring has a frame, or whose session ends, gets up.
SleeperWakes ==
  \A f \in File :
    (pc[f] \in {"sleep", "pollsleep"} /\ (ring > 0 \/ mailmsg_state = "OFFLINE"))
      ~> (pc[f] \notin {"sleep", "pollsleep"})

\* After the end of the session every call on an open file returns.
OfflineCallReturns ==
  \A f \in File :
    (mailmsg_state = "OFFLINE") ~> (pc[f] \in {"open", "closed"})
=============================================================================
