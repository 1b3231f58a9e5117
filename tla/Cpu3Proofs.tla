----------------------------- MODULE Cpu3Proofs -----------------------------
(***************************************************************************)
(* Proofs about the firmware on CPU3: the worker it wakes for the frames   *)
(* of Linux, and the observation records it publishes.                     *)
(***************************************************************************)
EXTENDS Cpu3Worker, Observation, TLAPS

-----------------------------------------------------------------------------
(***************************************************************************)
(* No wakeup of Cpu3Worker is lost, for every set of priorities, ring      *)
(* size, quota and use of the test hooks.                                  *)
(*                                                                         *)
(* NoLostWakeup is inductive only with LocalsAreLive: the worker starts a  *)
(* pass by assigning scan, and the handler starts by assigning isr, which  *)
(* would forget a priority still held there.                               *)
(***************************************************************************)

\* ring is a function on the priorities.
RingDomain == DOMAIN ring = Priority

IInv == RingDomain /\ NoLostWakeup /\ LocalsAreLive /\ SemaphoreBacksPending

-----------------------------------------------------------------------------
\* Linux pushes before it rings, and remembers the priority in between.
LEMMA LinuxKeeps ==
  ASSUME IInv, Linux
  PROVE  IInv'
  <1>0. /\ UNCHANGED <<isrVars, wakeVars, workerVars>>
        /\ LocalsAreLive' /\ SemaphoreBacksPending'
    <2>1. UNCHANGED <<isrVars, wakeVars, workerVars>>
      BY Zenon DEF Linux, LinuxNotify, LinuxPushSilently, LinuxDoorbell, LinuxPush
    <2> QED BY Zenon, <2>1 DEF IInv, LocalsAreLive, SemaphoreBacksPending, isrVars, wakeVars,
                        workerVars
  <1>1. CASE LinuxNotify
    <2>1. RingDomain' /\ NoLostWakeup'
      BY Zenon, <1>0, <1>1 DEF LinuxNotify, IInv, RingDomain, NoLostWakeup, InFlight, isrVars,
                        wakeVars, workerVars
    <2> QED BY Zenon, <1>0, <2>1 DEF IInv
  <1>2. ASSUME NEW p \in Priority, LinuxPushSilently(p)
        PROVE  IInv'
    <2>1. RingDomain' /\ NoLostWakeup'
      BY Zenon, <1>0, <1>2 DEF LinuxPushSilently, IInv, RingDomain, NoLostWakeup, InFlight,
                        isrVars, wakeVars, workerVars
    <2> QED BY Zenon, <1>0, <2>1 DEF IInv
  <1>3. ASSUME NEW p \in Priority, LinuxDoorbell(p)
        PROVE  IInv'
    <2>1. RingDomain' /\ NoLostWakeup'
      BY Zenon, <1>0, <1>3 DEF LinuxDoorbell, IInv, RingDomain, NoLostWakeup, InFlight, isrVars,
                        wakeVars, workerVars
    <2> QED BY Zenon, <1>0, <2>1 DEF IInv
  <1>4. ASSUME NEW p \in Priority, NEW frame, LinuxPush(p, frame)
        PROVE  IInv'
    <2>1. RingDomain' /\ NoLostWakeup'
      BY Zenon, <1>0, <1>4 DEF LinuxPush, IInv, RingDomain, NoLostWakeup, InFlight, isrVars,
                        wakeVars, workerVars
    <2> QED BY Zenon, <1>0, <2>1 DEF IInv
  <1> QED BY Zenon, <1>1, <1>2, <1>3, <1>4 DEF Linux

\* The handler carries the priority from A2B_STATUS to the pending set, and
\* gives the semaphore after it.
LEMMA IsrKeeps ==
  ASSUME IInv, Isr
  PROVE  IInv'
  <1>1. CASE IsrPost
    BY Zenon, <1>1 DEF IsrPost, linuxVars, workerVars, IInv, RingDomain, NoLostWakeup, InFlight,
                LocalsAreLive, SemaphoreBacksPending
  <1>2. CASE IsrGive
    BY Zenon, <1>2 DEF IsrGive, linuxVars, workerVars, IInv, RingDomain, NoLostWakeup, InFlight,
                LocalsAreLive, SemaphoreBacksPending
  <1>3. ASSUME NEW p \in Priority, IsrAcknowledge(p)
        PROVE  IInv'
    BY Zenon, <1>3 DEF IsrAcknowledge, wakeVars, workerVars, IInv, RingDomain, NoLostWakeup,
                InFlight, LocalsAreLive, SemaphoreBacksPending
  <1> QED BY Zenon, <1>1, <1>2, <1>3 DEF Isr

\* The worker gives a priority up only when it found its ring empty, posts it
\* again, or has one of the excuses.
LEMMA WorkerKeeps ==
  ASSUME IInv, Worker
  PROVE  IInv'
  <1>1. CASE WorkerTake
    BY Zenon, <1>1 DEF WorkerTake, linuxVars, isrVars, IInv, RingDomain, NoLostWakeup, InFlight,
                LocalsAreLive, SemaphoreBacksPending
  <1>2. CASE WorkerSwap
    <2>1. LocalsAreLive' /\ SemaphoreBacksPending' /\ RingDomain'
      BY Zenon, <1>2 DEF WorkerSwap, linuxVars, isrVars, IInv, RingDomain, LocalsAreLive,
                  SemaphoreBacksPending
    <2>2. NoLostWakeup'
      BY Zenon, <1>2 DEF WorkerSwap, linuxVars, isrVars, IInv, NoLostWakeup, InFlight,
                  LocalsAreLive
    <2> QED BY Zenon, <2>1, <2>2 DEF IInv
  <1>3. CASE WorkerFrame
    BY Zenon, <1>3 DEF WorkerFrame, Draining, isrVars, wakeVars, IInv, RingDomain, NoLostWakeup,
                InFlight, LocalsAreLive, SemaphoreBacksPending
  <1>4. CASE WorkerBadFrame
    <2>1. LocalsAreLive' /\ SemaphoreBacksPending' /\ RingDomain'
      BY Zenon, <1>4 DEF WorkerBadFrame, Draining, isrVars, wakeVars, IInv, RingDomain,
                  LocalsAreLive, SemaphoreBacksPending
    <2>2. NoLostWakeup'
      BY Zenon, <1>4 DEF WorkerBadFrame, LeavePriority, isrVars, wakeVars, IInv, RingDomain,
                  NoLostWakeup, InFlight
    <2> QED BY Zenon, <2>1, <2>2 DEF IInv
  <1>5. CASE WorkerEmpty
    BY Zenon, <1>5 DEF WorkerEmpty, LeavePriority, Draining, linuxVars, isrVars, wakeVars, IInv,
                RingDomain, NoLostWakeup, InFlight, LocalsAreLive, SemaphoreBacksPending
  <1>6. CASE WorkerQuota
    BY Zenon, <1>6 DEF WorkerQuota, LeavePriority, Draining, linuxVars, isrVars, wakeVars, IInv,
                RingDomain, NoLostWakeup, InFlight, LocalsAreLive, SemaphoreBacksPending
  <1>7. CASE WorkerRepost
    BY Zenon, <1>7 DEF WorkerRepost, linuxVars, isrVars, IInv, RingDomain, NoLostWakeup, InFlight,
                LocalsAreLive, SemaphoreBacksPending
  <1>8. CASE WorkerGive
    BY Zenon, <1>8 DEF WorkerGive, linuxVars, isrVars, IInv, RingDomain, NoLostWakeup, InFlight,
                LocalsAreLive, SemaphoreBacksPending
  <1> QED BY Zenon, <1>1, <1>2, <1>3, <1>4, <1>5, <1>6, <1>7, <1>8 DEF Worker

\* The invariant holds at first and is kept.
LEMMA WorkerInv ==
  /\ Init => IInv
  /\ IInv /\ [Next]_vars => IInv'
  <1>1. Init => IInv
    BY Zenon DEF Init, IInv, RingDomain, NoLostWakeup, LocalsAreLive, SemaphoreBacksPending
  <1>2. ASSUME IInv, Main \/ UNCHANGED vars
        PROVE  IInv'
    BY Zenon, <1>2 DEF Main, MainAnnounce, MainPublish, vars, linuxVars, isrVars, wakeVars,
                workerVars, IInv, RingDomain, NoLostWakeup, InFlight, LocalsAreLive,
                SemaphoreBacksPending
  <1> QED BY Zenon, <1>1, <1>2, LinuxKeeps, IsrKeeps, WorkerKeeps DEF Next

\* A queued frame always has a wakeup for its priority in flight, or one of the
\* three excuses.
THEOREM WakeupsKept == Spec => []NoLostWakeup
  <1>1. IInv => NoLostWakeup
    BY Zenon DEF IInv
  <1> QED BY <1>1, WorkerInv, PTL DEF Spec

\* A posted priority never waits for a semaphore nobody will give, although the
\* binary semaphore merges gives.
THEOREM SemaphoreGiven == Spec => []SemaphoreBacksPending
  <1>1. IInv => SemaphoreBacksPending
    BY Zenon DEF IInv
  <1> QED BY <1>1, WorkerInv, PTL DEF Spec

-----------------------------------------------------------------------------
(***************************************************************************)
(* What status_show may rely on when it accepts an observation record, for *)
(* every set of counters and every number of updates.                      *)
(*                                                                         *)
(* The argument.  Between barriers the words may change in any order, but  *)
(* each of them carries the latest update or the one before it             *)
(* (RecordInv).  The second load of commit comes after all the counters    *)
(* were loaded; if it is not zero, at most one later update has begun      *)
(* (RecentInv).  A read during which nothing is published meets one update *)
(* only (QuietInv).                                                        *)
(***************************************************************************)

\* Stored words carry the update in progress, the others the one before it.
RecordInv ==
  /\ writePc = "idle" => stores = {} /\ \A w \in Word : word[w] = update
  /\ writePc = "fill" =>
       /\ update > 0
       /\ \A w \in Stamped : word[w] = IF w \in stores THEN update - 1 ELSE update
       /\ word["commit"] = IF "commit" \in stores THEN update - 1 ELSE 0

\* Has the read in progress made this load?
Loaded(l) ==
  IF readPc = "first" THEN l \in FirstLoads \ loads
  ELSE readPc = "second" /\ (l \in FirstLoads \/ l \in SecondLoads \ loads)

\* The blocks of the reader, and how far its loads are from the writer.
RecentInv ==
  /\ readPc = "first" => loads \subseteq FirstLoads
  /\ readPc = "second" => loads \subseteq SecondLoads
  /\ readPc # "idle" => floor <= Complete
  /\ \A f \in Fields : Loaded(f) => floor <= copy[f]
  /\ Loaded("second") /\ copy["second"] # 0 =>
       /\ floor <= copy["second"]
       /\ \A f \in Fields : copy[f] <= copy["second"] + 1

\* A quiet read has met one update only.
QuietInv ==
  readPc # "idle" /\ quiet =>
    /\ writePc = "idle" /\ update = floor
    /\ \A l \in Local : Loaded(l) => copy[l] = floor

ObservationInv ==
  ObservationTypeOK /\ RecordInv /\ RecentInv /\ QuietInv

USE FieldsAssumption, MaxUpdatesAssumption

\* The words of the record and the locals of the reader are told apart.
LEMMA Distinct ==
  /\ "commit" \in Word /\ "commit" \notin Stamped /\ Stamped \subseteq Word
  /\ Fields \subseteq Stamped /\ Fields \subseteq FirstLoads
  /\ "commit" \in FirstLoads /\ "second" \notin FirstLoads
  /\ FirstLoads \subseteq Local /\ SecondLoads \subseteq Local
  /\ FirstLoads \subseteq Word /\ "commit_inv" \in Word
  /\ FirstLoads \ {"commit"} \subseteq Stamped /\ "commit_inv" \in Stamped
  /\ Local = FirstLoads \cup {"second", "commit_inv"}
  /\ SecondLoads = {"second", "commit_inv"} /\ "commit_inv" \notin FirstLoads
  /\ "second" \in SecondLoads /\ "commit" \notin SecondLoads
  /\ Fields \cap SecondLoads = {} /\ "commit" \notin Fields
BY Zenon DEF Word, Stamped, FirstLoads, SecondLoads, Local

\* The memset of start_store gives a record no read accepts.
LEMMA InitInv == ObservationInit => ObservationInv
<1> SUFFICES ASSUME ObservationInit PROVE ObservationInv
  BY Zenon
<1>1. ObservationTypeOK
  <2>1. quiet \in BOOLEAN
    BY Zenon DEF ObservationInit
  <2>2. update \in Nat /\ floor \in 0 .. update
    BY DEF ObservationInit
  <2>3. word \in [Word -> 0 .. update] /\ copy \in [Local -> 0 .. update]
    BY DEF ObservationInit
  <2> QED BY Zenon, <2>1, <2>2, <2>3 DEF ObservationInit, ObservationTypeOK
<1> QED BY Zenon, <1>1, Distinct
        DEF ObservationInit, ObservationInv, RecordInv, RecentInv, QuietInv, Loaded

\* Beginning an update changes no word.
LEMMA BeginInv == ASSUME ObservationInv, PublishBegin PROVE ObservationInv'
<1>0. /\ writePc = "idle" /\ writePc' = "fill" /\ update' = update + 1
      /\ stores' = Word /\ quiet' = FALSE
      /\ UNCHANGED <<word, readPc, loads, copy, floor>>
  BY Zenon DEF PublishBegin, readVars
<1>1. ObservationTypeOK'
  <2>1. update' \in Nat /\ floor' \in 0 .. update'
    BY <1>0 DEF ObservationInv, ObservationTypeOK
  <2>2. 0 .. update \subseteq 0 .. update'
    BY <1>0 DEF ObservationInv, ObservationTypeOK
  <2>3. word' \in [Word -> 0 .. update'] /\ copy' \in [Local -> 0 .. update']
    BY Zenon, <1>0, <2>2 DEF ObservationInv, ObservationTypeOK
  <2> QED BY Zenon, <1>0, <2>1, <2>3 DEF ObservationInv, ObservationTypeOK
<1>2. RecordInv'
  BY <1>0, Distinct DEF ObservationInv, ObservationTypeOK, RecordInv
<1>3. RecentInv'
  BY <1>0, Distinct DEF ObservationInv, ObservationTypeOK, RecentInv, Loaded, Complete
<1>4. QuietInv'
  BY Zenon, <1>0 DEF QuietInv
<1> QED BY Zenon, <1>1, <1>2, <1>3, <1>4 DEF ObservationInv

\* A store gives its word the update in progress, or 0.
LEMMA StoreInv == ASSUME ObservationInv, NEW w \in Word, PublishStore(w) PROVE ObservationInv'
<1>0. /\ writePc = "fill" /\ writePc' = "fill" /\ w \in stores
      /\ stores' = stores \ {w}
      /\ word' = [word EXCEPT ![w] = IF w = "commit" THEN 0 ELSE update]
      /\ UNCHANGED <<update, readPc, loads, copy, floor, quiet>>
  BY Zenon DEF PublishStore, readVars
<1>1. ObservationTypeOK'
  <2>1. update \in 0 .. update /\ 0 \in 0 .. update
    BY DEF ObservationInv, ObservationTypeOK
  <2>2. word' \in [Word -> 0 .. update]
    BY Zenon, <1>0, <2>1 DEF ObservationInv, ObservationTypeOK
  <2> QED BY Zenon, <1>0, <2>2 DEF ObservationInv, ObservationTypeOK
<1>2. RecordInv'
  <2>1. \A v \in Stamped : word'[v] = IF v \in stores' THEN update - 1 ELSE update
    BY Zenon, <1>0, Distinct DEF ObservationInv, ObservationTypeOK, RecordInv
  <2>2. word'["commit"] = IF "commit" \in stores' THEN update - 1 ELSE 0
    BY Zenon, <1>0, Distinct DEF ObservationInv, ObservationTypeOK, RecordInv
  <2> QED BY Zenon, <1>0, <2>1, <2>2 DEF ObservationInv, RecordInv
<1>3. RecentInv'
  BY Zenon, <1>0 DEF ObservationInv, RecentInv, Loaded, Complete
<1>4. QuietInv'
  BY Zenon, <1>0 DEF ObservationInv, QuietInv
<1> QED BY Zenon, <1>0, <1>1, <1>2, <1>3, <1>4 DEF ObservationInv

\* Storing commit completes the update.
LEMMA CommitInv == ASSUME ObservationInv, PublishCommit PROVE ObservationInv'
<1>0. /\ writePc = "fill" /\ writePc' = "idle" /\ stores = {} /\ stores' = {}
      /\ word' = [word EXCEPT !["commit"] = update]
      /\ UNCHANGED <<update, readPc, loads, copy, floor, quiet>>
  BY Zenon DEF PublishCommit, readVars
<1>a. update \in Nat /\ update > 0 /\ word["commit"] = 0 /\ word'["commit"] = update
      /\ \A v \in Stamped : word[v] = update
  BY Zenon, <1>0, Distinct DEF ObservationInv, ObservationTypeOK, RecordInv
<1>1. ObservationTypeOK'
  <2>1. update \in 0 .. update
    BY DEF ObservationInv, ObservationTypeOK
  <2>2. word' \in [Word -> 0 .. update]
    BY Zenon, <1>0, <2>1 DEF ObservationInv, ObservationTypeOK
  <2> QED BY Zenon, <1>0, <2>2 DEF ObservationInv, ObservationTypeOK
<1>2. RecordInv'
  <2>1. \A v \in Word : word'[v] = update
    BY Zenon, <1>0, <1>a DEF ObservationInv, ObservationTypeOK, Word
  <2> QED BY Zenon, <1>0, <2>1 DEF RecordInv
<1>3. RecentInv'
  BY <1>0, <1>a DEF ObservationInv, ObservationTypeOK, RecentInv, Loaded, Complete
<1>4. QuietInv'
  BY Zenon, <1>0 DEF ObservationInv, QuietInv
<1> QED BY Zenon, <1>0, <1>1, <1>2, <1>3, <1>4 DEF ObservationInv

\* A load takes what memory holds.
LEMMA LoadInv == ASSUME ObservationInv, NEW l \in Local, ReadLoad(l) PROVE ObservationInv'
<1>0. /\ readPc' = readPc /\ loads' = loads \ {l} /\ l \in loads
      /\ readPc \in {"first", "second"}
      /\ copy' = [copy EXCEPT ![l] = word[IF l = "second" THEN "commit" ELSE l]]
      /\ UNCHANGED <<word, update, writePc, stores, floor, quiet>>
  BY Zenon DEF ReadLoad, writeVars
<1>1. ObservationTypeOK'
  BY Zenon, <1>0, Distinct DEF ObservationInv, ObservationTypeOK
<1>2. RecordInv'
  BY Zenon, <1>0 DEF ObservationInv, RecordInv
<1>3. RecentInv'
  <2>1. CASE readPc = "first"
    BY <1>0, <2>1, Distinct DEF ObservationInv, ObservationTypeOK, RecordInv, RecentInv, Loaded, Complete
  <2>2. CASE readPc = "second"
    BY <1>0, <2>2, Distinct DEF ObservationInv, ObservationTypeOK, RecordInv, RecentInv, Loaded, Complete
  <2> QED BY Zenon, <1>0, <2>1, <2>2
<1>4. QuietInv'
  <2> SUFFICES ASSUME quiet, writePc = "idle", update = floor,
                      NEW k \in Local, Loaded(k)'
               PROVE  copy'[k] = floor
    BY Zenon, <1>0 DEF ObservationInv, QuietInv
  <2>1. CASE k = l
    BY Zenon, <1>0, <2>1, Distinct DEF ObservationInv, ObservationTypeOK, RecordInv
  <2>2. CASE k # l
    BY Zenon, <1>0, <2>2, Distinct DEF ObservationInv, ObservationTypeOK, QuietInv, Loaded
  <2> QED BY Zenon, <2>1, <2>2
<1> QED BY Zenon, <1>0, <1>1, <1>2, <1>3, <1>4 DEF ObservationInv

\* The reader's other steps begin and end its blocks.
LEMMA ReadStepInv == ASSUME ObservationInv, ReadBegin \/ ReadBarrier \/ ReadEnd PROVE ObservationInv'
<1>1. CASE ReadBegin
  <2>0. /\ readPc' = "first" /\ loads' = FirstLoads
        /\ copy' = [l \in Local |-> 0]
        /\ floor' = Complete /\ (quiet' <=> writePc = "idle") /\ quiet' \in BOOLEAN
        /\ UNCHANGED <<word, update, writePc, stores>>
    BY Zenon, <1>1 DEF ReadBegin, writeVars
  <2>1. ObservationTypeOK'
    BY <2>0, Distinct DEF ObservationInv, ObservationTypeOK, RecordInv, Complete
  <2> QED BY <2>0, <2>1, Distinct
          DEF ObservationInv, ObservationTypeOK, RecordInv, RecentInv, QuietInv, Loaded, Complete
<1>2. CASE ReadBarrier
  BY Zenon, <1>2, Distinct
  DEF ObservationInv, ObservationTypeOK, RecordInv, RecentInv, QuietInv, Loaded, Complete,
      ReadBarrier, writeVars
<1>3. CASE ReadEnd
  BY Zenon, <1>3, Distinct
  DEF ObservationInv, ObservationTypeOK, RecordInv, RecentInv, QuietInv, Loaded, Complete,
      ReadEnd, writeVars
<1> QED BY Zenon, <1>1, <1>2, <1>3

\* Every store, load and barrier of the two sides keeps the invariant.
LEMMA StepInv == ObservationInv /\ [ObservationNext]_recordVars => ObservationInv'
<1>1. ObservationInv /\ UNCHANGED recordVars => ObservationInv'
  BY DEF ObservationInv, ObservationTypeOK, RecordInv, RecentInv, QuietInv, Loaded, Complete,
         recordVars, writeVars, readVars
<1> QED BY Zenon, <1>1, BeginInv, StoreInv, CommitInv, LoadInv, ReadStepInv
        DEF ObservationNext, Writer, Reader

\* The snapshot that status_show accepts lies between the update that was
\* complete when it began and the one in progress at its end.
THEOREM SnapshotRecent == ObservationSpec => []SnapshotIsRecent
<1>1. ObservationInv => SnapshotIsRecent
  <2> SUFFICES ASSUME ObservationInv, Decided, Valid, NEW f \in Fields \cup {"second"}
               PROVE  copy[f] \in floor .. copy["second"] + 1
    BY Zenon DEF SnapshotIsRecent
  <2>1. f \in Local /\ "second" \in Local
    BY Zenon, Distinct
  <2>2. copy[f] \in Nat /\ copy["second"] \in Nat /\ floor \in Nat
    BY <2>1 DEF ObservationInv, ObservationTypeOK
  <2>3. copy["second"] # 0 /\ Loaded("second")
    BY Zenon, Distinct DEF Valid, Decided, Loaded
  <2>4. CASE f \in Fields
    <3>1. Loaded(f)
      BY Zenon, <2>4, Distinct DEF Decided, Loaded
    <3>2. floor <= copy[f] /\ copy[f] <= copy["second"] + 1
      BY Zenon, <2>3, <2>4, <3>1 DEF ObservationInv, RecentInv
    <3> QED BY <2>2, <3>2
  <2>5. CASE f = "second"
    <3>1. floor <= copy["second"]
      BY Zenon, <2>3 DEF ObservationInv, RecentInv
    <3> QED BY <2>2, <2>5, <3>1
  <2> QED BY Zenon, <2>4, <2>5
<1> QED BY InitInv, StepInv, <1>1, PTL DEF ObservationSpec

\* A read that meets no update in progress is accepted and exact.
THEOREM QuietReadExact == ObservationSpec => []QuietReadIsExact
<1>1. ObservationInv => QuietReadIsExact
  BY Distinct DEF ObservationInv, ObservationTypeOK, QuietInv, QuietReadIsExact, Valid, Loaded, Decided,
                  FirstLoads
<1> QED BY InitInv, StepInv, <1>1, PTL DEF ObservationSpec

=============================================================================
