----------------------------- MODULE Observation -----------------------------
(***************************************************************************)
(* An observation record CPU3 publishes in the control page for the status *)
(* attribute of the Linux driver: the worker's counters, or the tx_full    *)
(* record (zephyr/app/src/main.c, status_show in lzamp_amp_mailmsg.c).     *)
(* The record has no lock: the writer zeroes commit, stores the words,     *)
(* stores ~commit and, after a barrier, commit; the reader loads commit    *)
(* and the words, passes a barrier, and loads commit again and ~commit.    *)
(*                                                                         *)
(* Memory.  As in MailMsgRing: stores, and loads, between two barriers     *)
(* take effect in any order.  No barrier follows the store that zeroes     *)
(* commit, nor the first load of commit.                                   *)
(*                                                                         *)
(* Data.  A word holds the number of the update it was written by, 0 being *)
(* the memset of start_store; commit_inv holds the number whose complement *)
(* it is.  One session: start_store and the reader exclude each other      *)
(* (data->lock), and the 32-bit commit counter does not come round while   *)
(* one read is in progress.                                                *)
(***************************************************************************)
EXTENDS Integers

CONSTANTS
  Fields,      \* the counters of the record
  MaxUpdates   \* bound: updates of one session

ASSUME FieldsAssumption ==
  Fields \cap {"commit", "second", "magic", "commit_inv"} = {}
ASSUME MaxUpdatesAssumption == MaxUpdates \in Nat

VARIABLES
  word,              \* the record in memory
  update,            \* mailmsg_worker_commit: number of the latest update
  writePc, stores,   \* the publication in progress, its stores outstanding
  readPc, loads,     \* the read in progress, its loads outstanding
  copy,              \* the locals of status_show
  floor,             \* history: the update complete when the read began
  quiet              \* history: no update was in progress during the read

writeVars == <<word, update, writePc, stores>>
readVars == <<readPc, loads, copy, floor>>
recordVars == <<writeVars, readVars, quiet>>

Stamped == Fields \cup {"magic", "commit_inv"}
Word == Stamped \cup {"commit"}

\* Loads before the second barrier, and after it; "second" is the second load
\* of commit.
FirstLoads == Fields \cup {"magic", "commit"}
SecondLoads == {"second", "commit_inv"}
Local == FirstLoads \cup SecondLoads

\* The update that is complete in memory.
Complete == IF writePc = "idle" THEN update ELSE update - 1

ObservationInit ==
  /\ word = [w \in Word |-> 0]
  /\ update = 0
  /\ writePc = "idle" /\ stores = {}
  /\ readPc = "idle" /\ loads = {}
  /\ copy = [l \in Local |-> 0]
  /\ floor = 0 /\ quiet = FALSE

-----------------------------------------------------------------------------
(* mailmsg_publish_worker_observation, mailmsg_publish_tx_full_observation *)

PublishBegin ==
  /\ writePc = "idle" /\ update < MaxUpdates
  /\ update' = update + 1
  /\ writePc' = "fill" /\ stores' = Word
  /\ quiet' = FALSE
  /\ UNCHANGED <<word, readVars>>

\* A mistake: the complement is left as it was.
PublishStoreNoInverse(w) ==
  /\ writePc = "fill" /\ w \in stores
  /\ word' = [word EXCEPT ![w] = IF w = "commit" THEN 0
                                ELSE IF w = "commit_inv" THEN word[w] ELSE update]
  /\ stores' = stores \ {w}
  /\ UNCHANGED <<update, writePc, readVars, quiet>>

\* A store of the first block: commit is zeroed, the others get the update.
PublishStore(w) ==
  /\ writePc = "fill" /\ w \in stores
  /\ word' = [word EXCEPT ![w] = IF w = "commit" THEN 0 ELSE update]
  /\ stores' = stores \ {w}
  /\ UNCHANGED <<update, writePc, readVars, quiet>>

\* amp_dsb has drained the block; commit, flush and barrier end the update.
PublishCommit ==
  /\ writePc = "fill" /\ stores = {}
  /\ word' = [word EXCEPT !["commit"] = update]
  /\ writePc' = "idle"
  /\ UNCHANGED <<update, stores, readVars, quiet>>

-----------------------------------------------------------------------------
(* status_show, under data->lock *)

ReadBegin ==
  /\ readPc = "idle"
  /\ readPc' = "first" /\ loads' = FirstLoads
  /\ copy' = [l \in Local |-> 0]
  /\ floor' = Complete /\ quiet' = (writePc = "idle")
  /\ UNCHANGED <<writeVars>>

ReadLoad(l) ==
  /\ readPc \in {"first", "second"} /\ l \in loads
  /\ copy' = [copy EXCEPT ![l] = word[IF l = "second" THEN "commit" ELSE l]]
  /\ loads' = loads \ {l}
  /\ UNCHANGED <<readPc, floor, quiet, writeVars>>

\* A mistake: the barrier is missing.
ReadBarrierMissing ==
  /\ readPc = "first"
  /\ readPc' = "second" /\ loads' = loads \cup SecondLoads
  /\ UNCHANGED <<copy, floor, quiet, writeVars>>

\* dsb(sy) after the second invalidate.
ReadBarrier ==
  /\ readPc = "first" /\ loads = {}
  /\ readPc' = "second" /\ loads' = SecondLoads
  /\ UNCHANGED <<copy, floor, quiet, writeVars>>

ReadEnd ==
  /\ readPc = "second" /\ loads = {}
  /\ readPc' = "idle"
  /\ UNCHANGED <<loads, copy, floor, quiet, writeVars>>

\* tx_full_valid, worker_valid.
Valid ==
  /\ copy["magic"] # 0
  /\ copy["commit"] # 0
  /\ copy["commit"] = copy["second"]
  /\ copy["commit_inv"] = copy["second"]

-----------------------------------------------------------------------------
Writer == PublishBegin \/ PublishCommit \/ \E w \in Word : PublishStore(w)
Reader == ReadBegin \/ ReadBarrier \/ ReadEnd \/ \E l \in Local : ReadLoad(l)
ObservationNext == Writer \/ Reader
ObservationSpec == ObservationInit /\ [][ObservationNext]_recordVars

-----------------------------------------------------------------------------
(* Properties *)

\* Words and locals hold update numbers; a block in progress only owes
\* accesses of its own.
ObservationTypeOK ==
  /\ quiet \in BOOLEAN
  /\ update \in Nat /\ floor \in 0 .. update
  /\ word \in [Word -> 0 .. update]
  /\ writePc \in {"idle", "fill"} /\ stores \subseteq Word
  /\ readPc \in {"idle", "first", "second"} /\ loads \subseteq Local
  /\ copy \in [Local -> 0 .. update]

\* status_show has made all its loads and tests them.
Decided == readPc = "second" /\ loads = {}

\* The snapshot status_show accepts is one update, and the one whose number it
\* prints, however often CPU3 publishes during the read (main.c, the comment on
\* the tx_full record: "Linux reads a stable snapshot through commit/inverse").
StableSnapshot ==
  Decided /\ Valid => \A f \in Fields : copy[f] = copy["second"]

\* An accepted snapshot may mix updates, but it is nowhere older than the update
\* that was complete when status_show began, and nowhere further ahead of the
\* number it prints than the update in progress.
SnapshotIsRecent ==
  Decided /\ Valid =>
    \A f \in Fields \cup {"second"} : copy[f] \in floor .. copy["second"] + 1

\* A read during which CPU3 publishes nothing is accepted, and exact.
QuietReadIsExact ==
  Decided /\ quiet /\ floor > 0 => Valid /\ \A f \in Fields : copy[f] = floor
=============================================================================
