---------------------------- MODULE MailMsgRing ----------------------------
(***************************************************************************)
(* One MailMsg V7 ring (mailmsg/mailmsg.c): a single-producer              *)
(* single-consumer ring in memory shared by Linux and CPU3.                *)
(*                                                                         *)
(* Memory.  Both sides see one coherent memory, but plain stores and loads *)
(* between two publish/acquire calls (each ends in a full barrier) take    *)
(* effect in any order.  So the stores that fill a slot are separate steps *)
(* in any order, the loads that copy a slot are separate steps in any      *)
(* order, and the store that releases the slot (ring->consumer = next) may *)
(* become visible before the copy is complete: nothing in the code orders  *)
(* the payload loads before it.  Only the loads of commit and sequence are *)
(* ordered before the release, by the branch that tests them.              *)
(*                                                                         *)
(* Data.  "body" stands for generation, type, length and payload.  The     *)
(* CRC is a checksum over sequence and body that tells different contents  *)
(* apart.  A frame the push refuses as INVALID (no generation, no sequence *)
(* or a length above MAILMSG_PAYLOAD_BYTES) never reaches a slot.          *)
(***************************************************************************)
EXTENDS Integers, Sequences

CONSTANTS
  SLOTS,      \* MAILMSG_RING_SLOTS
  Payload,    \* bodies a sender writes
  Garbled,    \* a body no sender wrote: zeroed memory, or payload[0] ^ 0xff
  NoCrc,      \* the crc32 word of a zeroed slot
  MaxSend     \* bound: accepted frames in one behaviour

ASSUME SlotsAssumption == SLOTS \in Nat /\ SLOTS >= 2
ASSUME GarbledAssumption == Garbled \notin Payload
ASSUME MaxSendAssumption == MaxSend \in Nat

VARIABLES
  producer, consumer, slot,          \* struct mailmsg_ring
  pushPc, outgoing, toStore,         \* the push in progress
  popPc, incoming, toLoad, released, \* the pop in progress
  pushResult, popResult,             \* last return values
  sent, got                          \* history: accepted and returned frames

ringVars == <<producer, consumer, slot>>
pushVars == <<pushPc, outgoing, toStore>>
popVars  == <<popPc, incoming, toLoad, released>>
vars == <<producer, consumer, slot, pushPc, outgoing, toStore, popPc, incoming,
          toLoad, released, pushResult, popResult, sent, got>>

Index  == 0 .. SLOTS - 1
Body   == Payload \cup {Garbled}
Field  == {"sequence", "body", "crc", "commit"}
Crc(sequence, body) == <<sequence, body>>

Message == [sequence : 1 .. MaxSend, body : Payload, corrupt : BOOLEAN]
Frame   == [sequence : Nat, body : Body, crc : (Nat \X Body) \cup {NoCrc},
            commit : Nat]

BlankFrame == [sequence |-> 0, body |-> Garbled, crc |-> NoCrc, commit |-> 0]

\* The word a push leaves in a field of the slot before it commits.
Stored(m, f) ==
  CASE f = "sequence" -> m.sequence
    [] f = "body"     -> IF m.corrupt THEN Garbled ELSE m.body
    [] f = "crc"      -> Crc(m.sequence, m.body)
    [] f = "commit"   -> 0

mailmsg_next(value) == (value + 1) % SLOTS

\* Frames from index c up to index p, as mailmsg_ring_count computes it.
mailmsg_ring_count(p, c) == IF p >= c THEN p - c ELSE SLOTS - c + p

Init ==
  /\ producer = 0 /\ consumer = 0
  /\ slot = [i \in Index |-> BlankFrame]
  /\ pushPc = "idle" /\ outgoing = <<>> /\ toStore = {}
  /\ popPc = "idle" /\ incoming = BlankFrame /\ toLoad = {} /\ released = FALSE
  /\ pushResult = "none" /\ popResult = "none"
  /\ sent = <<>> /\ got = <<>>

-----------------------------------------------------------------------------
(* mailmsg_ring_push, and mailmsg_linux_ring_push for a corrupt frame.     *)

PushInvalid ==
  /\ pushPc = "idle"
  /\ pushResult' = "INVALID"
  /\ UNCHANGED <<ringVars, pushVars, popVars, popResult, sent, got>>

PushBegin(body, corrupt) ==
  /\ pushPc = "idle"
  /\ Len(sent) < MaxSend
  /\ outgoing' = <<[sequence |-> Len(sent) + 1, body |-> body,
                    corrupt |-> corrupt]>>
  /\ pushPc' = "check"
  /\ UNCHANGED <<ringVars, toStore, popVars, pushResult, popResult, sent, got>>

\* Mutant: FULL is returned one frame early.
PushFullEarly ==
  /\ pushPc = "check"
  /\ consumer \in {mailmsg_next(producer), mailmsg_next(mailmsg_next(producer))}
  /\ pushPc' = "idle"
  /\ outgoing' = <<>>
  /\ pushResult' = "FULL"
  /\ UNCHANGED <<ringVars, toStore, popVars, popResult, sent, got>>

\* The load of ring->consumer, after the acquire.
PushFull ==
  /\ pushPc = "check"
  /\ mailmsg_next(producer) = consumer
  /\ pushPc' = "idle"
  /\ outgoing' = <<>>
  /\ pushResult' = "FULL"
  /\ UNCHANGED <<ringVars, toStore, popVars, popResult, sent, got>>

\* Mutant: no test for a full ring.
PushUnchecked ==
  /\ pushPc = "check"
  /\ pushPc' = "fill"
  /\ toStore' = Field
  /\ UNCHANGED <<ringVars, outgoing, popVars, pushResult, popResult, sent, got>>

PushRoom ==
  /\ pushPc = "check"
  /\ mailmsg_next(producer) # consumer
  /\ pushPc' = "fill"
  /\ toStore' = Field
  /\ UNCHANGED <<ringVars, outgoing, popVars, pushResult, popResult, sent, got>>

PushStore(f) ==
  /\ pushPc = "fill"
  /\ f \in toStore
  /\ slot' = [slot EXCEPT ![producer][f] = Stored(outgoing[1], f)]
  /\ toStore' = toStore \ {f}
  /\ UNCHANGED <<producer, consumer, pushPc, outgoing, popVars, pushResult,
                 popResult, sent, got>>

\* Mutant: the commit word is not ordered after the frame.
PushCommitUnordered ==
  /\ pushPc = "fill"
  /\ slot' = [slot EXCEPT ![producer].commit = outgoing[1].sequence]
  /\ pushPc' = "advance"
  /\ UNCHANGED <<producer, consumer, outgoing, toStore, popVars, pushResult,
                 popResult, sent, got>>

\* The publish of the slot has drained every store; then the commit word.
PushCommit ==
  /\ pushPc = "fill"
  /\ toStore = {}
  /\ slot' = [slot EXCEPT ![producer].commit = outgoing[1].sequence]
  /\ pushPc' = "advance"
  /\ UNCHANGED <<producer, consumer, outgoing, toStore, popVars, pushResult,
                 popResult, sent, got>>

PushAdvance ==
  /\ pushPc = "advance"
  /\ producer' = mailmsg_next(producer)
  /\ pushPc' = "idle"
  /\ sent' = Append(sent, outgoing[1])
  /\ outgoing' = <<>>
  /\ pushResult' = "OK"
  /\ UNCHANGED <<consumer, slot, toStore, popVars, popResult, got>>

-----------------------------------------------------------------------------
(* mailmsg_ring_pop                                                        *)

\* The load of ring->producer, after the acquire.
PopEmpty ==
  /\ popPc = "idle"
  /\ consumer = producer
  /\ popResult' = "EMPTY"
  /\ UNCHANGED <<ringVars, pushVars, popVars, pushResult, sent, got>>

PopBegin ==
  /\ popPc = "idle"
  /\ consumer # producer
  /\ popPc' = "test"
  /\ incoming' = BlankFrame
  /\ toLoad' = {"sequence", "commit"}
  /\ UNCHANGED <<ringVars, pushVars, released, pushResult, popResult, sent, got>>

\* The slot being read: consumer, or the one before it once released.
PopIndex == IF ~released THEN consumer
            ELSE IF consumer = 0 THEN SLOTS - 1 ELSE consumer - 1

PopLoad(f) ==
  /\ popPc \in {"test", "copy"}
  /\ f \in toLoad
  /\ incoming' = [incoming EXCEPT ![f] = slot[PopIndex][f]]
  /\ toLoad' = toLoad \ {f}
  /\ UNCHANGED <<ringVars, pushVars, popPc, released, pushResult, popResult,
                 sent, got>>

\* The branch on commit # sequence: INCOMPLETE, or on to the copy.
PopTest ==
  /\ popPc = "test" /\ toLoad = {}
  /\ IF incoming.commit # incoming.sequence
       THEN popPc' = "idle" /\ popResult' = "INCOMPLETE" /\ UNCHANGED toLoad
       ELSE popPc' = "copy" /\ toLoad' = {"sequence", "body", "crc"}
            /\ UNCHANGED popResult
  /\ UNCHANGED <<ringVars, pushVars, incoming, released, pushResult, sent, got>>

PopRelease ==
  /\ popPc = "copy"
  /\ ~released
  /\ released' = TRUE
  /\ consumer' = mailmsg_next(consumer)
  /\ UNCHANGED <<producer, slot, pushVars, popPc, incoming, toLoad, pushResult,
                 popResult, sent, got>>

PopCheck(m) ==
  IF m.sequence = 0 THEN "INVALID"
  ELSE IF m.crc # Crc(m.sequence, m.body) THEN "BAD_CRC" ELSE "OK"

\* Mutant: the frame is returned before it is copied.
PopReturnUncopied ==
  /\ popPc = "copy"
  /\ released
  /\ popPc' = "idle"
  /\ released' = FALSE
  /\ popResult' = PopCheck(incoming)
  /\ got' = Append(got, [sequence |-> incoming.sequence, body |-> incoming.body,
                         result |-> PopCheck(incoming)])
  /\ UNCHANGED <<ringVars, pushVars, incoming, toLoad, pushResult, sent>>

\* The publish of the index has completed the loads as well.
PopReturn ==
  /\ popPc = "copy"
  /\ released /\ toLoad = {}
  /\ popPc' = "idle"
  /\ released' = FALSE
  /\ popResult' = PopCheck(incoming)
  /\ got' = Append(got, [sequence |-> incoming.sequence, body |-> incoming.body,
                         result |-> PopCheck(incoming)])
  /\ UNCHANGED <<ringVars, pushVars, incoming, toLoad, pushResult, sent>>

-----------------------------------------------------------------------------
Push == \/ PushInvalid
        \/ \E body \in Payload, corrupt \in BOOLEAN : PushBegin(body, corrupt)
        \/ PushFull \/ PushRoom
        \/ \E f \in Field : PushStore(f)
        \/ PushCommit \/ PushAdvance

Pop == \/ PopEmpty \/ PopBegin
       \/ \E f \in Field : PopLoad(f)
       \/ PopTest \/ PopRelease \/ PopReturn

Next == Push \/ Pop
Spec == Init /\ [][Next]_vars

-----------------------------------------------------------------------------
(* Every index of the ring stays below SLOTS, and the slots, the copies in *)
(* progress and the histories of push and pop keep their types.            *)
TypeOK ==
  /\ producer \in Index /\ consumer \in Index
  /\ slot \in [Index -> Frame]
  /\ pushPc \in {"idle", "check", "fill", "advance"}
  /\ outgoing \in Seq(Message)
  /\ toStore \subseteq Field
  /\ popPc \in {"idle", "test", "copy"}
  /\ incoming \in Frame
  /\ toLoad \subseteq Field
  /\ released \in BOOLEAN
  /\ pushResult \in {"none", "OK", "FULL", "INVALID"}
  /\ popResult \in {"none", "OK", "EMPTY", "INCOMPLETE", "INVALID", "BAD_CRC"}
  /\ sent \in Seq(Message)
  /\ got \in Seq([sequence : Nat, body : Body,
                  result : {"OK", "INVALID", "BAD_CRC"}])

\* What a receiver must be told about an accepted frame.
Outcome(m) == [sequence |-> m.sequence, body |-> Stored(m, "body"),
               result   |-> IF m.corrupt THEN "BAD_CRC" ELSE "OK"]

\* Frames whose slot was released: returned ones and the one in hand.
Taken == Len(got) + IF released THEN 1 ELSE 0

(* Safety: the frames mailmsg_ring_pop returns are the frames              *)
(* mailmsg_ring_push accepted, each once, in order, with the content the   *)
(* sender wrote, and a damaged one is reported as BAD_CRC: no loss,        *)
(* duplicate, reordering or torn copy, although the release of a slot may  *)
(* become visible before the copy out of it is complete.                   *)
DeliveredInOrder ==
  /\ Len(got) <= Len(sent)
  /\ \A k \in 1 .. Len(got) : got[k] = Outcome(sent[k])

(* Safety: the index published last makes the commit word redundant.  A    *)
(* pop that saw a new producer index never finds commit # sequence, and a  *)
(* released slot never yields INVALID.                                     *)
NeverIncomplete == popResult \notin {"INCOMPLETE", "INVALID"}

(* Safety: the indices count exactly the accepted frames whose slot is not *)
(* released, at most SLOTS - 1 of them (docs/mailmsg.md: "leaving seven    *)
(* usable frames"), so FULL is returned only when all of them are taken    *)
(* and never overwrites one.                                               *)
CountsUnreleased ==
  /\ Len(sent) - Taken = mailmsg_ring_count(producer, consumer)
  /\ Len(sent) - Taken <= SLOTS - 1

(* Refinement: the ring implements the bounded queue of MailMsgFifo.  A    *)
(* push takes effect when the producer index is stored, a pop when the     *)
(* consumer index is.                                                      *)
Fifo == INSTANCE MailMsgFifo WITH
          Capacity <- SLOTS - 1,
          queue <- SubSeq(sent, Taken + 1, Len(sent)),
          hand <- IF released THEN <<sent[Taken]>> ELSE <<>>,
          delivered <- got

ImplementsFifo == Fifo!FifoSpec
=============================================================================
