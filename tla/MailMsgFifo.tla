---------------------------- MODULE MailMsgFifo ----------------------------
(***************************************************************************)
(* What one MailMsg ring promises its two sides: a bounded first-in        *)
(* first-out queue with one sender and one receiver (docs/mailmsg.md,      *)
(* "Queue Model").  A full queue refuses a frame at once and keeps what it *)
(* holds; an accepted frame is handed over exactly once, in order, and a   *)
(* frame whose content was damaged is reported instead of delivered.       *)
(***************************************************************************)
EXTENDS Integers, Sequences

CONSTANTS
  Capacity,    \* usable frames of the ring
  Message,     \* what a sender may offer: sequence, body, and "corrupt"
  Garbled      \* the body the receiver finds in a damaged frame

VARIABLES
  queue,       \* accepted frames that still occupy a slot
  hand,        \* the frames (at most one) taken out and not yet returned
  delivered,   \* what the receiver was told, in order
  pushResult,  \* outcome of the last finished push
  popResult    \* outcome of the last finished pop

fifoVars == <<queue, hand, delivered, pushResult, popResult>>

\* What the receiver is told about a frame the sender put in.
Outcome(m) == [sequence |-> m.sequence,
               body     |-> IF m.corrupt THEN Garbled ELSE m.body,
               result   |-> IF m.corrupt THEN "BAD_CRC" ELSE "OK"]

FifoInit ==
  /\ queue = <<>>
  /\ hand = <<>>
  /\ delivered = <<>>
  /\ pushResult = "none"
  /\ popResult = "none"

Put(m) ==
  /\ Len(queue) < Capacity
  /\ queue' = Append(queue, m)
  /\ pushResult' = "OK"
  /\ UNCHANGED <<hand, delivered, popResult>>

RefuseFull ==
  /\ Len(queue) = Capacity
  /\ pushResult' = "FULL"
  /\ UNCHANGED <<queue, hand, delivered, popResult>>

RefuseInvalid ==
  /\ pushResult' = "INVALID"
  /\ UNCHANGED <<queue, hand, delivered, popResult>>

FindEmpty ==
  /\ queue = <<>>
  /\ popResult' = "EMPTY"
  /\ UNCHANGED <<queue, hand, delivered, pushResult>>

\* The slot becomes free before the receiver has finished with the frame.
Take ==
  /\ queue # <<>>
  /\ hand = <<>>
  /\ hand' = <<Head(queue)>>
  /\ queue' = Tail(queue)
  /\ UNCHANGED <<delivered, pushResult, popResult>>

Return ==
  /\ hand # <<>>
  /\ delivered' = Append(delivered, Outcome(hand[1]))
  /\ popResult' = Outcome(hand[1]).result
  /\ hand' = <<>>
  /\ UNCHANGED <<queue, pushResult>>

FifoNext ==
  \/ \E m \in Message : Put(m)
  \/ RefuseFull \/ RefuseInvalid \/ FindEmpty \/ Take \/ Return

FifoSpec == FifoInit /\ [][FifoNext]_fifoVars
=============================================================================
