--------------------------- MODULE RequestService ---------------------------
(***************************************************************************)
(* One priority seen by its users: requests go to CPU3 in one ring, and    *)
(* mailmsg_pingpong_test_service of main.c serves them one at a time and   *)
(* queues one or two replies in the ring that comes back.                  *)
(*                                                                         *)
(* The rings are the bounded queues MailMsgRing is shown to implement; the *)
(* wakeups are the business of Cpu3Worker and MailMsgReader.  There is one *)
(* session, which CPU3 may end at any time.  A user's request is a record: *)
(* its type, its argument (the value of a PING, an operation, a GPIO line),*)
(* whether the service accepts it, and the status a peripheral operation   *)
(* ends with on CPU3: OK, or one of the errors.                            *)
(***************************************************************************)
EXTENDS Integers, Sequences, FiniteSets

CONSTANTS
  Capacity,     \* MAILMSG_RING_SLOTS - 1
  Modulus,      \* 2^32: payload values wrap
  MaxSequence   \* bound: frames Linux tries to send

ASSUME ServiceAssumption ==
  Capacity \in Nat \ {0} /\ Modulus \in Nat \ {0} /\ MaxSequence \in Nat

VARIABLES
  reliable,       \* mailmsg_priority_is_reliable of the priority: p0 and p1
  active,         \* the session is ACTIVE
  to_cpu3,        \* requests: [call, sequence]
  to_linux,       \* replies: [type, peer, arg, status, of]
  next_sequence,  \* of the Linux endpoint
  job,            \* CPU3: the request it serves and the replies still due
  tx_full_count,  \* mailmsg_tx_full_count
  executed        \* sequences of the requests CPU3 has acted on

serviceVars ==
  <<reliable, active, to_cpu3, to_linux, next_sequence, job, tx_full_count, executed>>

ResultType ==
  [PING |-> "PONG", PERIPHERAL |-> "PERIPHERAL_RESULT",
   GPIO_READ |-> "GPIO_READ_RESULT"]

NoRequest ==
  [call |-> [type |-> "PING", arg |-> 0, valid |-> TRUE, status |-> "OK"], sequence |-> 0]

(* Mutant: the result is queued before its ACK.                            *)
RepliesSwapped(call) ==
  IF ~call.valid THEN <<"NACK">> ELSE <<ResultType[call.type], "ACK">>

(* What the service means to send.  Only PINGs are ever valid on p2/p3.    *)
Replies(call) ==
  LET feedback == IF call.valid THEN "ACK" ELSE "NACK"
  IN  (IF reliable THEN <<feedback>> ELSE <<>>)
        \o (IF call.valid THEN <<ResultType[call.type]>> ELSE <<>>)

(* A PONG holds value + 1 and nothing else, and only a peripheral result   *)
(* has a status; "of" is not in the frame: it remembers which request the  *)
(* frame answers.                                                          *)
Reply(request, type) ==
  [type |-> type,
   peer |-> IF type = "PONG" THEN 0 ELSE request.sequence,
   arg  |-> IF type = "PONG" THEN (request.call.arg + 1) % Modulus
            ELSE IF type \in {"ACK", "NACK"} THEN 0 ELSE request.call.arg,
   status |-> IF type = "PERIPHERAL_RESULT" THEN request.call.status ELSE "OK",
   of   |-> request.sequence]

ServiceInit ==
  /\ active = TRUE
  /\ to_cpu3 = <<>> /\ to_linux = <<>>
  /\ next_sequence = 0
  /\ job = [request |-> NoRequest, replies |-> <<>>]
  /\ tx_full_count = 0
  /\ executed = {}

(* mailmsg_endpoint_send by Linux: a refused frame uses up its sequence.   *)
LinuxSend(call) ==
  /\ active
  /\ Len(to_cpu3) < Capacity
  /\ next_sequence' = next_sequence + 1
  /\ to_cpu3' = Append(to_cpu3, [call |-> call, sequence |-> next_sequence'])
  /\ UNCHANGED <<reliable, active, to_linux, job, tx_full_count, executed>>

LinuxSendFull ==
  /\ active
  /\ Len(to_cpu3) = Capacity
  /\ next_sequence' = next_sequence + 1
  /\ UNCHANGED <<reliable, active, to_cpu3, to_linux, job, tx_full_count, executed>>

LinuxReceive ==
  /\ active
  /\ to_linux # <<>>
  /\ to_linux' = Tail(to_linux)
  /\ UNCHANGED <<reliable, active, to_cpu3, next_sequence, job, tx_full_count, executed>>

(* CPU3 pops a request and acts on it before it replies.                   *)
Cpu3Serve ==
  /\ active
  /\ job.replies = <<>> /\ to_cpu3 # <<>>
  /\ LET request == Head(to_cpu3)
     IN  /\ job' = [request |-> request, replies |-> Replies(request.call)]
         /\ executed' = IF request.call.valid
                          THEN executed \cup {request.sequence} ELSE executed
  /\ to_cpu3' = Tail(to_cpu3)
  /\ UNCHANGED <<reliable, active, to_linux, next_sequence, tx_full_count>>

Cpu3Reply ==
  /\ active
  /\ job.replies # <<>>
  /\ Len(to_linux) < Capacity
  /\ to_linux' = Append(to_linux, Reply(job.request, Head(job.replies)))
  /\ job' = [job EXCEPT !.replies = Tail(@)]
  /\ UNCHANGED <<reliable, active, to_cpu3, next_sequence, tx_full_count, executed>>

(* No room: the reply is given up.  Without its ACK a peripheral or GPIO   *)
(* result is given up too; a PONG is tried all the same.                   *)
Cpu3ReplyFull ==
  /\ active
  /\ job.replies # <<>>
  /\ Len(to_linux) = Capacity
  /\ tx_full_count' = tx_full_count + 1
  /\ job' = [job EXCEPT !.replies =
               IF job.request.call.type = "PING" THEN Tail(@) ELSE <<>>]
  /\ UNCHANGED <<reliable, active, to_cpu3, to_linux, next_sequence, executed>>

(* CPU3 goes off, or the driver takes it for off: the data gate closes.    *)
SessionEnds ==
  /\ active
  /\ active' = FALSE
  /\ job' = [job EXCEPT !.replies = <<>>]
  /\ UNCHANGED <<reliable, to_cpu3, to_linux, next_sequence, tx_full_count, executed>>

Cpu3Next == Cpu3Serve \/ Cpu3Reply \/ Cpu3ReplyFull \/ SessionEnds

ServiceTypeOK ==
  /\ reliable \in BOOLEAN /\ active \in BOOLEAN
  /\ Len(to_cpu3) \in 0 .. Capacity /\ Len(to_linux) \in 0 .. Capacity
  /\ next_sequence \in 0 .. MaxSequence
  /\ Len(job.replies) \in 0 .. 2
  /\ tx_full_count \in 0 .. 2 * MaxSequence
  /\ executed \subseteq 1 .. MaxSequence
=============================================================================
