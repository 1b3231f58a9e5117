------------------------------ MODULE AgentRpc ------------------------------
(***************************************************************************)
(* agent/mailmsg_agent.py as a client of priority 1: execute_zephyr_*      *)
(* opens /dev/mailmsg-p1, writes one request, and polls and reads until it *)
(* has an ACK and a result or its deadline passes.  Several agents may run *)
(* at once; the device admits one reader.                                  *)
(*                                                                         *)
(* Every system call is a step.  What a call ends with is kept in outcome; *)
(* own remembers the sequence the driver gave to the request, which the    *)
(* write does not return.  Calls are the tool calls parse_decision lets    *)
(* through.  The class peripheral_failed stands for all the classes of     *)
(* peripheral_status_error.                                                *)
(***************************************************************************)
EXTENDS RequestService

CONSTANTS
  Agent,
  Call,      \* the requests agents make
  Setups     \* the agents that run, and those whose deadline may pass

ASSUME AgentAssumption ==
  /\ Setups \subseteq [agents : SUBSET Agent, impatient : SUBSET Agent]
  /\ Call \subseteq [type : DOMAIN ResultType, arg : Nat, valid : BOOLEAN,
                      status : {"OK", "ERROR"}]
  /\ \A c \in Call : c.type = "PING" => c.arg < Modulus - 1   \* parse_decision

VARIABLES
  setup,     \* one of Setups
  pc,        \* idle, opened, waiting (in the loop), readable (poll said POLLIN)
  call,      \* the call each agent makes
  own,       \* the sequence of its request, 0 before the write
  reader,    \* agents whose file has claimed the reader
  ack,       \* peer_sequence of the ACK read, 0 for None
  result,    \* the result frame read, or NoFrame
  outcome    \* how the agent's last call ended

agentVars == <<setup, pc, call, own, reader, ack, result, outcome>>
vars == <<serviceVars, agentVars>>

NoFrame == [type |-> "NONE", peer |-> 0, arg |-> 0, status |-> "OK", of |-> 0]
NoOutcome == [class |-> "none", call |-> NoRequest.call, own |-> 0, ack |-> 0, of |-> 0]

Init ==
  /\ ServiceInit
  /\ reliable = TRUE
  /\ setup \in Setups
  /\ pc = [a \in Agent |-> "idle"]
  /\ call = [a \in Agent |-> NoRequest.call]
  /\ own = [a \in Agent |-> 0]
  /\ reader = {}
  /\ ack = [a \in Agent |-> 0]
  /\ result = [a \in Agent |-> NoFrame]
  /\ outcome = [a \in Agent |-> NoOutcome]

(* The finally clause closes the file, which gives the reader back.        *)
Return(a, class, acked, frame) ==
  /\ pc' = [pc EXCEPT ![a] = "idle"]
  /\ reader' = reader \ {a}
  /\ outcome' = [outcome EXCEPT ![a] =
                   [class |-> class, call |-> call[a], own |-> own[a],
                    ack |-> acked, of |-> frame.of]]
  /\ own' = [own EXCEPT ![a] = 0]
  /\ ack' = [ack EXCEPT ![a] = 0]
  /\ result' = [result EXCEPT ![a] = NoFrame]
  /\ UNCHANGED <<setup, call>>

Raise(a, class) == Return(a, class, 0, NoFrame)

Open(a, c) ==
  /\ pc[a] = "idle" /\ active
  /\ pc' = [pc EXCEPT ![a] = "opened"]
  /\ call' = [call EXCEPT ![a] = c]
  /\ UNCHANGED <<serviceVars, setup, own, reader, ack, result, outcome>>

OpenFails(a, c) ==
  /\ pc[a] = "idle" /\ ~active
  /\ call' = [call EXCEPT ![a] = c]
  /\ outcome' = [outcome EXCEPT ![a] =
                   [NoOutcome EXCEPT !.class = "mailmsg_open_failed", !.call = c]]
  /\ UNCHANGED <<serviceVars, setup, pc, own, reader, ack, result>>

Write(a) ==
  /\ pc[a] = "opened"
  /\ next_sequence < MaxSequence
  /\ LinuxSend(call[a])
  /\ own' = [own EXCEPT ![a] = next_sequence']
  /\ pc' = [pc EXCEPT ![a] = "waiting"]
  /\ UNCHANGED <<setup, call, reader, ack, result, outcome>>

WriteFull(a) ==
  /\ pc[a] = "opened"
  /\ next_sequence < MaxSequence
  /\ LinuxSendFull
  /\ Raise(a, "queue_full")

WriteOffline(a) ==
  /\ pc[a] = "opened" /\ ~active
  /\ Raise(a, "mailmsg_write_failed")
  /\ UNCHANGED serviceVars

(* poll claims the reader even when there is nothing to read.  A file that *)
(* cannot have it, or a session that has ended, is POLLERR.                *)
PollClaim(a) ==
  /\ pc[a] = "waiting" /\ active
  /\ reader = {}
  /\ reader' = {a}
  /\ UNCHANGED <<serviceVars, setup, pc, call, own, ack, result, outcome>>

PollIn(a) ==
  /\ pc[a] = "waiting" /\ active
  /\ a \in reader /\ to_linux # <<>>
  /\ pc' = [pc EXCEPT ![a] = "readable"]
  /\ UNCHANGED <<serviceVars, setup, call, own, reader, ack, result, outcome>>

PollError(a) ==
  /\ pc[a] = "waiting"
  /\ ~active \/ reader \notin {{}, {a}}
  /\ Raise(a, "mailmsg_offline")
  /\ UNCHANGED serviceVars

(* Time passes outside the model: the deadline may be found passed at each *)
(* turn of the loop.                                                       *)
Timeout(a) ==
  /\ pc[a] = "waiting" /\ a \in setup.impatient
  /\ Raise(a, "timeout")
  /\ UNCHANGED serviceVars

(* The session ended between poll and read: os.read raises ENOLINK, which  *)
(* neither the loop (BlockingIOError) nor main (AgentError) catches.       *)
ReadOffline(a) ==
  /\ pc[a] = "readable" /\ ~active
  /\ Raise(a, "uncaught")
  /\ UNCHANGED serviceVars
-----------------------------------------------------------------------------
(* The result an increment, GPIO or peripheral call accepts.               *)
Matches(c, frame) ==
  /\ frame.type = ResultType[c.type]
  /\ frame.arg = IF c.type = "PING" THEN c.arg + 1 ELSE c.arg

(* Mutant: ACK and result may be of different requests.                    *)
SameRequestUnchecked(c, acked, frame) == TRUE

(* A PONG names no request: an increment compares nothing.                 *)
SameRequest(c, acked, frame) == c.type # "PING" => acked = frame.peer

(* Mutant: the loop ends with the first of the two frames.                 *)
BothEither(acked, frame) == acked # 0 \/ frame # NoFrame

Both(acked, frame) == acked # 0 /\ frame # NoFrame

(* One turn of the loop with a frame; NACK, another type, another          *)
(* operation or another line raise, and so does the status of a result     *)
(* that is complete.                                                       *)
Read(a) ==
  LET frame  == Head(to_linux)
      useful == frame.type = "ACK" \/ Matches(call[a], frame)
      acked  == IF frame.type = "ACK" THEN frame.peer ELSE ack[a]
      got    == IF frame.type = "ACK" THEN result[a] ELSE frame
  IN  /\ pc[a] = "readable"
      /\ LinuxReceive
      /\ \/ /\ ~useful
            /\ Raise(a, IF frame.type = "NACK" THEN "nack" ELSE "unexpected_frame")
         \/ /\ useful /\ ~Both(acked, got)
            /\ pc' = [pc EXCEPT ![a] = "waiting"]
            /\ ack' = [ack EXCEPT ![a] = acked]
            /\ result' = [result EXCEPT ![a] = got]
            /\ UNCHANGED <<setup, call, own, reader, outcome>>
         \/ /\ useful /\ Both(acked, got)
            /\ IF SameRequest(call[a], acked, got)
                 THEN Return(a, IF got.status = "OK" THEN "ok" ELSE "peripheral_failed",
                             acked, got)
                 ELSE Raise(a, "sequence_mismatch")

AgentStep(a) ==
  \/ \E c \in Call : Open(a, c) \/ OpenFails(a, c)
  \/ Write(a) \/ WriteFull(a) \/ WriteOffline(a)
  \/ PollClaim(a) \/ PollIn(a) \/ PollError(a)
  \/ Timeout(a) \/ ReadOffline(a) \/ Read(a)

Service == Cpu3Next /\ UNCHANGED agentVars

(* The model's bound: no more requests are made.                           *)
Bounded == next_sequence = MaxSequence /\ UNCHANGED vars

Next == (\E a \in setup.agents : AgentStep(a)) \/ Service \/ Bounded

Spec == Init /\ [][Next]_vars

-----------------------------------------------------------------------------
(* Type invariant of the agents and of the service under them.             *)
TypeOK ==
  /\ ServiceTypeOK
  /\ \A a \in Agent :
       /\ pc[a] \in {"idle", "opened", "waiting", "readable"}
       /\ pc[a] = "readable" => a \in reader
       /\ own[a] \in 0 .. MaxSequence /\ ack[a] \in 0 .. MaxSequence
  /\ Cardinality(reader) <= 1

(* Calls that end with a result, of success or of failure.                 *)
Answered == {"ok", "peripheral_failed"}

(* Whatever was left behind by timeouts and by other agents: a call that   *)
(* is answered has the result of a request CPU3 acted on, and unless it is *)
(* an increment its ACK is the ACK of that same request.                   *)
AcceptedIsGenuine ==
  \A a \in Agent : outcome[a].class \in Answered =>
    /\ outcome[a].of \in executed /\ outcome[a].ack \in executed
    /\ outcome[a].call.type # "PING" => outcome[a].ack = outcome[a].of

Alone == (\E a \in Agent : setup.agents = {a}) /\ setup.impatient = {}

(* With one agent and no timeouts the answer is the answer to the agent's  *)
(* own request: nothing the loop leaves unread meets a later call.         *)
AcceptedIsOwn ==
  \A a \in Agent : Alone /\ outcome[a].class \in Answered =>
    outcome[a].of = outcome[a].own /\ outcome[a].ack = outcome[a].own

(* With one agent, no timeouts and a session that lasts, the error class   *)
(* tells whether CPU3 has acted: it has exactly when the call ended with   *)
(* ok or with the status of its result, so that only a call that ended     *)
(* otherwise may be repeated without thought (docs/mailmsg.md: "RESULT     *)
(* status determines the operation outcome").                              *)
ClassTellsEffect ==
  \A a \in Agent : Alone /\ active =>
    (outcome[a].class \in Answered <=> outcome[a].own \in executed)

(* docs/agent.md: a failure is reported with ok:false and an error class.  *)
FailuresAreReported == \A a \in Agent : outcome[a].class # "uncaught"
=============================================================================
