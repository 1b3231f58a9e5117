------------------------- MODULE RequestServiceProofs -------------------------
(***************************************************************************)
(* What an agent accepts as an answer is one (AgentRpc), for every ring    *)
(* size, number of agents and set of requests, with the facts about the    *)
(* steps of RequestService that its clients share.                         *)
(***************************************************************************)
EXTENDS AgentRpc, TLAPS

Status == {"OK", "ERROR"}
Caller == [type : DOMAIN ResultType, arg : Nat, valid : BOOLEAN, status : Status]
Queued == [call : Caller, sequence : Nat]
ResultKind == {"PONG", "PERIPHERAL_RESULT", "GPIO_READ_RESULT"}
Kind == ResultKind \cup {"ACK", "NACK"}
Answer == [type : Kind, peer : Nat, arg : Nat, status : Status, of : Nat]

ServiceTyped ==
  /\ to_cpu3 \in Seq(Queued) /\ to_linux \in Seq(Answer)
  /\ job \in [request : Queued, replies : Seq(Kind)]
  /\ next_sequence \in Nat /\ executed \in SUBSET Nat

-----------------------------------------------------------------------------
(* The service *)

\* A valid request has a result, after an ACK on a reliable priority; one that
\* is refused there has a NACK and nothing else.
LEMMA RepliesDue ==
  ASSUME NEW c \in Caller, reliable \in BOOLEAN
  PROVE  /\ Replies(c) \in Seq(Kind)
         /\ ResultType[c.type] \in ResultKind
         /\ reliable /\ c.valid => /\ Len(Replies(c)) = 2
                                   /\ Replies(c)[1] = "ACK"
                                   /\ Replies(c)[2] = ResultType[c.type]
         /\ reliable /\ ~c.valid => Len(Replies(c)) = 1 /\ Replies(c)[1] = "NACK"
         /\ ~reliable /\ c.valid => /\ Len(Replies(c)) = 1
                                    /\ Replies(c)[1] = ResultType[c.type]
         /\ ~reliable /\ ~c.valid => Len(Replies(c)) = 0
  <1>1. ResultType[c.type] \in ResultKind
    BY DEF Caller, ResultType, ResultKind
  <1>2. ResultType[c.type] \in Kind /\ "ACK" \in Kind /\ "NACK" \in Kind
    BY Zenon, <1>1 DEF Kind
  <1>3. CASE reliable /\ c.valid
    <2>1. Replies(c) = <<"ACK">> \o <<ResultType[c.type]>>
      BY Zenon, <1>3 DEF Replies
    <2> QED BY <1>1, <1>2, <1>3, <2>1
  <1>4. CASE reliable /\ ~c.valid
    <2>1. Replies(c) = <<"NACK">> \o <<>>
      BY Zenon, <1>4 DEF Replies
    <2> QED BY <1>1, <1>2, <1>4, <2>1
  <1>5. CASE ~reliable /\ c.valid
    <2>1. Replies(c) = <<>> \o <<ResultType[c.type]>>
      BY Zenon, <1>5 DEF Replies
    <2> QED BY <1>1, <1>2, <1>5, <2>1
  <1>6. CASE ~reliable /\ ~c.valid
    <2>1. Replies(c) = <<>> \o <<>>
      BY Zenon, <1>6 DEF Replies
    <2> QED BY <1>1, <1>2, <1>6, <2>1
  <1> QED BY Zenon, <1>3, <1>4, <1>5, <1>6

\* What a reply says.
LEMMA ReplyTyped ==
  ASSUME NEW r \in Queued, NEW kind \in Kind
  PROVE  /\ Reply(r, kind) \in Answer
         /\ Reply(r, kind).type = kind /\ Reply(r, kind).of = r.sequence
         /\ kind # "PONG" => Reply(r, kind).peer = r.sequence
         /\ kind = "PONG" => Reply(r, kind).arg = (r.call.arg + 1) % Modulus
         /\ kind \in {"PERIPHERAL_RESULT", "GPIO_READ_RESULT"} =>
              Reply(r, kind).arg = r.call.arg
  <1>1. r.call.arg \in Nat /\ r.sequence \in Nat /\ r.call.status \in Status /\ "OK" \in Status
    BY Zenon DEF Queued, Caller, Status
  <1>2. (r.call.arg + 1) % Modulus \in Nat
    BY <1>1, ServiceAssumption
  <1>3. CASE kind = "PONG"
    BY Zenon, <1>1, <1>2, <1>3 DEF Reply, Answer
  <1>4. CASE kind \in {"ACK", "NACK"}
    BY Zenon, <1>1, <1>4 DEF Reply, Answer
  <1>5. CASE kind \in {"PERIPHERAL_RESULT", "GPIO_READ_RESULT"}
    BY Zenon, <1>1, <1>5 DEF Reply, Answer, Kind, ResultKind
  <1> QED BY Zenon, <1>3, <1>4, <1>5 DEF Kind, ResultKind

\* mailmsg_endpoint_send puts the request, with a new sequence, behind the others.
LEMMA Sending ==
  ASSUME ServiceTyped, NEW c \in Caller, LinuxSend(c)
  PROVE  /\ ServiceTyped'
         /\ Len(to_cpu3') = Len(to_cpu3) + 1
         /\ to_cpu3'[Len(to_cpu3) + 1] = [call |-> c, sequence |-> next_sequence + 1]
         /\ \A i \in 1 .. Len(to_cpu3) : to_cpu3'[i] = to_cpu3[i]
  <1> DEFINE r == [call |-> c, sequence |-> next_sequence + 1]
  <1>1. r \in Queued
    BY DEF Queued, ServiceTyped
  <1>2. to_cpu3' = Append(to_cpu3, r) /\ next_sequence' = next_sequence + 1
    BY Zenon DEF LinuxSend
  <1> HIDE DEF r
  <1>3. UNCHANGED <<to_linux, job, executed>>
    BY Zenon DEF LinuxSend
  <1>4. /\ to_cpu3' \in Seq(Queued) /\ Len(to_cpu3') = Len(to_cpu3) + 1
        /\ to_cpu3'[Len(to_cpu3) + 1] = r
        /\ \A i \in 1 .. Len(to_cpu3) : to_cpu3'[i] = to_cpu3[i]
    BY <1>1, <1>2 DEF ServiceTyped
  <1> QED BY <1>2, <1>3, <1>4 DEF ServiceTyped, r

\* A refused send uses up its sequence.
LEMMA SendingFull ==
  ASSUME ServiceTyped, LinuxSendFull
  PROVE  ServiceTyped'
  BY DEF ServiceTyped, LinuxSendFull

\* A read takes the first reply.
LEMMA Receives ==
  ASSUME ServiceTyped, LinuxReceive
  PROVE  /\ ServiceTyped'
         /\ Len(to_linux) > 0 /\ Head(to_linux) = to_linux[1]
         /\ to_linux[1] \in Answer
         /\ Len(to_linux') = Len(to_linux) - 1
         /\ \A i \in 1 .. Len(to_linux') : to_linux'[i] = to_linux[i + 1]
  <1>1. /\ to_linux \in Seq(Answer) /\ to_linux # <<>> /\ to_linux' = Tail(to_linux)
        /\ UNCHANGED <<to_cpu3, next_sequence, job, executed>>
    BY Zenon DEF ServiceTyped, LinuxReceive
  <1> QED BY <1>1 DEF ServiceTyped

\* CPU3 takes the first request and carries it out.
LEMMA Serves ==
  ASSUME ServiceTyped, reliable \in BOOLEAN, Cpu3Serve
  PROVE  /\ ServiceTyped'
         /\ Len(to_cpu3) > 0 /\ to_cpu3[1] \in Queued
         /\ job'.request = to_cpu3[1] /\ job'.replies = Replies(to_cpu3[1].call)
         /\ Len(to_cpu3') = Len(to_cpu3) - 1
         /\ \A i \in 1 .. Len(to_cpu3') : to_cpu3'[i] = to_cpu3[i + 1]
         /\ executed' = IF to_cpu3[1].call.valid
                          THEN executed \cup {to_cpu3[1].sequence} ELSE executed
  <1> DEFINE r == to_cpu3[1]
  <1>1. /\ to_cpu3 \in Seq(Queued) /\ to_cpu3 # <<>> /\ to_cpu3' = Tail(to_cpu3)
        /\ Head(to_cpu3) = r
    BY DEF ServiceTyped, Cpu3Serve
  <1>2. /\ Len(to_cpu3) > 0 /\ r \in Queued /\ to_cpu3' \in Seq(Queued)
        /\ Len(to_cpu3') = Len(to_cpu3) - 1
        /\ \A i \in 1 .. Len(to_cpu3') : to_cpu3'[i] = to_cpu3[i + 1]
    BY <1>1
  <1> HIDE DEF r
  <1>3. r.call \in Caller /\ r.sequence \in Nat
    BY Zenon, <1>2 DEF Queued
  <1>4. Replies(r.call) \in Seq(Kind)
    BY Zenon, <1>3, RepliesDue
  <1>5. /\ job' = [request |-> r, replies |-> Replies(r.call)]
        /\ executed' = IF r.call.valid THEN executed \cup {r.sequence} ELSE executed
        /\ UNCHANGED <<to_linux, next_sequence>>
    BY Zenon, <1>1 DEF Cpu3Serve
  <1>6. job' \in [request : Queued, replies : Seq(Kind)]
    BY Zenon, <1>2, <1>4, <1>5
  <1>7. executed' \in SUBSET Nat
    BY Zenon, <1>3, <1>5 DEF ServiceTyped
  <1> QED BY Zenon, <1>2, <1>5, <1>6, <1>7 DEF ServiceTyped, r

\* CPU3 queues the next reply behind the others.
LEMMA Replying ==
  ASSUME ServiceTyped, Cpu3Reply
  PROVE  /\ ServiceTyped'
         /\ Len(job.replies) > 0 /\ job.replies[1] \in Kind /\ job.request \in Queued
         /\ Len(to_linux') = Len(to_linux) + 1
         /\ to_linux'[Len(to_linux) + 1] = Reply(job.request, job.replies[1])
         /\ \A i \in 1 .. Len(to_linux) : to_linux'[i] = to_linux[i]
         /\ job'.request = job.request
         /\ Len(job'.replies) = Len(job.replies) - 1
         /\ \A i \in 1 .. Len(job'.replies) : job'.replies[i] = job.replies[i + 1]
  <1> DEFINE s == job.replies
             f == Reply(job.request, s[1])
  <1>1. s \in Seq(Kind) /\ s # <<>> /\ job.request \in Queued
    BY Zenon DEF ServiceTyped, Cpu3Reply
  <1>2. Len(s) > 0 /\ s[1] \in Kind /\ Head(s) = s[1] /\ Tail(s) \in Seq(Kind)
    BY <1>1
  <1>3. f \in Answer
    BY Zenon, <1>1, <1>2, ReplyTyped
  <1>4. /\ to_linux' = Append(to_linux, f)
        /\ job' = [job EXCEPT !.replies = Tail(s)]
        /\ UNCHANGED <<to_cpu3, next_sequence, executed>>
    BY Zenon, <1>2 DEF Cpu3Reply
  <1> HIDE DEF f
  <1>5. /\ to_linux' \in Seq(Answer) /\ Len(to_linux') = Len(to_linux) + 1
        /\ to_linux'[Len(to_linux) + 1] = f
        /\ \A i \in 1 .. Len(to_linux) : to_linux'[i] = to_linux[i]
    BY <1>3, <1>4 DEF ServiceTyped
  <1>6. /\ job' \in [request : Queued, replies : Seq(Kind)]
        /\ job'.request = job.request /\ job'.replies = Tail(s)
    BY Zenon, <1>2, <1>4 DEF ServiceTyped
  <1>7. /\ Len(Tail(s)) = Len(s) - 1
        /\ \A i \in 1 .. Len(Tail(s)) : Tail(s)[i] = s[i + 1]
    BY <1>1
  <1> QED BY Zenon, <1>1, <1>2, <1>4, <1>5, <1>6, <1>7 DEF ServiceTyped, f

\* A reply that finds no room is given up, and with it perhaps the rest.
LEMMA Refusing ==
  ASSUME ServiceTyped, Cpu3ReplyFull
  PROVE  /\ ServiceTyped'
         /\ Len(job.replies) > 0 /\ job'.request = job.request
         /\ job'.replies = <<>> \/ /\ Len(job'.replies) = Len(job.replies) - 1
                                   /\ \A i \in 1 .. Len(job'.replies) :
                                        job'.replies[i] = job.replies[i + 1]
  <1> DEFINE s == job.replies
  <1>1. s \in Seq(Kind) /\ s # <<>> /\ job.request \in Queued
    BY Zenon DEF ServiceTyped, Cpu3ReplyFull
  <1>2. /\ Tail(s) \in Seq(Kind) /\ <<>> \in Seq(Kind) /\ Len(s) > 0
        /\ Len(Tail(s)) = Len(s) - 1
        /\ \A i \in 1 .. Len(Tail(s)) : Tail(s)[i] = s[i + 1]
    BY <1>1
  <1>3. /\ job' = [job EXCEPT !.replies = Tail(s)] \/ job' = [job EXCEPT !.replies = <<>>]
        /\ UNCHANGED <<to_cpu3, to_linux, next_sequence, executed>>
    BY Zenon DEF Cpu3ReplyFull
  <1>4. /\ job' \in [request : Queued, replies : Seq(Kind)]
        /\ job'.request = job.request
        /\ job'.replies = Tail(s) \/ job'.replies = <<>>
    BY Zenon, <1>2, <1>3 DEF ServiceTyped
  <1> QED BY Zenon, <1>2, <1>3, <1>4 DEF ServiceTyped

\* The end of the session drops the replies still due.
LEMMA Ending ==
  ASSUME ServiceTyped, SessionEnds
  PROVE  ServiceTyped' /\ job'.replies = <<>>
  <1>1. job' = [job EXCEPT !.replies = <<>>] /\ <<>> \in Seq(Kind)
    BY DEF SessionEnds
  <1>2. job' \in [request : Queued, replies : Seq(Kind)] /\ job'.replies = <<>>
    BY Zenon, <1>1 DEF ServiceTyped
  <1> QED BY Zenon, <1>2 DEF ServiceTyped, SessionEnds

-----------------------------------------------------------------------------
(* Agents: an accepted answer is genuine *)

Unanswered == {"none", "mailmsg_open_failed", "queue_full", "mailmsg_write_failed",
               "mailmsg_offline", "timeout", "uncaught", "nack", "unexpected_frame",
               "sequence_mismatch"}
Class == Unanswered \cup Answered
Outcome == [class : Class, call : Caller, own : Nat, ack : Nat, of : Nat]

AgentTyped ==
  /\ setup \in Setups
  /\ pc \in [Agent -> {"idle", "opened", "waiting", "readable"}]
  /\ call \in [Agent -> Caller]
  /\ own \in [Agent -> Nat] /\ ack \in [Agent -> Nat]
  /\ result \in [Agent -> Answer \cup {NoFrame}]
  /\ outcome \in [Agent -> Outcome]

\* A frame that says a request was carried out names one that was.
Genuine(frame) ==
  frame.type # "NACK" =>
    frame.of \in executed /\ (frame.type # "PONG" => frame.peer = frame.of)

\* What CPU3 has sent and means to send is genuine.
ServiceGenuine ==
  /\ \A i \in 1 .. Len(to_linux) : Genuine(to_linux[i])
  /\ \A i \in 1 .. Len(job.replies) :
       job.replies[i] # "NACK" => job.request.sequence \in executed

\* What an agent has read and accepted is genuine.
AgentGenuine(a) ==
  /\ ack[a] # 0 => ack[a] \in executed
  /\ result[a] # NoFrame =>
       /\ pc[a] \in {"waiting", "readable"}
       /\ Genuine(result[a]) /\ Matches(call[a], result[a])
  /\ outcome[a].class \in Answered =>
       /\ outcome[a].of \in executed /\ outcome[a].ack \in executed
       /\ outcome[a].call.type # "PING" => outcome[a].ack = outcome[a].of

GenuineInv ==
  /\ ServiceTyped /\ reliable = TRUE /\ AgentTyped
  /\ ServiceGenuine
  /\ \A a \in Agent : AgentGenuine(a)

LEMMA GenuineAtStart == Init => GenuineInv
  <1> SUFFICES ASSUME Init PROVE GenuineInv
    BY Zenon
  <1>1. NoRequest.call \in Caller /\ NoRequest \in Queued
    BY Zenon DEF NoRequest, Caller, Queued, ResultType, Status
  <1>2. NoOutcome \in Outcome /\ NoOutcome.class \notin Answered
    BY Zenon, <1>1 DEF NoOutcome, Outcome, Class, Unanswered, Answered
  <1>3. /\ to_cpu3 = <<>> /\ to_linux = <<>> /\ next_sequence = 0
        /\ job = [request |-> NoRequest, replies |-> <<>>] /\ executed = {}
    BY Zenon DEF Init, ServiceInit
  <1>4. ServiceTyped
    BY <1>1, <1>3 DEF ServiceTyped
  <1>5. AgentTyped
    BY Zenon, <1>1, <1>2 DEF Init, AgentTyped
  <1>6. ServiceGenuine
    BY <1>3 DEF ServiceGenuine
  <1>7. \A a \in Agent : AgentGenuine(a)
    BY Zenon, <1>2 DEF Init, AgentGenuine
  <1> QED BY Zenon, <1>4, <1>5, <1>6, <1>7 DEF Init, GenuineInv

\* CPU3 replies to a request only after it has carried it out.
LEMMA GenuineServe ==
  ASSUME GenuineInv, Cpu3Next
  PROVE  /\ ServiceTyped' /\ reliable' = TRUE /\ ServiceGenuine'
         /\ executed \subseteq executed'
  <1> USE DEF GenuineInv
  <1>0. reliable' = TRUE
    BY Zenon DEF Cpu3Next, Cpu3Serve, Cpu3Reply, Cpu3ReplyFull, SessionEnds
  <1>1. CASE Cpu3Serve
    <2>1. /\ ServiceTyped' /\ executed \subseteq executed' /\ to_linux' = to_linux
          /\ to_cpu3[1] \in Queued
          /\ job'.request = to_cpu3[1] /\ job'.replies = Replies(to_cpu3[1].call)
          /\ to_cpu3[1].call.valid => to_cpu3[1].sequence \in executed'
      BY Zenon, <1>1, Serves DEF Cpu3Serve
    <2>2. to_cpu3[1].call \in Caller
      BY Zenon, <2>1 DEF Queued
    <2>3. \A i \in 1 .. Len(job'.replies) :
             job'.replies[i] # "NACK" => to_cpu3[1].call.valid
      BY <2>1, <2>2, RepliesDue
    <2> QED BY Zenon, <1>0, <2>1, <2>3 DEF ServiceGenuine, Genuine
  <1>2. CASE Cpu3Reply
    <2>1. /\ ServiceTyped' /\ executed' = executed
          /\ Len(job.replies) > 0 /\ job.replies[1] \in Kind /\ job.request \in Queued
          /\ Len(to_linux') = Len(to_linux) + 1
          /\ to_linux'[Len(to_linux) + 1] = Reply(job.request, job.replies[1])
          /\ \A i \in 1 .. Len(to_linux) : to_linux'[i] = to_linux[i]
          /\ job'.request = job.request
          /\ Len(job'.replies) = Len(job.replies) - 1
          /\ \A i \in 1 .. Len(job'.replies) : job'.replies[i] = job.replies[i + 1]
      BY Zenon, <1>2, Replying DEF Cpu3Reply
    <2>2. job.replies[1] # "NACK" => job.request.sequence \in executed
      BY <2>1 DEF ServiceGenuine, ServiceTyped
    <2> DEFINE f == Reply(job.request, job.replies[1])
    <2>3. /\ f.type = job.replies[1] /\ f.of = job.request.sequence
          /\ f.type # "PONG" => f.peer = f.of
      BY <2>1, ReplyTyped
    <2> HIDE DEF f
    <2>4. f.type # "NACK" => f.of \in executed' /\ (f.type # "PONG" => f.peer = f.of)
      BY Zenon, <2>1, <2>2, <2>3
    <2>5. to_linux'[Len(to_linux) + 1] = f
      BY Zenon, <2>1 DEF f
    <2>6. ASSUME NEW i \in 1 .. Len(to_linux') PROVE Genuine(to_linux[i])'
      <3>1. i \in 1 .. Len(to_linux) \/ i = Len(to_linux) + 1
        BY <2>1 DEF ServiceTyped
      <3>2. CASE i \in 1 .. Len(to_linux)
        BY Zenon, <2>1, <3>2 DEF ServiceGenuine, Genuine
      <3>3. CASE i = Len(to_linux) + 1
        BY Zenon, <2>4, <2>5, <3>3 DEF Genuine
      <3> QED BY Zenon, <3>1, <3>2, <3>3
    <2>7. \A i \in 1 .. Len(job'.replies) : i + 1 \in 1 .. Len(job.replies)
      BY <2>1 DEF ServiceTyped
    <2>8. \A i \in 1 .. Len(job'.replies) :
             job'.replies[i] # "NACK" => job'.request.sequence \in executed'
      BY Zenon, <2>1, <2>7 DEF ServiceGenuine
    <2> QED BY Zenon, <1>0, <2>1, <2>6, <2>8 DEF ServiceGenuine
  <1>3. CASE Cpu3ReplyFull
    <2>1. /\ ServiceTyped' /\ job'.request = job.request
          /\ job'.replies = <<>> \/ /\ Len(job'.replies) = Len(job.replies) - 1
                                    /\ \A i \in 1 .. Len(job'.replies) :
                                         job'.replies[i] = job.replies[i + 1]
      BY Zenon, <1>3, Refusing
    <2>2. UNCHANGED <<to_linux, executed>>
      BY Zenon, <1>3 DEF Cpu3ReplyFull
    <2>3. CASE job'.replies = <<>>
      BY <1>0, <2>1, <2>2, <2>3 DEF ServiceGenuine, Genuine
    <2>4. CASE /\ Len(job'.replies) = Len(job.replies) - 1
               /\ \A i \in 1 .. Len(job'.replies) : job'.replies[i] = job.replies[i + 1]
      <3>1. \A i \in 1 .. Len(job'.replies) : i + 1 \in 1 .. Len(job.replies)
        BY <2>4 DEF ServiceTyped
      <3>2. \A i \in 1 .. Len(job'.replies) :
               job'.replies[i] # "NACK" => job'.request.sequence \in executed'
        BY Zenon, <2>1, <2>2, <2>4, <3>1 DEF ServiceGenuine
      <3> QED BY Zenon, <1>0, <2>1, <2>2, <3>2 DEF ServiceGenuine, Genuine
    <2> QED BY Zenon, <2>1, <2>3, <2>4
  <1>4. CASE SessionEnds
    <2>1. ServiceTyped' /\ job'.replies = <<>> /\ UNCHANGED <<to_linux, executed>>
      BY Zenon, <1>4, Ending DEF SessionEnds
    <2> QED BY <1>0, <2>1 DEF ServiceGenuine, Genuine
  <1> QED BY Zenon, <1>1, <1>2, <1>3, <1>4 DEF Cpu3Next

\* What happens to one agent leaves the others' answers genuine.
LEMMA GenuineOthers ==
  ASSUME GenuineInv, executed \subseteq executed', NEW b \in Agent,
         pc'[b] = pc[b], call'[b] = call[b], ack'[b] = ack[b],
         result'[b] = result[b], outcome'[b] = outcome[b]
  PROVE  AgentGenuine(b)'
  <1>1. AgentGenuine(b)
    BY Zenon DEF GenuineInv
  <1> QED BY Zenon, <1>1 DEF AgentGenuine, Genuine, Matches

\* The end of a call forgets the frames it has read.
LEMMA GenuineReturn ==
  ASSUME GenuineInv, executed \subseteq executed',
         NEW a \in Agent, NEW class \in Class, NEW acked \in Nat, NEW frame, frame.of \in Nat,
         Return(a, class, acked, frame),
         class \in Answered => /\ frame.of \in executed /\ acked \in executed
                               /\ call[a].type # "PING" => acked = frame.of
  PROVE  AgentTyped' /\ (\A b \in Agent : AgentGenuine(b)')
  <1> DEFINE ended == [class |-> class, call |-> call[a], own |-> own[a],
                       ack |-> acked, of |-> frame.of]
  <1>1. AgentTyped
    BY Zenon DEF GenuineInv
  <1>2. ended \in Outcome
    BY Zenon, <1>1 DEF AgentTyped, Outcome
  <1>3. /\ pc' = [pc EXCEPT ![a] = "idle"] /\ outcome' = [outcome EXCEPT ![a] = ended]
        /\ own' = [own EXCEPT ![a] = 0] /\ ack' = [ack EXCEPT ![a] = 0]
        /\ result' = [result EXCEPT ![a] = NoFrame] /\ UNCHANGED <<setup, call>>
    BY Zenon DEF Return
  <1>4. /\ ended.class = class /\ ended.call = call[a]
        /\ ended.ack = acked /\ ended.of = frame.of
    BY Zenon
  <1> HIDE DEF ended
  <1>5. AgentTyped'
    BY Zenon, <1>1, <1>2, <1>3 DEF AgentTyped
  <1>6. ASSUME NEW b \in Agent PROVE AgentGenuine(b)'
    <2>1. CASE b = a
      <3>1. ack'[b] = 0 /\ result'[b] = NoFrame /\ outcome'[b] = ended
        BY Zenon, <1>1, <1>3, <2>1 DEF AgentTyped
      <3> QED BY Zenon, <1>4, <3>1 DEF AgentGenuine
    <2>2. CASE b # a
      <3>1. /\ pc'[b] = pc[b] /\ call'[b] = call[b] /\ ack'[b] = ack[b]
            /\ result'[b] = result[b] /\ outcome'[b] = outcome[b]
        BY Zenon, <1>1, <1>3, <2>2 DEF AgentTyped
      <3> QED BY Zenon, <3>1, GenuineOthers
    <2> QED BY Zenon, <2>1, <2>2
  <1> QED BY Zenon, <1>5, <1>6

LEMMA GenuineRaise ==
  ASSUME GenuineInv, executed \subseteq executed',
         NEW a \in Agent, NEW class \in Class \ Answered, Raise(a, class)
  PROVE  AgentTyped' /\ (\A b \in Agent : AgentGenuine(b)')
  <1>1. NoFrame.of \in Nat
    BY Zenon DEF NoFrame
  <1>2. Return(a, class, 0, NoFrame)
    BY Zenon DEF Raise
  <1> QED BY Zenon, <1>1, <1>2, GenuineReturn

\* A frame an agent keeps is genuine; with both frames an agent that answers has
\* the result, and unless it is an increment the ACK, of one request.
LEMMA GenuineRead ==
  ASSUME GenuineInv, NEW a \in Agent, Read(a)
  PROVE  GenuineInv'
  <1> DEFINE frame == to_linux[1]
             acked == IF frame.type = "ACK" THEN frame.peer ELSE ack[a]
             got   == IF frame.type = "ACK" THEN result[a] ELSE frame
  <1>0. LinuxReceive /\ pc[a] = "readable" /\ ServiceTyped /\ AgentTyped /\ AgentGenuine(a)
    BY Zenon DEF Read, GenuineInv
  <1>1. /\ ServiceTyped' /\ UNCHANGED <<reliable, job, executed>>
        /\ Len(to_linux) > 0 /\ Head(to_linux) = frame /\ frame \in Answer
        /\ Len(to_linux') = Len(to_linux) - 1
        /\ \A i \in 1 .. Len(to_linux') : to_linux'[i] = to_linux[i + 1]
    BY Zenon, <1>0, Receives DEF LinuxReceive
  <1>2. Genuine(frame)
    BY <1>0, <1>1 DEF GenuineInv, ServiceGenuine, ServiceTyped
  <1>3. ServiceGenuine'
    <2>1. \A i \in 1 .. Len(to_linux') : i + 1 \in 1 .. Len(to_linux)
      BY <1>0, <1>1 DEF ServiceTyped
    <2> QED BY Zenon, <1>1, <2>1 DEF GenuineInv, ServiceGenuine, Genuine
  <1>4. /\ frame.peer \in Nat /\ frame.of \in Nat /\ frame.type \in Kind
        /\ ack[a] \in Nat /\ result[a] \in Answer \cup {NoFrame} /\ call[a] \in Caller
    BY Zenon, <1>0, <1>1 DEF Answer, AgentTyped
  <1>5. acked # 0 => acked \in executed
    BY Zenon, <1>0, <1>2, <1>4 DEF Genuine, AgentGenuine
  <1>6. ASSUME frame.type = "ACK" \/ Matches(call[a], frame)
        PROVE  got # NoFrame => Genuine(got) /\ Matches(call[a], got)
    BY Zenon, <1>0, <1>2, <1>6 DEF AgentGenuine
  <1>7. acked \in Nat /\ got \in Answer \cup {NoFrame}
    BY Zenon, <1>1, <1>4
  <1>8. \/ \E class \in {"nack", "unexpected_frame", "sequence_mismatch"} : Raise(a, class)
        \/ /\ frame.type = "ACK" \/ Matches(call[a], frame)
           /\ pc' = [pc EXCEPT ![a] = "waiting"]
           /\ ack' = [ack EXCEPT ![a] = acked]
           /\ result' = [result EXCEPT ![a] = got]
           /\ UNCHANGED <<setup, call, own, reader, outcome>>
        \/ /\ frame.type = "ACK" \/ Matches(call[a], frame)
           /\ Both(acked, got) /\ SameRequest(call[a], acked, got)
           /\ \E class \in Answered : Return(a, class, acked, got)
    BY Zenon, <1>1 DEF Read, Answered
  <1> HIDE DEF acked, got, frame
  <1>9. CASE \E class \in {"nack", "unexpected_frame", "sequence_mismatch"} : Raise(a, class)
    <2> PICK class \in {"nack", "unexpected_frame", "sequence_mismatch"} : Raise(a, class)
      BY Zenon, <1>9
    <2>1. class \in Class \ Answered
      BY Zenon DEF Class, Unanswered, Answered
    <2> QED BY Zenon, <1>1, <1>3, <2>1, GenuineRaise DEF GenuineInv
  <1>10. CASE /\ frame.type = "ACK" \/ Matches(call[a], frame)
              /\ pc' = [pc EXCEPT ![a] = "waiting"]
              /\ ack' = [ack EXCEPT ![a] = acked]
              /\ result' = [result EXCEPT ![a] = got]
              /\ UNCHANGED <<setup, call, own, reader, outcome>>
    <2>1. AgentTyped'
      BY Zenon, <1>0, <1>7, <1>10 DEF AgentTyped
    <2>2. ASSUME NEW b \in Agent PROVE AgentGenuine(b)'
      <3>1. CASE b = a
        <4>1. /\ pc'[b] = "waiting" /\ ack'[b] = acked /\ result'[b] = got
              /\ call'[b] = call[a] /\ outcome'[b] = outcome[a]
          BY Zenon, <1>0, <1>10, <3>1 DEF AgentTyped
        <4>2. got # NoFrame => Genuine(got) /\ Matches(call[a], got)
          BY Zenon, <1>6, <1>10
        <4> QED BY Zenon, <1>0, <1>1, <1>5, <4>1, <4>2 DEF AgentGenuine, Genuine, Matches
      <3>2. CASE b # a
        <4>1. /\ pc'[b] = pc[b] /\ call'[b] = call[b] /\ ack'[b] = ack[b]
              /\ result'[b] = result[b] /\ outcome'[b] = outcome[b]
          BY Zenon, <1>0, <1>10, <3>2 DEF AgentTyped
        <4> QED BY Zenon, <1>1, <4>1, GenuineOthers
      <3> QED BY Zenon, <3>1, <3>2
    <2> QED BY Zenon, <1>1, <1>3, <2>1, <2>2 DEF GenuineInv
  <1>11. CASE /\ frame.type = "ACK" \/ Matches(call[a], frame)
              /\ Both(acked, got) /\ SameRequest(call[a], acked, got)
              /\ \E class \in Answered : Return(a, class, acked, got)
    <2>1. /\ acked # 0 /\ got # NoFrame
          /\ call[a].type # "PING" => acked = got.peer
      BY Zenon, <1>11 DEF Both, SameRequest
    <2>2. Genuine(got) /\ got.type = ResultType[call[a].type] /\ got \in Answer
      BY Zenon, <1>6, <1>7, <1>11, <2>1 DEF Matches
    <2>3. /\ got.type # "NACK" /\ got.of \in Nat
          /\ call[a].type # "PING" => got.type # "PONG"
      BY <1>4, <2>2 DEF ResultType, Caller, Answer
    <2>4. /\ got.of \in executed /\ acked \in executed
          /\ call[a].type # "PING" => acked = got.of
      BY Zenon, <1>5, <2>1, <2>2, <2>3 DEF Genuine
    <2>5. \E class \in Class : Return(a, class, acked, got)
      BY Zenon, <1>11 DEF Class
    <2>6. AgentTyped' /\ (\A b \in Agent : AgentGenuine(b)')
      BY Zenon, <1>1, <1>7, <2>3, <2>4, <2>5, GenuineReturn
    <2> QED BY Zenon, <1>1, <1>3, <2>6 DEF GenuineInv
  <1> QED BY Zenon, <1>8, <1>9, <1>10, <1>11

\* The other steps of an agent take no frame, or end the call.
LEMMA GenuineAgent ==
  ASSUME GenuineInv, NEW a \in Agent, AgentStep(a)
  PROVE  GenuineInv'
  <1>0. ServiceTyped /\ reliable = TRUE /\ AgentTyped /\ AgentGenuine(a)
    BY Zenon DEF GenuineInv
  <1>1. ASSUME NEW class \in Class \ Answered, Raise(a, class),
               ServiceTyped', UNCHANGED <<reliable, to_linux, job, executed>>
        PROVE  GenuineInv'
    <2>1. ServiceGenuine'
      BY Zenon, <1>1 DEF GenuineInv, ServiceGenuine, Genuine
    <2>2. AgentTyped' /\ (\A b \in Agent : AgentGenuine(b)')
      BY Zenon, <1>1, GenuineRaise
    <2> QED BY Zenon, <1>0, <1>1, <2>1, <2>2 DEF GenuineInv
  <1>2. ASSUME UNCHANGED <<reliable, to_linux, job, executed, ack, result>>,
               ServiceTyped', AgentTyped',
               \A b \in Agent \ {a} :
                 pc'[b] = pc[b] /\ call'[b] = call[b] /\ outcome'[b] = outcome[b],
               result[a] # NoFrame => /\ pc'[a] \in {"waiting", "readable"}
                                      /\ call'[a] = call[a],
               outcome'[a] = outcome[a] \/ outcome'[a].class \notin Answered
        PROVE  GenuineInv'
    <2>1. ServiceGenuine'
      BY Zenon, <1>2 DEF GenuineInv, ServiceGenuine, Genuine
    <2>2. ASSUME NEW b \in Agent \ {a} PROVE AgentGenuine(b)'
      BY Zenon, <1>2, GenuineOthers
    <2>3. AgentGenuine(a)'
      BY Zenon, <1>0, <1>2 DEF AgentGenuine, Genuine, Matches
    <2> QED BY Zenon, <1>0, <1>2, <2>1, <2>2, <2>3 DEF GenuineInv
  <1>3. pc[a] \in {"idle", "opened"} => result[a] = NoFrame
    BY Zenon, <1>0 DEF AgentGenuine
  <1>4. ASSUME NEW c \in Call, Open(a, c) \/ OpenFails(a, c)
        PROVE  GenuineInv'
    <2>1. c \in Caller
      BY Zenon, AgentAssumption DEF Caller, Status
    <2>2. /\ pc[a] = "idle"
          /\ UNCHANGED <<serviceVars, setup, own, ack, result>>
          /\ call' = [call EXCEPT ![a] = c]
      BY Zenon, <1>4 DEF Open, OpenFails
    <2> DEFINE failed == [NoOutcome EXCEPT !.class = "mailmsg_open_failed", !.call = c]
    <2>3. failed \in Outcome /\ failed.class \notin Answered
      BY Zenon, <2>1 DEF NoOutcome, Outcome, Class, Unanswered, Answered
    <2>4. \/ outcome' = outcome /\ pc' = [pc EXCEPT ![a] = "opened"]
          \/ outcome' = [outcome EXCEPT ![a] = failed] /\ pc' = pc
      BY Zenon, <1>4 DEF Open, OpenFails
    <2> HIDE DEF failed
    <2>5. AgentTyped'
      BY Zenon, <1>0, <2>1, <2>2, <2>3, <2>4 DEF AgentTyped
    <2>6. \A b \in Agent \ {a} :
            pc'[b] = pc[b] /\ call'[b] = call[b] /\ outcome'[b] = outcome[b]
      BY Zenon, <1>0, <2>2, <2>4 DEF AgentTyped
    <2>7. outcome'[a] = outcome[a] \/ outcome'[a].class \notin Answered
      BY Zenon, <1>0, <2>3, <2>4 DEF AgentTyped
    <2>8. ServiceTyped' /\ UNCHANGED <<reliable, to_linux, job, executed>>
      BY Zenon, <1>0, <2>2 DEF serviceVars, ServiceTyped
    <2> QED BY Zenon, <1>2, <1>3, <2>2, <2>5, <2>6, <2>7, <2>8
  <1>5. CASE Write(a)
    <2>1. call[a] \in Caller
      BY Zenon, <1>0 DEF AgentTyped
    <2>2. ServiceTyped' /\ UNCHANGED <<reliable, to_linux, job, executed>>
      BY ZenonT(30), <1>0, <1>5, <2>1, Sending DEF Write, LinuxSend
    <2>3. AgentTyped'
      BY Zenon, <1>0, <1>5, <2>2 DEF AgentTyped, Write, ServiceTyped
    <2> QED BY Zenon, <1>0, <1>2, <1>3, <1>5, <2>2, <2>3 DEF Write, AgentTyped
  <1>6. CASE WriteFull(a)
    <2>1. ServiceTyped' /\ UNCHANGED <<reliable, to_linux, job, executed>>
      BY Zenon, <1>0, <1>6, SendingFull DEF WriteFull, LinuxSendFull
    <2>2. "queue_full" \in Class \ Answered
      BY Zenon DEF Class, Unanswered, Answered
    <2> QED BY Zenon, <1>1, <1>6, <2>1, <2>2 DEF WriteFull
  <1>7. CASE WriteOffline(a) \/ PollError(a) \/ Timeout(a) \/ ReadOffline(a)
    <2>1. ServiceTyped' /\ UNCHANGED <<reliable, to_linux, job, executed>>
      BY ZenonT(30), <1>0, <1>7
      DEF WriteOffline, PollError, Timeout, ReadOffline, serviceVars, ServiceTyped
    <2>2. {"mailmsg_write_failed", "mailmsg_offline", "timeout", "uncaught"}
            \subseteq Class \ Answered
      BY Zenon DEF Class, Unanswered, Answered
    <2>3. \E class \in Class \ Answered : Raise(a, class)
      BY Zenon, <1>7, <2>2 DEF WriteOffline, PollError, Timeout, ReadOffline
    <2> QED BY Zenon, <1>1, <2>1, <2>3
  <1>8. CASE PollClaim(a) \/ PollIn(a)
    <2>1. /\ UNCHANGED <<serviceVars, setup, call, own, ack, result, outcome>>
          /\ pc[a] = "waiting"
          /\ pc' = pc \/ pc' = [pc EXCEPT ![a] = "readable"]
      BY Zenon, <1>8 DEF PollClaim, PollIn
    <2>2. ServiceTyped' /\ UNCHANGED <<reliable, to_linux, job, executed>>
      BY Zenon, <1>0, <2>1 DEF serviceVars, ServiceTyped
    <2>3. AgentTyped'
      BY Zenon, <1>0, <2>1 DEF AgentTyped
    <2> QED BY Zenon, <1>0, <1>2, <2>1, <2>2, <2>3 DEF AgentTyped
  <1>9. CASE Read(a)
    BY Zenon, <1>9, GenuineRead
  <1> QED BY Zenon, <1>4, <1>5, <1>6, <1>7, <1>8, <1>9 DEF AgentStep

LEMMA GenuineStep == GenuineInv /\ [Next]_vars => GenuineInv'
  <1> SUFFICES ASSUME GenuineInv, [Next]_vars PROVE GenuineInv'
    BY Zenon
  <1>1. ASSUME NEW a \in setup.agents, AgentStep(a) PROVE GenuineInv'
    <2>1. a \in Agent
      BY Zenon, AgentAssumption DEF GenuineInv, AgentTyped
    <2> QED BY Zenon, <1>1, <2>1, GenuineAgent
  <1>2. CASE Service
    <2>1. /\ ServiceTyped' /\ reliable' = TRUE /\ ServiceGenuine'
          /\ executed \subseteq executed' /\ UNCHANGED agentVars
      BY Zenon, <1>2, GenuineServe DEF Service
    <2>2. AgentTyped'
      BY Zenon, <2>1 DEF GenuineInv, AgentTyped, agentVars
    <2>3. ASSUME NEW b \in Agent PROVE AgentGenuine(b)'
      BY Zenon, <2>1, GenuineOthers DEF agentVars
    <2> QED BY Zenon, <2>1, <2>2, <2>3 DEF GenuineInv
  <1>3. CASE UNCHANGED vars
    BY ZenonT(30), <1>3 DEF GenuineInv, ServiceTyped, AgentTyped, ServiceGenuine, AgentGenuine,
                Genuine, Matches, vars, serviceVars, agentVars
  <1> QED BY Zenon, <1>1, <1>2, <1>3 DEF Next, Bounded

\* Whatever other agents do and however many calls have timed out before: an
\* agent that answers (execute_zephyr_* returns) holds the result of a request
\* CPU3 carried out, and unless the call is an increment the ACK of that request.
THEOREM AcceptedGenuine == Spec => []AcceptedIsGenuine
  <1>1. GenuineInv => AcceptedIsGenuine
    BY Zenon DEF GenuineInv, AgentGenuine, AcceptedIsGenuine
  <1> QED BY <1>1, GenuineAtStart, GenuineStep, PTL DEF Spec

-----------------------------------------------------------------------------
(* Agents: one patient agent has the answer to its own request *)

\* The replies of a reliable priority.
Due(c) == IF c.valid THEN <<"ACK", ResultType[c.type]>> ELSE <<"NACK">>

\* Nothing is under way in either direction.
Quiet == Len(to_cpu3) = 0 /\ Len(to_linux) = 0 /\ Len(job.replies) = 0

\* The agent's request.
Own(a) == [call |-> call[a], sequence |-> own[a]]

\* It has not reached CPU3 yet.
Requesting(a) ==
  /\ Len(to_cpu3) = 1 /\ to_cpu3[1] = Own(a)
  /\ Len(to_linux) = 0 /\ Len(job.replies) = 0
  /\ ack[a] = 0 /\ own[a] \notin executed

\* CPU3 has carried it out: the replies read, under way and due, in this order,
\* are the ones the service means to send, and only the last can be missing.
Seen(a) == IF ack[a] = 0 THEN 0 ELSE 1
Answering(a) ==
  /\ Len(to_cpu3) = 0
  /\ Seen(a) + Len(to_linux) + Len(job.replies) \in 1 .. Len(Due(call[a]))
  /\ Len(job.replies) > 0 =>
       /\ job.request = Own(a)
       /\ Seen(a) + Len(to_linux) + Len(job.replies) = Len(Due(call[a]))
  /\ \A i \in 1 .. Len(to_linux) :
       to_linux[i] = Reply(Own(a), Due(call[a])[Seen(a) + i])
  /\ \A i \in 1 .. Len(job.replies) :
       job.replies[i] = Due(call[a])[Len(Due(call[a])) - Len(job.replies) + i]
  /\ ack[a] # 0 => call[a].valid /\ ack[a] = own[a]
  /\ call[a].valid <=> own[a] \in executed

\* The one agent of a session that lasts.
Single(a) ==
  /\ reader \subseteq {a} /\ result[a] = NoFrame
  /\ outcome[a].class \in Answered <=> outcome[a].own \in executed
  /\ pc[a] # "idle" => call[a] \in Call
  /\ pc[a] \in {"idle", "opened"} => Quiet /\ own[a] = 0 /\ ack[a] = 0
  /\ pc[a] \in {"waiting", "readable"} =>
       /\ own[a] \in 1 .. next_sequence /\ own[a] # outcome[a].own
       /\ Requesting(a) \/ Answering(a)

\* Sequences are given out in order.
Ordered ==
  /\ \A i \in 1 .. Len(to_cpu3) : to_cpu3[i].sequence \in 1 .. next_sequence
  /\ executed \subseteq 1 .. next_sequence
  /\ \A a \in Agent :
       /\ own[a] <= next_sequence /\ outcome[a].own <= next_sequence
       /\ a \notin setup.agents => outcome[a] = NoOutcome

AloneInv ==
  /\ GenuineInv /\ Ordered /\ AcceptedIsOwn
  /\ Alone /\ active => \A a \in setup.agents : Single(a)

LEMMA DueReplies ==
  ASSUME NEW c \in Caller, reliable = TRUE
  PROVE  /\ Due(c) \in Seq(Kind) /\ Len(Due(c)) = IF c.valid THEN 2 ELSE 1
         /\ c.valid => Due(c)[1] = "ACK" /\ Due(c)[2] = ResultType[c.type]
         /\ ~c.valid => Due(c)[1] = "NACK"
         /\ Len(Replies(c)) = Len(Due(c))
         /\ \A i \in 1 .. Len(Due(c)) : Replies(c)[i] = Due(c)[i]
  <1>1. ResultType[c.type] \in Kind /\ "ACK" \in Kind /\ "NACK" \in Kind
    BY Zenon, RepliesDue DEF Kind
  <1>2. CASE c.valid
    <2>1. Due(c) = <<"ACK", ResultType[c.type]>>
      BY Zenon, <1>2 DEF Due
    <2>2. /\ Due(c) \in Seq(Kind) /\ Len(Due(c)) = 2
          /\ Due(c)[1] = "ACK" /\ Due(c)[2] = ResultType[c.type]
      BY <1>1, <2>1
    <2>3. Len(Replies(c)) = 2 /\ Replies(c)[1] = "ACK" /\ Replies(c)[2] = ResultType[c.type]
      BY Zenon, <1>2, RepliesDue
    <2> QED BY <1>2, <2>2, <2>3
  <1>3. CASE ~c.valid
    <2>1. Due(c) = <<"NACK">>
      BY Zenon, <1>3 DEF Due
    <2>2. Due(c) \in Seq(Kind) /\ Len(Due(c)) = 1 /\ Due(c)[1] = "NACK"
      BY <1>1, <2>1
    <2>3. Len(Replies(c)) = 1 /\ Replies(c)[1] = "NACK"
      BY Zenon, <1>3, RepliesDue
    <2> QED BY <1>3, <2>2, <2>3
  <1> QED BY Zenon, <1>2, <1>3

\* The result of an agent's own request is the one it waits for: parse_decision
\* refuses the values whose successor wraps.
LEMMA OwnResultMatches ==
  ASSUME NEW c \in Call, NEW n \in Nat
  PROVE  Matches(c, Reply([call |-> c, sequence |-> n], ResultType[c.type]))
  <1> DEFINE r == [call |-> c, sequence |-> n]
  <1>1. c \in Caller
    BY Zenon, AgentAssumption DEF Caller, Status
  <1>2. r \in Queued /\ r.call = c
    BY Zenon, <1>1 DEF Queued
  <1>3. c.type \in {"PING", "PERIPHERAL", "GPIO_READ"} /\ c.arg \in Nat
    BY Zenon, <1>1 DEF Caller, ResultType
  <1>4. CASE c.type = "PING"
    <2>1. c.arg + 1 < Modulus
      BY <1>3, <1>4, AgentAssumption, ServiceAssumption
    <2>2. (c.arg + 1) % Modulus = c.arg + 1
      BY <1>3, <2>1, ServiceAssumption
    <2>3. ResultType[c.type] = "PONG" /\ "PONG" \in Kind
      BY <1>4 DEF ResultType, Kind, ResultKind
    <2> HIDE DEF r
    <2>4. Reply(r, "PONG").type = "PONG" /\ Reply(r, "PONG").arg = c.arg + 1
      BY Zenon, <1>2, <2>2, <2>3, ReplyTyped
    <2> QED BY Zenon, <1>4, <2>3, <2>4 DEF Matches, r
  <1>5. CASE c.type # "PING"
    <2>1. /\ ResultType[c.type] \in {"PERIPHERAL_RESULT", "GPIO_READ_RESULT"}
          /\ ResultType[c.type] \in Kind
      BY <1>3, <1>5 DEF ResultType, Kind, ResultKind
    <2> HIDE DEF r
    <2>2. /\ Reply(r, ResultType[c.type]).type = ResultType[c.type]
          /\ Reply(r, ResultType[c.type]).arg = c.arg
      BY Zenon, <1>2, <2>1, ReplyTyped
    <2> QED BY Zenon, <1>5, <2>2 DEF Matches, r
  <1> QED BY Zenon, <1>4, <1>5

\* No step of an agent gives out a sequence but Write and WriteFull, and only
\* CPU3 carries requests out.
LEMMA OrderedAgent ==
  ASSUME GenuineInv, Ordered, NEW a \in setup.agents, AgentStep(a)
  PROVE  Ordered'
  <1>0. ServiceTyped /\ AgentTyped /\ a \in Agent
    BY Zenon, AgentAssumption DEF GenuineInv, AgentTyped
  <1>1. setup' = setup /\ executed' = executed
    BY Zenon DEF AgentStep, Open, OpenFails, Write, WriteFull, WriteOffline, PollClaim, PollIn,
           PollError, Timeout, ReadOffline, Read, Raise, Return, LinuxSend, LinuxSendFull,
           LinuxReceive, serviceVars
  <1>n. /\ next_sequence \in Nat
        /\ \A b \in Agent : own[b] \in Nat /\ outcome[b].own \in Nat
    BY Zenon, <1>0 DEF ServiceTyped, AgentTyped, Outcome
  <1>o. ASSUME next_sequence' \in {next_sequence, next_sequence + 1}
        PROVE  /\ 0 <= next_sequence'
               /\ \A b \in Agent : own[b] <= next_sequence' /\ outcome[b].own <= next_sequence'
               /\ \A k : k \in 1 .. next_sequence => k \in 1 .. next_sequence'
               /\ executed' \subseteq 1 .. next_sequence'
    <2>1. /\ 0 <= next_sequence'
          /\ \A k \in Nat : k <= next_sequence => k <= next_sequence'
          /\ \A k : k \in 1 .. next_sequence => k \in 1 .. next_sequence'
      <3> DEFINE n == next_sequence
                 m == next_sequence'
      <3> HIDE DEF n, m
      <3>1. n \in Nat /\ m \in {n, n + 1}
        BY Zenon, <1>n, <1>o DEF n, m
      <3>2. /\ 0 <= m /\ \A k \in Nat : k <= n => k <= m
            /\ \A k : k \in 1 .. n => k \in 1 .. m
        BY <3>1
      <3> QED BY Zenon, <3>2 DEF n, m
    <2> QED BY Zenon, <1>1, <1>n, <2>1 DEF Ordered
  <1>2. CASE Write(a)
    <2>1. call[a] \in Caller
      BY Zenon, <1>0 DEF AgentTyped
    <2>2. /\ Len(to_cpu3') = Len(to_cpu3) + 1
          /\ to_cpu3'[Len(to_cpu3) + 1] = [call |-> call[a], sequence |-> next_sequence + 1]
          /\ \A i \in 1 .. Len(to_cpu3) : to_cpu3'[i] = to_cpu3[i]
          /\ next_sequence' = next_sequence + 1
      BY Zenon, <1>0, <1>2, <2>1, Sending DEF Write, LinuxSend
    <2>3. \A i \in 1 .. Len(to_cpu3') : to_cpu3'[i].sequence \in 1 .. next_sequence'
      <3> TAKE i \in 1 .. Len(to_cpu3')
      <3>1. CASE i \in 1 .. Len(to_cpu3)
        <4>1. to_cpu3'[i].sequence \in 1 .. next_sequence
          BY Zenon, <2>2, <3>1 DEF Ordered
        <4> QED BY Zenon, <1>o, <2>2, <4>1
      <3>2. CASE i = Len(to_cpu3) + 1
        <4>1. to_cpu3'[i].sequence = next_sequence'
          <5>1. to_cpu3'[i] = [call |-> call[a], sequence |-> next_sequence + 1]
            BY Zenon, <2>2, <3>2
          <5> QED BY <2>2, <5>1
        <4>2. next_sequence' \in 1 .. next_sequence'
          BY <1>n, <2>2
        <4> QED BY Zenon, <4>1, <4>2
      <3>3. i \in 1 .. Len(to_cpu3) \/ i = Len(to_cpu3) + 1
        <4>1. Len(to_cpu3) \in Nat
          BY <1>0 DEF ServiceTyped
        <4> QED BY <2>2, <4>1
      <3> QED BY Zenon, <3>1, <3>2, <3>3
    <2>4. executed' \subseteq 1 .. next_sequence'
      BY Zenon, <1>o, <2>2
    <2>5. own' = [own EXCEPT ![a] = next_sequence'] /\ outcome' = outcome
      BY Zenon, <1>2 DEF Write
    <2>6. \A b \in Agent : /\ own'[b] <= next_sequence'
                           /\ outcome'[b].own <= next_sequence'
      <3>1. own'[a] = next_sequence' /\ \A b \in Agent \ {a} : own'[b] = own[b]
        BY Zenon, <1>0, <2>5 DEF AgentTyped
      <3>2. next_sequence' <= next_sequence'
        BY <1>n, <2>2
      <3> QED BY Zenon, <1>o, <2>2, <2>5, <3>1, <3>2
    <2> QED BY Zenon, <1>1, <2>3, <2>4, <2>5, <2>6 DEF Ordered
  <1>3. CASE ~Write(a)
    <2>1. /\ to_cpu3' = to_cpu3
          /\ next_sequence' \in {next_sequence, next_sequence + 1}
      BY Zenon, <1>3 DEF AgentStep, Open, OpenFails, WriteFull, WriteOffline, PollClaim,
           PollIn, PollError, Timeout, ReadOffline, Read, LinuxSendFull, LinuxReceive,
           serviceVars
    <2>2. /\ \A i \in 1 .. Len(to_cpu3') : to_cpu3'[i].sequence \in 1 .. next_sequence'
          /\ executed' \subseteq 1 .. next_sequence'
      BY Zenon, <1>o, <2>1 DEF Ordered
    <2>3. \/ UNCHANGED <<own, outcome>>
          \/ \E class, acked, frame : Return(a, class, acked, frame)
          \/ \E c \in Call : OpenFails(a, c)
      BY Zenon, <1>3 DEF AgentStep, Open, WriteFull, WriteOffline, PollClaim,
           PollIn, PollError, Timeout, ReadOffline, Read, Raise
    <2>4. CASE UNCHANGED <<own, outcome>>
      <3>1. \A b \in Agent : own'[b] <= next_sequence' /\ outcome'[b].own <= next_sequence'
        BY Zenon, <1>o, <2>1, <2>4
      <3> QED BY Zenon, <1>1, <2>2, <2>4, <3>1 DEF Ordered
    <2>5. CASE \E class, acked, frame : Return(a, class, acked, frame)
      <3> PICK class, acked, frame : Return(a, class, acked, frame)
        BY Zenon, <2>5
      <3>1. /\ own' = [own EXCEPT ![a] = 0]
            /\ outcome' = [outcome EXCEPT ![a] =
                             [class |-> class, call |-> call[a], own |-> own[a],
                              ack |-> acked, of |-> frame.of]]
        BY Zenon DEF Return
      <3>2. own'[a] = 0 /\ outcome'[a].own = own[a]
        BY Zenon, <1>0, <3>1 DEF AgentTyped
      <3>3. \A b \in Agent \ {a} : own'[b] = own[b] /\ outcome'[b] = outcome[b]
        BY Zenon, <1>0, <3>1 DEF AgentTyped
      <3>4. \A b \in Agent : own'[b] <= next_sequence' /\ outcome'[b].own <= next_sequence'
        <4>1. ASSUME NEW b \in Agent
              PROVE  /\ own[b] <= next_sequence' /\ outcome[b].own <= next_sequence'
                     /\ 0 <= next_sequence'
          BY Zenon, <1>o, <2>1
        <4> QED BY Zenon, <1>0, <3>2, <3>3, <4>1
      <3> QED BY Zenon, <1>1, <2>2, <3>3, <3>4 DEF Ordered
    <2>6. CASE \E c \in Call : OpenFails(a, c)
      <3> PICK c \in Call : OpenFails(a, c)
        BY Zenon, <2>6
      <3>1. /\ own' = own
            /\ outcome' = [outcome EXCEPT ![a] =
                   [NoOutcome EXCEPT !.class = "mailmsg_open_failed", !.call = c]]
        BY Zenon DEF OpenFails
      <3>2. outcome'[a].own = 0
        BY Zenon, <1>0, <3>1 DEF AgentTyped, NoOutcome
      <3>3. \A b \in Agent \ {a} : outcome'[b] = outcome[b]
        BY Zenon, <1>0, <3>1 DEF AgentTyped
      <3>4. \A b \in Agent : own'[b] <= next_sequence' /\ outcome'[b].own <= next_sequence'
        BY Zenon, <1>0, <1>o, <2>1, <3>1, <3>2, <3>3
      <3> QED BY Zenon, <1>1, <2>2, <3>3, <3>4 DEF Ordered
    <2> QED BY Zenon, <2>3, <2>4, <2>5, <2>6
  <1> QED BY Zenon, <1>2, <1>3

LEMMA OrderedService ==
  ASSUME GenuineInv, Ordered, Service
  PROVE  Ordered'
  <1>0. ServiceTyped /\ reliable = TRUE /\ UNCHANGED agentVars
    BY Zenon DEF GenuineInv, Service
  <1>1. next_sequence' = next_sequence
    BY Zenon DEF Service, Cpu3Next, Cpu3Serve, Cpu3Reply, Cpu3ReplyFull, SessionEnds
  <1>2. CASE Cpu3Serve
    <2>1. /\ Len(to_cpu3) > 0
          /\ Len(to_cpu3') = Len(to_cpu3) - 1
          /\ \A i \in 1 .. Len(to_cpu3') : to_cpu3'[i] = to_cpu3[i + 1]
          /\ executed' \subseteq executed \cup {to_cpu3[1].sequence}
      BY Zenon, <1>0, <1>2, Serves
    <2>2. \A i \in 1 .. Len(to_cpu3') : i + 1 \in 1 .. Len(to_cpu3)
      BY <1>0, <2>1 DEF ServiceTyped
    <2>3. 1 \in 1 .. Len(to_cpu3)
      BY <1>0, <2>1 DEF ServiceTyped
    <2> QED BY Zenon, <1>0, <1>1, <2>1, <2>2, <2>3 DEF Ordered, agentVars
  <1>3. CASE ~Cpu3Serve
    <2>1. UNCHANGED <<to_cpu3, executed>>
      BY Zenon, <1>3 DEF Service, Cpu3Next, Cpu3Reply, Cpu3ReplyFull, SessionEnds
    <2> QED BY Zenon, <1>0, <1>1, <2>1 DEF Ordered, agentVars
  <1> QED BY Zenon, <1>2, <1>3

\* Where the agent's one request can be.
LEMMA SingleCases ==
  ASSUME AgentTyped, NEW a \in Agent, Single(a)
  PROVE  \/ pc[a] \in {"idle", "opened"} /\ Quiet /\ ack[a] = 0
         \/ pc[a] \in {"waiting", "readable"} /\ Requesting(a)
         \/ pc[a] \in {"waiting", "readable"} /\ Answering(a)
  <1>1. pc[a] \in {"idle", "opened"} \/ pc[a] \in {"waiting", "readable"}
    BY Zenon DEF AgentTyped
  <1> QED BY Zenon, <1>1 DEF Single

\* CPU3 carries out the agent's request and sends what is due for it.
LEMMA SingleService ==
  ASSUME GenuineInv, Ordered, Service, active', NEW a \in Agent, Single(a)
  PROVE  Single(a)'
  <1>0. /\ ServiceTyped /\ reliable = TRUE /\ AgentTyped /\ UNCHANGED agentVars
        /\ call[a] \in Caller /\ own[a] \in Nat /\ ack[a] \in Nat
    BY Zenon DEF GenuineInv, Service, AgentTyped
  <1> DEFINE due == Due(call[a])
  <1>1. /\ due \in Seq(Kind) /\ Len(due) = IF call[a].valid THEN 2 ELSE 1
        /\ Len(Replies(call[a])) = Len(due)
        /\ \A i \in 1 .. Len(due) : Replies(call[a])[i] = due[i]
    BY Zenon, <1>0, DueReplies
  <1>2. Own(a)' = Own(a) /\ Seen(a)' = Seen(a) /\ Due(call[a])' = due
    BY Zenon, <1>0 DEF agentVars, Own, Seen
  <1>3. Own(a) \in Queued /\ Own(a).call = call[a] /\ Own(a).sequence = own[a]
    BY Zenon, <1>0 DEF Own, Queued
  <1>4. next_sequence' = next_sequence
    BY ZenonT(30) DEF Service, Cpu3Next, Cpu3Serve, Cpu3Reply, Cpu3ReplyFull, SessionEnds
  <1> HIDE DEF due
  <1>5. CASE Cpu3Serve
    <2>1. /\ Len(to_cpu3) > 0
          /\ job'.request = to_cpu3[1] /\ job'.replies = Replies(to_cpu3[1].call)
          /\ Len(to_cpu3') = Len(to_cpu3) - 1
          /\ executed' = IF to_cpu3[1].call.valid
                           THEN executed \cup {to_cpu3[1].sequence} ELSE executed
          /\ to_linux' = to_linux
      BY Zenon, <1>0, <1>5, Serves DEF Cpu3Serve
    <2>2. pc[a] \in {"waiting", "readable"} /\ Requesting(a)
      <3>1. Len(to_cpu3) # 0
        BY <2>1
      <3> QED BY Zenon, <1>0, <3>1, SingleCases DEF Quiet, Answering
    <2>3. /\ job'.request = Own(a) /\ job'.replies = Replies(call[a])
          /\ executed' = IF call[a].valid THEN executed \cup {own[a]} ELSE executed
          /\ Len(to_cpu3') = 0 /\ Len(to_linux') = 0 /\ Seen(a) = 0 /\ ack[a] = 0
      <3>1. /\ to_cpu3[1] = Own(a) /\ Len(to_cpu3) = 1 /\ Len(to_linux) = 0
            /\ Seen(a) = 0 /\ ack[a] = 0
        BY Zenon, <2>2 DEF Requesting, Seen
      <3>2. to_cpu3[1].call = call[a] /\ to_cpu3[1].sequence = own[a]
        BY Zenon, <1>3, <3>1
      <3>3. Len(to_cpu3') = 0 /\ Len(to_linux') = 0
        BY <2>1, <3>1
      <3> QED BY Zenon, <2>1, <3>1, <3>2, <3>3
    <2>4. /\ Len(job'.replies) = Len(due)
          /\ \A i \in 1 .. Len(due) : job'.replies[i] = due[i]
      BY Zenon, <1>1, <2>3 DEF due
    <2>5. call[a].valid <=> own[a] \in executed'
      BY Zenon, <2>2, <2>3 DEF Requesting
    <2>6. Answering(a)'
      <3>1. ack'[a] = ack[a] /\ call'[a] = call[a] /\ own'[a] = own[a]
        BY Zenon, <1>0 DEF agentVars
      <3>2. Len(due) - Len(job'.replies) = 0 /\ 0 + 0 + Len(job'.replies) = Len(due)
        BY <1>1, <2>4
      <3>3. \A i \in 1 .. Len(job'.replies) : job'.replies[i] = due[0 + i]
        BY <1>1, <2>4
      <3>4. 0 + 0 + Len(job'.replies) \in 1 .. Len(due)
        BY <1>1, <2>4
      <3> QED BY <1>2, <2>3, <2>5, <3>1, <3>2, <3>3, <3>4 DEF Answering
    <2>7. outcome[a].class \in Answered <=> outcome[a].own \in executed'
      BY Zenon, <2>2, <2>3 DEF Single
    <2> QED BY Zenon, <1>0, <1>4, <2>2, <2>6, <2>7 DEF Single, agentVars
  <1>6. CASE Cpu3Reply \/ Cpu3ReplyFull
    <2>1. /\ Len(job.replies) > 0 /\ job.replies \in Seq(Kind)
          /\ Len(to_linux) \in Nat /\ UNCHANGED <<to_cpu3, executed>>
      <3>1. Len(job.replies) > 0
        BY Zenon, <1>0, <1>6, Replying, Refusing
      <3>2. UNCHANGED <<to_cpu3, executed>>
        BY Zenon, <1>6 DEF Cpu3Reply, Cpu3ReplyFull
      <3> QED BY <1>0, <3>1, <3>2 DEF ServiceTyped
    <2>2. pc[a] \in {"waiting", "readable"} /\ Answering(a)
      <3>1. Len(job.replies) # 0
        BY <2>1
      <3> QED BY Zenon, <1>0, <3>1, SingleCases DEF Quiet, Requesting
    <2>3. /\ job.request = Own(a) /\ Seen(a) \in {0, 1}
          /\ Seen(a) + Len(to_linux) + Len(job.replies) = Len(due)
          /\ \A i \in 1 .. Len(to_linux) : to_linux[i] = Reply(Own(a), due[Seen(a) + i])
          /\ \A i \in 1 .. Len(job.replies) :
               job.replies[i] = due[Len(due) - Len(job.replies) + i]
      BY Zenon, <2>1, <2>2 DEF Answering, Seen, due
    <2>4. /\ Len(due) - Len(job.replies) + 1 = Seen(a) + Len(to_linux) + 1
          /\ Len(to_linux) >= 1 => Len(to_linux) = 1 /\ Len(job.replies) = 1 /\ Seen(a) = 0
          /\ Seen(a) + (Len(to_linux) + 1) + (Len(job.replies) - 1) = Len(due)
          /\ Len(due) \in 1 .. 2
      <3> DEFINE seen == Seen(a)
                 here == Len(to_linux)
                 left == Len(job.replies)
                 total == Len(due)
      <3>1. total \in 1 .. 2
        BY <1>1
      <3>2. /\ seen \in {0, 1} /\ here \in Nat /\ left \in Nat \ {0}
            /\ seen + here + left = total
        BY <2>1, <2>3
      <3>3. /\ total - left + 1 = seen + here + 1
            /\ here >= 1 => here = 1 /\ left = 1 /\ seen = 0
            /\ seen + (here + 1) + (left - 1) = total
        <4> HIDE DEF seen, here, left, total
        <4> QED BY <3>1, <3>2
      <3> QED BY Zenon, <3>1, <3>3
    <2>5. call'[a] = call[a] /\ own'[a] = own[a] /\ ack'[a] = ack[a]
      BY Zenon, <1>0 DEF agentVars
    <2>6. Answering(a)'
      <3>1. CASE Cpu3Reply
        <4>1. /\ Len(to_linux') = Len(to_linux) + 1
              /\ to_linux'[Len(to_linux) + 1] = Reply(job.request, job.replies[1])
              /\ \A i \in 1 .. Len(to_linux) : to_linux'[i] = to_linux[i]
              /\ job'.request = job.request
              /\ Len(job'.replies) = Len(job.replies) - 1
              /\ \A i \in 1 .. Len(job'.replies) : job'.replies[i] = job.replies[i + 1]
          BY Zenon, <1>0, <3>1, Replying
        <4>2. job.replies[1] = due[Seen(a) + Len(to_linux) + 1]
          <5>1. 1 \in 1 .. Len(job.replies)
            BY <2>1
          <5>2. Len(due) - Len(job.replies) + 1 = Seen(a) + Len(to_linux) + 1
            BY Zenon, <2>4
          <5> QED BY Zenon, <2>3, <5>1, <5>2
        <4>3. \A i \in 1 .. Len(to_linux') : to_linux'[i] = Reply(Own(a), due[Seen(a) + i])
          <5> TAKE i \in 1 .. Len(to_linux')
          <5>1. i \in 1 .. Len(to_linux) \/ i = Len(to_linux) + 1
            BY <2>1, <4>1
          <5>2. CASE i \in 1 .. Len(to_linux)
            BY Zenon, <2>3, <4>1, <5>2
          <5>3. CASE i = Len(to_linux) + 1
            <6>1. Seen(a) + i = Seen(a) + Len(to_linux) + 1
              BY <2>1, <2>3, <5>3
            <6> QED BY Zenon, <2>3, <4>1, <4>2, <5>3, <6>1
          <5> QED BY Zenon, <5>1, <5>2, <5>3
        <4>4. ASSUME NEW i \in 1 .. Len(job'.replies)
              PROVE  job'.replies[i] = due[Len(due) - Len(job'.replies) + i]
          <5>0. Len(job'.replies) = Len(job.replies) - 1
            BY Zenon, <4>1
          <5>1. i + 1 \in 1 .. Len(job.replies)
            BY <2>1, <5>0
          <5>2. Len(due) - Len(job.replies) + (i + 1) = Len(due) - Len(job'.replies) + i
            BY <1>1, <2>1, <4>1
          <5> QED BY Zenon, <2>3, <4>1, <5>1, <5>2
        <4>5. Seen(a) + Len(to_linux') + Len(job'.replies) = Len(due)
          BY Zenon, <2>4, <4>1
        <4>6. Seen(a) + Len(to_linux') + Len(job'.replies) \in 1 .. Len(due)
          BY <2>4, <4>5
        <4>7. /\ Len(to_cpu3') = 0
              /\ ack'[a] # 0 => call'[a].valid /\ ack'[a] = own'[a]
              /\ call'[a].valid <=> own'[a] \in executed'
          BY Zenon, <2>1, <2>2, <2>5 DEF Answering
        <4>8. job'.request = Own(a)
          BY Zenon, <2>3, <4>1
        <4> QED BY Zenon, <1>2, <4>3, <4>4, <4>5, <4>6, <4>7, <4>8 DEF Answering
      <3>2. CASE Cpu3ReplyFull
        <4>1. /\ job'.request = job.request /\ to_linux' = to_linux
              /\ Len(to_linux) >= 1
              /\ job'.replies = <<>> \/ Len(job'.replies) = Len(job.replies) - 1
          BY <1>0, <3>2, Refusing, ServiceAssumption DEF Cpu3ReplyFull
        <4>2. Len(to_linux) = 1 /\ Len(job.replies) = 1 /\ Seen(a) = 0
          BY Zenon, <2>4, <4>1
        <4>3. Len(job'.replies) = 0
          BY <4>1, <4>2
        <4>4. Seen(a) + Len(to_linux') + Len(job'.replies) \in 1 .. Len(due)
          BY <1>1, <2>3, <4>1, <4>2, <4>3
        <4>5. /\ Len(to_cpu3') = 0
              /\ ack'[a] # 0 => call'[a].valid /\ ack'[a] = own'[a]
              /\ call'[a].valid <=> own'[a] \in executed'
          BY Zenon, <2>1, <2>2, <2>5 DEF Answering
        <4>6. \A i \in 1 .. Len(to_linux') : to_linux'[i] = Reply(Own(a), due[Seen(a) + i])
          BY Zenon, <2>3, <4>1
        <4>7. ~(Len(job'.replies) > 0) /\ \A i \in 1 .. Len(job'.replies) : FALSE
          BY <4>3
        <4> QED BY Zenon, <1>2, <4>4, <4>5, <4>6, <4>7 DEF Answering
      <3> QED BY Zenon, <1>6, <3>1, <3>2
    <2> QED BY Zenon, <1>0, <1>4, <2>1, <2>2, <2>6 DEF Single, agentVars
  <1>7. CASE SessionEnds
    BY Zenon, <1>7 DEF SessionEnds
  <1> QED BY Zenon, <1>5, <1>6, <1>7 DEF Service, Cpu3Next

\* A result is no ACK and is not missing, and only a PING has a PONG.
LEMMA ResultKinds ==
  /\ \A frame : frame.type \in ResultKind => frame.type # "ACK" /\ frame # NoFrame
  /\ \A c \in Caller : c.type # "PING" => ResultType[c.type] # "PONG"
  <1>1. NoFrame.type \notin ResultKind /\ "ACK" \notin ResultKind
    BY Zenon DEF NoFrame, ResultKind
  <1>2. \A c \in Caller : c.type # "PING" => ResultType[c.type] # "PONG"
    BY DEF ResultType, Caller
  <1> QED BY Zenon, <1>1, <1>2

\* A read meets the replies in the order in which they are due: after the ACK
\* the agent waits, the result after it or a NACK is the last frame.
LEMMA SingleRead ==
  ASSUME GenuineInv, NEW a \in Agent, active, Single(a), Read(a)
  PROVE  /\ Single(a)'
         /\ outcome'[a] = outcome[a] \/ /\ outcome'[a].class \in Answered =>
                                             /\ outcome'[a].of = outcome'[a].own
                                             /\ outcome'[a].ack = outcome'[a].own
  <1> DEFINE due == Due(call[a])
             frame == to_linux[1]
             acked == IF frame.type = "ACK" THEN frame.peer ELSE ack[a]
             got   == IF frame.type = "ACK" THEN result[a] ELSE frame
             useful == frame.type = "ACK" \/ Matches(call[a], frame)
  <1>0. /\ LinuxReceive /\ pc[a] = "readable" /\ ServiceTyped /\ AgentTyped
        /\ reliable = TRUE /\ call[a] \in Caller /\ own[a] \in Nat /\ ack[a] \in Nat
        /\ call[a] \in Call /\ own[a] \in 1 .. next_sequence /\ own[a] # outcome[a].own
        /\ result[a] = NoFrame /\ reader \subseteq {a}
        /\ outcome[a].class \in Answered <=> outcome[a].own \in executed
    BY Zenon DEF Read, GenuineInv, AgentTyped, Single
  <1>1. /\ UNCHANGED <<to_cpu3, job, executed, next_sequence>>
        /\ Len(to_linux) > 0 /\ Head(to_linux) = frame
        /\ Len(to_linux') = Len(to_linux) - 1
        /\ \A i \in 1 .. Len(to_linux') : to_linux'[i] = to_linux[i + 1]
    BY ZenonT(30), <1>0, Receives DEF LinuxReceive
  <1>2. \/ ~useful /\ Raise(a, IF frame.type = "NACK" THEN "nack" ELSE "unexpected_frame")
        \/ /\ useful /\ ~Both(acked, got)
           /\ pc' = [pc EXCEPT ![a] = "waiting"]
           /\ ack' = [ack EXCEPT ![a] = acked]
           /\ result' = [result EXCEPT ![a] = got]
           /\ UNCHANGED <<setup, call, own, reader, outcome>>
        \/ /\ useful /\ Both(acked, got)
           /\ IF SameRequest(call[a], acked, got)
                THEN \E class \in Answered : Return(a, class, acked, got)
                ELSE Raise(a, "sequence_mismatch")
    BY Zenon, <1>1 DEF Read, Answered
  <1>3. Answering(a)
    <2>1. Len(to_linux) # 0
      BY <1>1
    <2> QED BY Zenon, <1>0, <2>1, SingleCases DEF Quiet, Requesting
  <1>4. /\ due \in Seq(Kind) /\ Len(due) = IF call[a].valid THEN 2 ELSE 1
        /\ call[a].valid => due[1] = "ACK" /\ due[2] = ResultType[call[a].type]
        /\ ~call[a].valid => due[1] = "NACK"
        /\ ResultType[call[a].type] \in ResultKind
    BY ZenonT(30), <1>0, DueReplies, RepliesDue
  <1>5. Own(a) \in Queued /\ Own(a).call = call[a] /\ Own(a).sequence = own[a]
    BY ZenonT(30), <1>0 DEF Own, Queued
  <1> DEFINE seen == Seen(a)
             here == Len(to_linux)
             left == Len(job.replies)
             total == Len(due)
  <1>6. /\ seen \in {0, 1} /\ here \in Nat \ {0} /\ left \in Nat /\ total \in 1 .. 2
        /\ seen + here + left \in 1 .. total
    <2>1. here \in Nat /\ left \in Nat
      BY <1>0 DEF ServiceTyped
    <2>2. here > 0
      BY Zenon, <1>1
    <2>3. seen \in {0, 1}
      BY Zenon DEF Seen
    <2>4. total = 1 \/ total = 2
      BY Zenon, <1>4
    <2>5. seen + here + left \in 1 .. total
      BY Zenon, <1>3 DEF Answering
    <2> HIDE DEF seen, here, left, total
    <2> QED BY <2>1, <2>2, <2>3, <2>4, <2>5
  <1>7. /\ frame = Reply(Own(a), due[seen + 1]) /\ Len(to_cpu3) = 0
        /\ \A i \in 1 .. Len(to_linux) : to_linux[i] = Reply(Own(a), due[seen + i])
        /\ seen = 1 => call[a].valid /\ ack[a] = own[a]
        /\ seen = 0 <=> ack[a] = 0
        /\ call[a].valid <=> own[a] \in executed
    <2>1. 1 \in 1 .. Len(to_linux)
      BY <1>6
    <2>2. /\ \A i \in 1 .. Len(to_linux) : to_linux[i] = Reply(Own(a), due[seen + i])
          /\ Len(to_cpu3) = 0 /\ (ack[a] # 0 => call[a].valid /\ ack[a] = own[a])
          /\ call[a].valid <=> own[a] \in executed
      BY Zenon, <1>3 DEF Answering
    <2>3. (seen = 1 => ack[a] # 0) /\ (seen = 0 <=> ack[a] = 0)
      BY DEF Seen
    <2> QED BY Zenon, <2>1, <2>2, <2>3
  <1> HIDE DEF frame, seen, here, left, total, due
  <1>8. ASSUME NEW class, NEW last, NEW f, Return(a, class, last, f), here + left = 1,
               class \in Answered <=> own[a] \in executed,
               class \in Answered => f.of = own[a] /\ last = own[a]
        PROVE  /\ Single(a)'
               /\ outcome'[a].class \in Answered =>
                    outcome'[a].of = outcome'[a].own /\ outcome'[a].ack = outcome'[a].own
    <2>0. here + left = 1
      BY Zenon, <1>8
    <2>1. here = 1 /\ left = 0
      BY <1>6, <2>0
    <2>2. Quiet'
      BY <1>1, <1>7, <2>1 DEF Quiet, here, left
    <2>3. /\ pc'[a] = "idle" /\ own'[a] = 0 /\ ack'[a] = 0 /\ result'[a] = NoFrame
          /\ outcome'[a] = [class |-> class, call |-> call[a], own |-> own[a],
                            ack |-> last, of |-> f.of]
          /\ reader' \subseteq {a}
      BY Zenon, <1>0, <1>8 DEF Return, AgentTyped
    <2>4. /\ outcome'[a].class = class /\ outcome'[a].own = own[a]
          /\ outcome'[a].ack = last /\ outcome'[a].of = f.of
      BY <2>3
    <2>5. outcome'[a].class \in Answered <=> outcome'[a].own \in executed'
      BY Zenon, <1>1, <1>8, <2>4
    <2> QED BY ZenonT(30), <1>8, <2>2, <2>3, <2>4, <2>5 DEF Single
  <1>9. CASE seen = 0 /\ call[a].valid
    <2>1. frame.type = "ACK" /\ frame.peer = own[a]
      <3>1. frame = Reply(Own(a), "ACK") /\ "ACK" \in Kind
        BY <1>4, <1>7, <1>9 DEF Kind
      <3> QED BY Zenon, <1>5, <3>1, ReplyTyped
    <2>2. acked = own[a] /\ got = NoFrame /\ useful /\ ~Both(acked, got)
      BY Zenon, <1>0, <2>1 DEF Both
    <2>3. /\ pc' = [pc EXCEPT ![a] = "waiting"]
          /\ ack' = [ack EXCEPT ![a] = own[a]]
          /\ result' = [result EXCEPT ![a] = NoFrame]
          /\ UNCHANGED <<setup, call, own, reader, outcome>>
      BY Zenon, <1>2, <2>2
    <2>4. /\ pc'[a] = "waiting" /\ ack'[a] = own[a] /\ result'[a] = NoFrame
          /\ call'[a] = call[a] /\ own'[a] = own[a] /\ outcome'[a] = outcome[a]
      BY Zenon, <1>0, <2>3 DEF AgentTyped
    <2>5. Seen(a)' = 1 /\ Own(a)' = Own(a) /\ Due(call[a])' = due
      <3>1. own[a] # 0
        BY <1>0
      <3>2. Seen(a)' = 1
        BY Zenon, <2>4, <3>1 DEF Seen
      <3>3. Own(a)' = Own(a) /\ Due(call[a])' = due
        BY Zenon, <2>4 DEF Own, due
      <3> QED BY Zenon, <3>2, <3>3
    <2>6. /\ 1 + (here - 1) + left \in 1 .. total
          /\ 1 + (here - 1) + left = seen + here + left
      BY <1>6, <1>9
    <2>7. ASSUME NEW i \in 1 .. Len(to_linux')
          PROVE  to_linux'[i] = Reply(Own(a), due[1 + i])
      <3>1. i + 1 \in 1 .. Len(to_linux) /\ seen + (i + 1) = 1 + i
        BY <1>1, <1>6, <1>9 DEF here
      <3>2. to_linux'[i] = to_linux[i + 1]
        BY Zenon, <1>1
      <3>3. to_linux[i + 1] = Reply(Own(a), due[seen + (i + 1)])
        BY Zenon, <1>7, <3>1
      <3> QED BY Zenon, <3>1, <3>2, <3>3
    <2>8. /\ Len(to_linux') = here - 1 /\ Len(job'.replies) = left
          /\ Len(due) = total
      BY Zenon, <1>1 DEF here, left, total
    <2>9. /\ left > 0 => job.request = Own(a) /\ seen + here + left = total
          /\ \A i \in 1 .. left : job.replies[i] = due[total - left + i]
      BY Zenon, <1>3 DEF Answering, seen, here, left, total, due
    <2>10. Answering(a)'
      <3>1. /\ Len(to_cpu3)' = 0 /\ Len(Due(call[a]))' = total
            /\ (Seen(a) + Len(to_linux) + Len(job.replies))' = 1 + (here - 1) + left
        BY Zenon, <1>1, <1>7, <2>5, <2>8
      <3>2. (Seen(a) + Len(to_linux) + Len(job.replies) \in 1 .. Len(Due(call[a])))'
        BY Zenon, <2>6, <3>1
      <3>3. (Len(job.replies) > 0)' =>
              /\ (job.request = Own(a))'
              /\ (Seen(a) + Len(to_linux) + Len(job.replies) = Len(Due(call[a])))'
        BY Zenon, <1>1, <2>5, <2>6, <2>8, <2>9, <3>1
      <3>4. (\A i \in 1 .. Len(to_linux) :
               to_linux[i] = Reply(Own(a), Due(call[a])[Seen(a) + i]))'
        BY Zenon, <2>5, <2>7
      <3>5. (\A i \in 1 .. Len(job.replies) :
               job.replies[i] = Due(call[a])[Len(Due(call[a])) - Len(job.replies) + i])'
        BY Zenon, <1>1, <2>5, <2>8, <2>9
      <3>6. /\ (ack[a] # 0 => call[a].valid /\ ack[a] = own[a])'
            /\ (call[a].valid <=> own[a] \in executed)'
        BY Zenon, <1>1, <1>7, <1>9, <2>4
      <3> QED BY Zenon, <3>1, <3>2, <3>3, <3>4, <3>5, <3>6 DEF Answering
    <2> QED BY Zenon, <1>0, <1>1, <2>3, <2>4, <2>10 DEF Single
  <1>10. CASE seen = 0 /\ ~call[a].valid
    <2>1. frame.type = "NACK"
      <3>1. frame = Reply(Own(a), "NACK") /\ "NACK" \in Kind
        <4>1. due[1] = "NACK"
          BY Zenon, <1>4, <1>10
        <4>2. seen + 1 = 1
          BY <1>10
        <4>3. frame = Reply(Own(a), due[1])
          BY Zenon, <1>7, <4>2
        <4> QED BY Zenon, <4>1, <4>3 DEF Kind
      <3> QED BY ZenonT(30), <1>5, <3>1, ReplyTyped
    <2>2. ~useful
      BY Zenon, <1>4, <2>1 DEF Matches, ResultKind
    <2>3. Return(a, "nack", 0, NoFrame)
      BY Zenon, <1>2, <2>1, <2>2 DEF Raise
    <2>4. total = 1
      BY Zenon, <1>4, <1>10 DEF total
    <2>5. here + left = 1
      BY <1>6, <1>10, <2>4
    <2>6. "nack" \notin Answered
      BY Zenon DEF Answered
    <2> QED BY Zenon, <1>7, <1>8, <1>10, <2>3, <2>5, <2>6
  <1>11. CASE seen = 1
    <2>1. ResultType[call[a].type] \in Kind /\ due[seen + 1] = ResultType[call[a].type]
      <3>1. ResultType[call[a].type] \in ResultKind /\ due[2] = ResultType[call[a].type]
        BY Zenon, <1>4, <1>7, <1>11
      <3>2. seen + 1 = 2
        BY <1>11
      <3> QED BY Zenon, <3>1, <3>2 DEF Kind
    <2>2. /\ frame.type = ResultType[call[a].type] /\ frame.of = own[a]
          /\ frame.type # "PONG" => frame.peer = own[a]
      <3> DEFINE kind == ResultType[call[a].type]
      <3> HIDE DEF kind
      <3>1. kind \in Kind /\ frame = Reply(Own(a), kind)
        BY Zenon, <1>7, <2>1 DEF kind
      <3>2. frame.type = kind /\ frame.of = own[a] /\ (kind # "PONG" => frame.peer = own[a])
        BY Zenon, <1>5, <3>1, ReplyTyped
      <3> QED BY Zenon, <3>2 DEF kind
    <2>3. Matches(call[a], frame)
      BY Zenon, <1>0, <1>7, <2>1, OwnResultMatches DEF Own
    <2>4. frame.type # "ACK" /\ frame # NoFrame
      <3>1. frame.type \in ResultKind
        BY Zenon, <1>4, <2>2
      <3> QED BY Zenon, <3>1, ResultKinds
    <2>5. acked = own[a] /\ got = frame /\ useful /\ Both(acked, got)
      <3>1. ack[a] = own[a] /\ own[a] # 0
        <4>1. own[a] # 0
          BY <1>0
        <4> QED BY Zenon, <1>7, <1>11, <4>1
      <3>2. acked = ack[a] /\ got = frame /\ useful
        BY Zenon, <2>3, <2>4
      <3> QED BY Zenon, <2>4, <3>1, <3>2 DEF Both
    <2>6. SameRequest(call[a], acked, got)
      <3>1. call[a].type # "PING" => ResultType[call[a].type] # "PONG"
        BY Zenon, <1>0, ResultKinds
      <3> QED BY Zenon, <2>2, <2>5, <3>1 DEF SameRequest
    <2>7. \E class \in Answered : Return(a, class, own[a], frame)
      BY Zenon, <1>2, <2>5, <2>6
    <2>8. here + left = 1
      BY <1>6, <1>11
    <2>9. own[a] \in executed
      BY Zenon, <1>7, <1>11
    <2> QED BY Zenon, <1>8, <2>2, <2>7, <2>8, <2>9
  <1> QED BY Zenon, <1>6, <1>9, <1>10, <1>11

\* Without a timeout and without another reader, a session that lasts leaves the
\* agent no other way to fail.
LEMMA SingleAgent ==
  ASSUME GenuineInv, Ordered, NEW a \in Agent, active, setup.impatient = {},
         Single(a), AgentStep(a)
  PROVE  /\ Single(a)'
         /\ outcome'[a] = outcome[a] \/ /\ outcome'[a].class \in Answered =>
                                             /\ outcome'[a].of = outcome'[a].own
                                             /\ outcome'[a].ack = outcome'[a].own
  <1>0. ServiceTyped /\ AgentTyped /\ call[a] \in Caller
    BY ZenonT(30) DEF GenuineInv, AgentTyped
  <1>1. ASSUME NEW c \in Call, Open(a, c)
        PROVE  Single(a)' /\ outcome' = outcome
    <2>1. /\ UNCHANGED <<serviceVars, own, reader, ack, result, outcome>>
          /\ pc[a] = "idle" /\ pc'[a] = "opened" /\ call'[a] = c
      BY Zenon, <1>0, <1>1 DEF Open, AgentTyped
    <2> QED BY ZenonT(30), <2>1 DEF Single, Quiet, serviceVars
  <1>2. ASSUME NEW c \in Call PROVE ~OpenFails(a, c)
    BY Zenon DEF OpenFails
  <1>3. ASSUME Write(a)
        PROVE  Single(a)' /\ outcome' = outcome
    <2>1. /\ pc[a] = "opened" /\ Quiet /\ ack[a] = 0 /\ result[a] = NoFrame
          /\ reader \subseteq {a} /\ call[a] \in Call
          /\ outcome[a].class \in Answered <=> outcome[a].own \in executed
      BY ZenonT(30), <1>3 DEF Single, Write
    <2>2. /\ Len(to_cpu3') = 1
          /\ to_cpu3'[1] = [call |-> call[a], sequence |-> next_sequence + 1]
          /\ next_sequence' = next_sequence + 1
          /\ UNCHANGED <<to_linux, job, executed>>
      <3>1. LinuxSend(call[a]) /\ Len(to_cpu3) = 0
        BY Zenon, <1>3, <2>1 DEF Write, Quiet
      <3>2. /\ Len(to_cpu3') = 0 + 1
            /\ to_cpu3'[0 + 1] = [call |-> call[a], sequence |-> next_sequence + 1]
        BY Zenon, <1>0, <3>1, Sending
      <3>3. next_sequence' = next_sequence + 1 /\ UNCHANGED <<to_linux, job, executed>>
        BY Zenon, <3>1 DEF LinuxSend
      <3> QED BY <3>2, <3>3
    <2>3. /\ pc'[a] = "waiting" /\ own'[a] = next_sequence + 1 /\ call'[a] = call[a]
          /\ UNCHANGED <<reader, ack, result, outcome>>
      BY Zenon, <1>0, <1>3, <2>2 DEF Write, AgentTyped
    <2>4. /\ next_sequence + 1 \notin executed /\ next_sequence + 1 # outcome[a].own
          /\ next_sequence + 1 \in 1 .. next_sequence'
      <3>1. /\ executed \subseteq 1 .. next_sequence /\ next_sequence \in Nat
            /\ outcome[a].own <= next_sequence /\ next_sequence' = next_sequence + 1
        BY Zenon, <1>0, <2>2 DEF Ordered, ServiceTyped
      <3>2. outcome[a].own \in Nat
        BY Zenon, <1>0 DEF AgentTyped, Outcome
      <3> QED BY <3>1, <3>2
    <2>5. Requesting(a)'
      BY Zenon, <2>1, <2>2, <2>3, <2>4 DEF Requesting, Own, Quiet
    <2> QED BY ZenonT(30), <2>1, <2>2, <2>3, <2>4, <2>5 DEF Single
  <1>4. ~WriteFull(a)
    <2>1. pc[a] = "opened" => Len(to_cpu3) = 0
      BY Zenon DEF Single, Quiet
    <2> QED BY Zenon, <2>1, ServiceAssumption DEF WriteFull, LinuxSendFull
  <1>5. ~WriteOffline(a) /\ ~ReadOffline(a) /\ ~Timeout(a)
    BY Zenon DEF WriteOffline, ReadOffline, Timeout
  <1>6. ~PollError(a)
    <2>1. reader \in {{}, {a}}
      BY Zenon DEF Single
    <2> QED BY Zenon, <2>1 DEF PollError
  <1>7. ASSUME PollClaim(a) \/ PollIn(a)
        PROVE  Single(a)' /\ outcome' = outcome
    <2>1. /\ UNCHANGED <<serviceVars, call, own, ack, result, outcome>>
          /\ pc[a] = "waiting" /\ pc'[a] \in {"waiting", "readable"}
          /\ reader' \subseteq {a}
      BY ZenonT(30), <1>0, <1>7 DEF PollClaim, PollIn, AgentTyped, Single
    <2>2. UNCHANGED <<to_cpu3, to_linux, job, next_sequence, executed>>
      BY ZenonT(30), <2>1 DEF serviceVars
    <2>3. Requesting(a)' <=> Requesting(a)
      BY Zenon, <2>1, <2>2 DEF Requesting, Own
    <2>4. ASSUME Answering(a) PROVE Answering(a)'
      <3>1. /\ Own(a)' = Own(a) /\ Seen(a)' = Seen(a) /\ Due(call[a])' = Due(call[a])
            /\ UNCHANGED <<to_cpu3, to_linux, job, executed, ack, own, call>>
        BY Zenon, <2>1, <2>2 DEF Own, Seen
      <3>2. /\ (Len(to_cpu3) = 0)'
            /\ (Seen(a) + Len(to_linux) + Len(job.replies) \in 1 .. Len(Due(call[a])))'
        BY Zenon, <2>4, <3>1 DEF Answering
      <3>3. (Len(job.replies) > 0)' =>
              /\ (job.request = Own(a))'
              /\ (Seen(a) + Len(to_linux) + Len(job.replies) = Len(Due(call[a])))'
        BY Zenon, <2>4, <3>1 DEF Answering
      <3>4. (\A i \in 1 .. Len(to_linux) :
               to_linux[i] = Reply(Own(a), Due(call[a])[Seen(a) + i]))'
        BY Zenon, <2>4, <3>1 DEF Answering
      <3>5. (\A i \in 1 .. Len(job.replies) :
               job.replies[i] = Due(call[a])[Len(Due(call[a])) - Len(job.replies) + i])'
        BY Zenon, <2>4, <3>1 DEF Answering
      <3>6. /\ (ack[a] # 0 => call[a].valid /\ ack[a] = own[a])'
            /\ (call[a].valid <=> own[a] \in executed)'
        BY Zenon, <2>4, <3>1 DEF Answering
      <3> QED BY Zenon, <3>2, <3>3, <3>4, <3>5, <3>6 DEF Answering
    <2> QED BY ZenonT(30), <2>1, <2>2, <2>3, <2>4 DEF Single
  <1>8. CASE Read(a)
    BY Zenon, <1>8, SingleRead
  <1> QED BY ZenonT(30), <1>1, <1>2, <1>3, <1>4, <1>5, <1>6, <1>7, <1>8 DEF AgentStep

\* Once the session has ended no call succeeds any more.
LEMMA OfflineAgent ==
  ASSUME GenuineInv, NEW a \in Agent, ~active, AgentStep(a)
  PROVE  outcome'[a] = outcome[a] \/ outcome'[a].class \notin Answered
  <1>0. AgentTyped
    BY Zenon DEF GenuineInv
  <1>1. /\ \A c \in Call : ~Open(a, c)
        /\ ~Write(a) /\ ~WriteFull(a) /\ ~PollClaim(a) /\ ~PollIn(a) /\ ~Read(a)
    BY Zenon DEF Open, Write, LinuxSend, WriteFull, LinuxSendFull, PollClaim, PollIn, Read,
           LinuxReceive
  <1>2. ASSUME NEW c \in Call, OpenFails(a, c) PROVE outcome'[a].class \notin Answered
    BY Zenon, <1>0, <1>2 DEF OpenFails, AgentTyped, NoOutcome, Answered
  <1>3. ASSUME NEW class, class \notin Answered, Raise(a, class)
        PROVE  outcome'[a].class \notin Answered
    BY Zenon, <1>0, <1>3 DEF Raise, Return, AgentTyped
  <1>4. CASE WriteOffline(a) \/ PollError(a) \/ Timeout(a) \/ ReadOffline(a)
    BY Zenon, <1>3, <1>4 DEF WriteOffline, PollError, Timeout, ReadOffline, Answered
  <1> QED BY Zenon, <1>1, <1>2, <1>4 DEF AgentStep

\* A step of one agent leaves the outcome of the others alone.
LEMMA OneOutcome ==
  ASSUME GenuineInv, NEW a \in Agent, AgentStep(a), NEW b \in Agent, b # a
  PROVE  outcome'[b] = outcome[b]
  <1>0. AgentTyped
    BY Zenon DEF GenuineInv
  <1>1. ASSUME NEW class, NEW last, NEW f, Return(a, class, last, f)
        PROVE  outcome'[b] = outcome[b]
    BY Zenon, <1>0, <1>1 DEF Return, AgentTyped
  <1>2. ASSUME NEW c \in Call, OpenFails(a, c) PROVE outcome'[b] = outcome[b]
    BY Zenon, <1>0, <1>2 DEF OpenFails, AgentTyped
  <1>3. \/ outcome' = outcome \/ (\E c \in Call : OpenFails(a, c))
        \/ \E class, last, f : Return(a, class, last, f)
    BY Zenon DEF AgentStep, Open, Write, WriteFull, WriteOffline, PollClaim, PollIn, PollError,
           Timeout, ReadOffline, Read, Raise
  <1> QED BY Zenon, <1>1, <1>2, <1>3

LEMMA AloneAtStart == Init => AloneInv
  <1> SUFFICES ASSUME Init PROVE AloneInv
    BY Zenon
  <1>1. GenuineInv
    BY Zenon, GenuineAtStart
  <1>2. /\ Len(to_cpu3) = 0 /\ Len(to_linux) = 0 /\ next_sequence = 0 /\ executed = {}
        /\ Len(job.replies) = 0 /\ reader = {}
    BY Zenon DEF Init, ServiceInit
  <1>3. /\ NoOutcome.class = "none" /\ NoOutcome.own = 0 /\ "none" \notin Answered
    BY Zenon DEF NoOutcome, Answered
  <1>4. \A a \in Agent : /\ pc[a] = "idle" /\ own[a] = 0 /\ ack[a] = 0
                         /\ result[a] = NoFrame /\ outcome[a] = NoOutcome
    BY Zenon DEF Init
  <1>5. Ordered
    BY <1>2, <1>3, <1>4 DEF Ordered
  <1>6. AcceptedIsOwn
    BY Zenon, <1>3, <1>4 DEF AcceptedIsOwn
  <1>7. setup.agents \subseteq Agent
    BY Zenon, <1>1, AgentAssumption DEF GenuineInv, AgentTyped
  <1>8. \A a \in setup.agents : Single(a)
    BY Zenon, <1>2, <1>3, <1>4, <1>7 DEF Single, Quiet
  <1> QED BY Zenon, <1>1, <1>5, <1>6, <1>8 DEF AloneInv

LEMMA AloneStep == AloneInv /\ [Next]_vars => AloneInv'
  <1> SUFFICES ASSUME AloneInv, [Next]_vars PROVE AloneInv'
    BY Zenon
  <1>0. GenuineInv /\ GenuineInv' /\ Ordered /\ AcceptedIsOwn
    BY Zenon, GenuineStep DEF AloneInv
  <1>1. setup.agents \subseteq Agent
    BY Zenon, <1>0, AgentAssumption DEF GenuineInv, AgentTyped
  <1>2. ASSUME NEW a \in setup.agents, AgentStep(a) PROVE AloneInv'
    <2>1. Ordered'
      BY Zenon, <1>0, <1>2, OrderedAgent
    <2>2. setup' = setup /\ active' = active /\ a \in Agent
      BY ZenonT(30), <1>1, <1>2 DEF AgentStep, Open, OpenFails, Write, WriteFull, WriteOffline,
           PollClaim, PollIn, PollError, Timeout, ReadOffline, Read, Raise, Return,
           LinuxSend, LinuxSendFull, LinuxReceive, serviceVars
    <2>3. Alone' <=> Alone
      BY Zenon, <2>2 DEF Alone
    <2>4. ASSUME Alone PROVE setup.agents = {a} /\ setup.impatient = {}
      <3>1. PICK x : setup.agents = {x}
        BY Zenon, <2>4 DEF Alone
      <3> QED BY Zenon, <1>2, <2>4, <3>1 DEF Alone
    <2>5. ASSUME Alone
          PROVE  /\ active => Single(a)'
                 /\ outcome'[a] = outcome[a] \/ /\ outcome'[a].class \in Answered =>
                                                     /\ outcome'[a].of = outcome'[a].own
                                                     /\ outcome'[a].ack = outcome'[a].own
      <3>1. CASE active
        <4>1. Single(a)
          BY Zenon, <1>2, <2>5, <3>1 DEF AloneInv
        <4> QED BY <1>0, <1>2, <2>2, <2>4, <2>5, <3>1, <4>1, SingleAgent
      <3>2. CASE ~active
        BY Zenon, <1>0, <1>2, <2>2, <3>2, OfflineAgent
      <3> QED BY Zenon, <3>1, <3>2
    <2>6. \A b \in Agent : b # a => outcome'[b] = outcome[b]
      BY Zenon, <1>0, <1>2, <2>2, OneOutcome
    <2>7. AcceptedIsOwn'
      BY <1>0, <2>2, <2>3, <2>5, <2>6 DEF AcceptedIsOwn
    <2> QED BY Zenon, <1>0, <2>1, <2>2, <2>3, <2>4, <2>5, <2>7 DEF AloneInv
  <1>3. CASE Service
    <2>1. Ordered' /\ UNCHANGED agentVars
      BY Zenon, <1>0, <1>3, OrderedService DEF Service
    <2>2. (Alone' <=> Alone) /\ setup' = setup /\ outcome' = outcome
      BY Zenon, <2>1 DEF Alone, agentVars
    <2>3. active' => active
      BY Zenon, <1>3 DEF Service, Cpu3Next, Cpu3Serve, Cpu3Reply, Cpu3ReplyFull, SessionEnds
    <2>4. ASSUME Alone', active', NEW a \in setup.agents PROVE Single(a)'
      <3>1. Single(a) /\ a \in Agent
        BY Zenon, <1>1, <2>2, <2>3, <2>4 DEF AloneInv
      <3> QED BY Zenon, <1>0, <1>3, <2>4, <3>1, SingleService
    <2>5. AcceptedIsOwn'
      BY Zenon, <1>0, <2>2 DEF AcceptedIsOwn
    <2> QED BY Zenon, <1>0, <2>1, <2>2, <2>4, <2>5 DEF AloneInv
  <1>4. CASE UNCHANGED vars
    <2>1. UNCHANGED <<active, to_cpu3, to_linux, job, next_sequence, executed, setup, pc,
                      call, own, reader, ack, result, outcome>>
      BY Zenon, <1>4 DEF vars, serviceVars, agentVars
    <2>2. Ordered' /\ AcceptedIsOwn' /\ (Alone' <=> Alone)
      BY Zenon, <1>0, <2>1 DEF Ordered, AcceptedIsOwn, Alone
    <2>3. ASSUME NEW a PROVE Single(a)' <=> Single(a)
      <3>1. (Quiet' <=> Quiet) /\ Own(a)' = Own(a) /\ Seen(a)' = Seen(a)
        BY Zenon, <2>1 DEF Quiet, Own, Seen
      <3>2. Requesting(a)' <=> Requesting(a)
        BY Zenon, <2>1, <3>1 DEF Requesting
      <3>3. Answering(a)' <=> Answering(a)
        BY Zenon, <2>1, <3>1 DEF Answering
      <3> QED BY Zenon, <2>1, <3>1, <3>2, <3>3 DEF Single
    <2> QED BY Zenon, <1>0, <2>1, <2>2, <2>3 DEF AloneInv
  <1> QED BY Zenon, <1>2, <1>3, <1>4 DEF Next, Bounded

\* One agent that waits as long as it takes (no other agent on the device, no
\* timeout): the answer execute_zephyr_* returns and its ACK are those of the
\* agent's own request, because no call leaves a frame behind for the next.
THEOREM AcceptedOwn == Spec => []AcceptedIsOwn
  <1>1. AloneInv => AcceptedIsOwn
    BY Zenon DEF AloneInv
  <1> QED BY <1>1, AloneAtStart, AloneStep, PTL DEF Spec

\* And while the session lasts, the class with which a call of such an agent ends
\* tells whether CPU3 has acted on the request: it has when the agent returns or
\* raises the status of the result, and has not when it raises anything else.
THEOREM EffectKnown == Spec => []ClassTellsEffect
  <1>1. AloneInv => ClassTellsEffect
    <2>1. NoOutcome.class \notin Answered /\ NoOutcome.own = 0
      BY Zenon DEF NoOutcome, Answered
    <2>2. AloneInv => 0 \notin executed
      BY DEF AloneInv, Ordered, GenuineInv, ServiceTyped
    <2> QED BY Zenon, <2>1, <2>2 DEF AloneInv, ClassTellsEffect, Single, Ordered
  <1> QED BY <1>1, AloneAtStart, AloneStep, PTL DEF Spec
=============================================================================
