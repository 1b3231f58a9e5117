--------------------------- MODULE WindowBenchProofs ---------------------------
(***************************************************************************)
(* The verdict of the window benchmark means what the board tests take it  *)
(* to mean, for every ring size, window, number of requests and value      *)
(* width (WindowBench).                                                    *)
(***************************************************************************)
EXTENDS WindowBench, RequestServiceProofs

-----------------------------------------------------------------------------
(* The window benchmark: success means that the requests were carried out *)

BenchTyped ==
  /\ ServiceTyped
  /\ reliable \in BOOLEAN /\ active \in BOOLEAN /\ fault \in BOOLEAN
  /\ window \in Windows /\ slots \in SUBSET Nat
  /\ outstanding \in Int /\ next_value \in Nat
  /\ write_ok \in Nat /\ acks \in Nat /\ pongs \in Nat

\* Every request is a PING the service accepts, and sequences grow along the
\* ring, beyond those carried out.
RequestsInOrder ==
  /\ \A i \in 1 .. Len(to_cpu3) :
       /\ to_cpu3[i].call = Ping(to_cpu3[i].call.arg)
       /\ to_cpu3[i].sequence <= next_sequence
       /\ \A e \in executed : e < to_cpu3[i].sequence
       /\ \A j \in 1 .. Len(to_cpu3) : i < j => to_cpu3[i].sequence < to_cpu3[j].sequence
  /\ \A e \in executed : e <= next_sequence

\* CPU3 serves a PING, and only the first reply still due can be its ACK.
ServesPing ==
  Len(job.replies) > 0 =>
    /\ job.request.call = Ping(job.request.call.arg)
    /\ job.request.sequence \in executed
    /\ \A i \in 1 .. Len(job.replies) :
         /\ job.replies[i] \in {"ACK", "PONG"}
         /\ i # 1 => job.replies[i] = "PONG"

\* The ACK of the request CPU3 serves is still to be sent.
AckDue == Len(job.replies) > 0 /\ job.replies[1] = "ACK"

\* ACKs come in the order of the requests.
AcksInOrder ==
  \A i \in 1 .. Len(to_linux) :
    /\ to_linux[i].type \in {"ACK", "PONG"} /\ to_linux[i].of \in executed
    /\ AckDue => to_linux[i].of < job.request.sequence
    /\ \A j \in 1 .. Len(to_linux) :
         i < j /\ to_linux[j].type = "ACK" => to_linux[i].of < to_linux[j].of

\* The requests carried out whose ACK is not under way any more.
Behind ==
  {e \in executed :
     /\ \A i \in 1 .. Len(to_linux) : to_linux[i].type = "ACK" => e < to_linux[i].of
     /\ AckDue => e < job.request.sequence}

PingInv ==
  /\ RequestsInOrder /\ ServesPing /\ AcksInOrder
  /\ IsFiniteSet(executed) /\ Cardinality(executed) + Len(to_cpu3) = write_ok
  /\ acks <= Cardinality(Behind)

LEMMA PingReplies ==
  ASSUME NEW v \in Nat, reliable \in BOOLEAN
  PROVE  /\ Ping(v) \in Caller /\ Ping(v).arg = v /\ Ping(v).valid /\ Ping(v).type = "PING"
         /\ Replies(Ping(v)) \in Seq(Kind)
         /\ reliable => /\ Len(Replies(Ping(v))) = 2
                        /\ Replies(Ping(v))[1] = "ACK" /\ Replies(Ping(v))[2] = "PONG"
         /\ ~reliable => Len(Replies(Ping(v))) = 1 /\ Replies(Ping(v))[1] = "PONG"
  <1>1. /\ Ping(v) \in Caller /\ Ping(v).arg = v /\ Ping(v).valid /\ Ping(v).type = "PING"
    BY Zenon DEF Ping, Caller, ResultType, Status
  <1>2. ResultType[Ping(v).type] = "PONG"
    BY <1>1 DEF ResultType
  <1> QED BY ZenonT(30), <1>1, <1>2, RepliesDue

LEMMA BenchTypedStep ==
  ASSUME BenchTyped, [BenchNext]_windowVars
  PROVE  BenchTyped'
  <1>0. ServiceTyped /\ reliable \in BOOLEAN
    BY Zenon DEF BenchTyped
  <1>1. CASE FillWrite
    <2>1. Ping(next_value) \in Caller
      BY Zenon, <1>0, PingReplies DEF BenchTyped
    <2>2. ServiceTyped' /\ UNCHANGED <<reliable, active>>
      BY Zenon, <1>0, <1>1, <2>1, Sending DEF FillWrite, LinuxSend
    <2>3. (next_value + 1) % Modulus \in Nat
      BY ServiceAssumption DEF BenchTyped
    <2> QED BY <1>1, <2>2, <2>3 DEF FillWrite, BenchTyped, clockVars
  <1>2. CASE FillFull
    <2>1. ServiceTyped' /\ UNCHANGED <<reliable, active>>
      BY Zenon, <1>0, <1>2, SendingFull DEF FillFull, LinuxSendFull
    <2> QED BY Zenon, <1>2, <2>1 DEF FillFull, BenchTyped, clockVars, countVars
  <1>3. CASE ReadFrame
    <2>1. ServiceTyped' /\ UNCHANGED <<reliable, active>>
      BY Zenon, <1>0, <1>3, Receives DEF ReadFrame, LinuxReceive
    <2>2. UNCHANGED <<next_value, write_ok, window>> /\ fault' \in BOOLEAN
      BY Zenon, <1>3 DEF ReadFrame, clockVars
    <2>3. acks' \in Nat /\ pongs' \in Nat /\ outstanding' \in Int /\ slots' \in SUBSET Nat
      <3>1. /\ acks' \in {acks, acks + 1} /\ pongs' \in {pongs, pongs + 1}
            /\ outstanding' \in {outstanding, outstanding - 1} /\ slots' \subseteq slots
        BY Zenon, <1>3 DEF ReadFrame
      <3> QED BY <3>1 DEF BenchTyped
    <2> QED BY Zenon, <2>1, <2>2, <2>3 DEF BenchTyped
  <1>4. CASE BenchService
    <2>1. ServiceTyped' /\ active' \in BOOLEAN /\ reliable' = reliable
      BY ZenonT(30), <1>0, <1>4, Serves, Replying, Refusing, Ending
      DEF BenchService, Cpu3Next, Cpu3Serve, Cpu3Reply, Cpu3ReplyFull, SessionEnds, BenchTyped
    <2> QED BY Zenon, <1>4, <2>1 DEF BenchService, BenchTyped, benchVars, clockVars, countVars
  <1>5. CASE \/ Top \/ FillOffline \/ FillDone \/ Poll \/ ReadNothing \/ Drain \/ DrainEnds
             \/ DeadlinePasses \/ DrainDeadlinePasses \/ UNCHANGED windowVars
    <2>1. UNCHANGED <<serviceVars, countVars, next_value, write_ok, window>>
      BY Zenon, <1>5 DEF Top, FillOffline, FillDone, Poll, ReadNothing, Drain, DrainEnds,
           DeadlinePasses, DrainDeadlinePasses, clockVars, windowVars
    <2>2. ServiceTyped' /\ UNCHANGED <<reliable, active>>
      BY Zenon, <1>0, <2>1 DEF serviceVars, ServiceTyped
    <2>3. fault' = fault \/ fault' = TRUE \/ fault' = (fault \/ ~active)
      BY Zenon, <1>5 DEF Top, FillOffline, FillDone, Poll, ReadNothing, Drain, DrainEnds,
           DeadlinePasses, DrainDeadlinePasses, windowVars
    <2>4. fault' \in BOOLEAN
      BY Zenon, <2>3 DEF BenchTyped
    <2> QED BY Zenon, <2>1, <2>2, <2>4 DEF BenchTyped, countVars
  <1> QED BY <1>1, <1>2, <1>3, <1>4, <1>5 DEF BenchNext, Bench, Done

\* Most steps of the benchmark leave the service, the requests and the ACKs alone.
LEMMA BenchQuiet ==
  ASSUME \/ Top \/ FillOffline \/ FillDone \/ Poll \/ ReadNothing \/ Drain \/ DrainEnds
         \/ DeadlinePasses \/ DrainDeadlinePasses \/ UNCHANGED windowVars
  PROVE  /\ UNCHANGED <<reliable, active, to_cpu3, to_linux, next_sequence, job>>
         /\ UNCHANGED <<tx_full_count, executed, slots, outstanding, acks, pongs>>
         /\ UNCHANGED <<next_value, write_ok, window>>
  BY Zenon DEF Top, FillOffline, FillDone, Poll, ReadNothing, Drain, DrainEnds,
         DeadlinePasses, DrainDeadlinePasses, windowVars, clockVars, countVars, serviceVars

LEMMA BenchCases ==
  ASSUME [BenchNext]_windowVars
  PROVE  \/ FillWrite \/ FillFull \/ ReadFrame \/ BenchService
         \/ Top \/ FillOffline \/ FillDone \/ Poll \/ ReadNothing \/ Drain \/ DrainEnds
         \/ DeadlinePasses \/ DrainDeadlinePasses \/ UNCHANGED windowVars
  BY Zenon DEF BenchNext, Bench, Done

-----------------------------------------------------------------------------
(* The window benchmark: a safe window loses no reply *)

\* Replies under way or due, in the order in which the benchmark reads them.
Coming == Len(to_linux) + Len(job.replies)

\* On a reliable priority, counted from the last one due, every other reply is a
\* PONG; on an unreliable one every reply is.
IsPong(i) == reliable => (Coming - i) % 2 = 0

\* Every outstanding request has room for its replies.
RoomInv ==
  /\ outstanding <= window
  /\ reliable => 2 * Len(to_cpu3) + Coming <= 2 * outstanding
  /\ ~reliable => Len(to_cpu3) + Coming <= outstanding
  /\ Len(job.replies) <= IF reliable THEN 2 ELSE 1
  /\ \A i \in 1 .. Len(to_linux) :
       to_linux[i].type = IF IsPong(i) THEN "PONG" ELSE "ACK"
  /\ \A i \in 1 .. Len(job.replies) :
       job.replies[i] = IF i = Len(job.replies) THEN "PONG" ELSE "ACK"

SafeInv ==
  /\ SafeWindow => tx_full_count = 0
  /\ SafeWindow /\ active => RoomInv

\* The numbers the arguments below are about.
LEMMA BenchNumbers ==
  ASSUME BenchTyped
  PROVE  /\ Len(to_cpu3) \in Nat /\ Len(to_linux) \in Nat /\ Len(job.replies) \in Nat
         /\ Coming = Len(to_linux) + Len(job.replies) /\ Coming \in Nat
         /\ outstanding \in Int /\ window \in Nat
  <1>1. to_cpu3 \in Seq(Queued) /\ to_linux \in Seq(Answer) /\ job.replies \in Seq(Kind)
    BY Zenon DEF BenchTyped, ServiceTyped
  <1>2. Len(to_cpu3) \in Nat /\ Len(to_linux) \in Nat /\ Len(job.replies) \in Nat
    BY <1>1
  <1>3. outstanding \in Int /\ window \in Nat
    BY WindowAssumption, ServiceAssumption DEF BenchTyped
  <1> QED BY <1>2, <1>3 DEF Coming

LEMMA OddRoom ==
  ASSUME NEW c \in Nat, NEW k \in Nat, NEW o \in Int, 2 * c + k <= 2 * o, (k - 1) % 2 = 0
  PROVE  2 * c + (k - 1) <= 2 * (o - 1)
  OBVIOUS

LEMMA RoomReceive ==
  ASSUME BenchTyped, BenchTyped', RoomInv, ReadFrame
  PROVE  RoomInv'
  <1>0. ServiceTyped /\ LinuxReceive
    BY Zenon DEF BenchTyped, ReadFrame
  <1>1. /\ UNCHANGED <<reliable, to_cpu3, job, window>>
        /\ Len(to_linux) > 0 /\ Head(to_linux) = to_linux[1]
        /\ Len(to_linux') = Len(to_linux) - 1
        /\ \A i \in 1 .. Len(to_linux') : to_linux'[i] = to_linux[i + 1]
        /\ \/ outstanding' = outstanding
           \/ outstanding' = outstanding - 1 /\ to_linux[1].type = "PONG"
    BY Zenon, <1>0, Receives DEF ReadFrame, LinuxReceive, clockVars
  <1> DEFINE c == Len(to_cpu3)
             l == Len(to_linux)
             k == Coming
  <1>2. /\ c \in Nat /\ l \in Nat /\ k \in Nat /\ outstanding \in Int /\ window \in Nat
        /\ k >= l /\ l >= 1 /\ Coming' = k - 1
        /\ Len(to_cpu3') = c /\ Len(to_linux') = l - 1 /\ outstanding' \in Int
    <2>1. /\ Len(to_linux) \in Nat /\ Len(job.replies) \in Nat
          /\ Coming = Len(to_linux) + Len(job.replies)
          /\ Coming' = Len(to_linux') + Len(job.replies)
      BY Zenon, <1>1, BenchNumbers DEF Coming
    <2> QED BY <1>1, <2>1, BenchNumbers
  <1>3. /\ outstanding <= window
        /\ reliable => 2 * c + k <= 2 * outstanding
        /\ ~reliable => c + k <= outstanding
        /\ reliable /\ to_linux[1].type = "PONG" => (k - 1) % 2 = 0
    <2>1. 1 \in 1 .. Len(to_linux)
      BY <1>2
    <2> QED BY Zenon, <2>1 DEF RoomInv, IsPong
  <1>4. ASSUME NEW i \in 1 .. l - 1
        PROVE  to_linux'[i].type = IF IsPong(i)' THEN "PONG" ELSE "ACK"
    <2>1. i + 1 \in 1 .. l /\ k - (i + 1) = (k - 1) - i
      BY <1>2
    <2>2. to_linux'[i] = to_linux[i + 1]
      BY Zenon, <1>1, <1>2
    <2>3. IsPong(i)' <=> IsPong(i + 1)
      BY Zenon, <1>1, <1>2, <2>1 DEF IsPong
    <2> QED BY Zenon, <2>1, <2>2, <2>3 DEF RoomInv
  <1> HIDE DEF c, l, k
  <1>5. outstanding' <= window
    BY <1>1, <1>2, <1>3
  <1>6. ASSUME reliable PROVE 2 * c + (k - 1) <= 2 * outstanding'
    <2>1. 2 * c + k <= 2 * outstanding /\ (to_linux[1].type = "PONG" => (k - 1) % 2 = 0)
      BY Zenon, <1>3, <1>6
    <2>2. CASE outstanding' = outstanding
      BY <1>2, <2>1, <2>2
    <2>3. CASE outstanding' = outstanding - 1 /\ to_linux[1].type = "PONG"
      BY Zenon, <1>2, <2>1, <2>3, OddRoom
    <2> QED BY Zenon, <1>1, <2>2, <2>3
  <1>7. ~reliable => c + (k - 1) <= outstanding'
    BY <1>1, <1>2, <1>3
  <1> QED BY ZenonT(30), <1>1, <1>2, <1>4, <1>5, <1>6, <1>7 DEF RoomInv

LEMMA RoomSend ==
  ASSUME BenchTyped, RoomInv, FillWrite \/ FillFull
  PROVE  RoomInv'
  <1>0. ServiceTyped /\ next_value \in Nat /\ reliable \in BOOLEAN
    BY Zenon DEF BenchTyped
  <1>1. UNCHANGED <<reliable, to_linux, job, window>>
    BY Zenon DEF FillWrite, FillFull, LinuxSend, LinuxSendFull, clockVars
  <1>2. Coming' = Coming /\ \A i \in 1 .. Len(to_linux) : IsPong(i)' <=> IsPong(i)
    BY Zenon, <1>1 DEF Coming, IsPong
  <1>3. \/ UNCHANGED <<to_cpu3, outstanding>>
        \/ /\ Len(to_cpu3') = Len(to_cpu3) + 1 /\ outstanding' = outstanding + 1
           /\ outstanding < window
    <2>1. CASE FillWrite
      <3>1. Ping(next_value) \in Caller
        BY Zenon, <1>0, PingReplies
      <3> QED BY Zenon, <1>0, <2>1, <3>1, Sending DEF FillWrite, HasFreeSlot
    <2>2. CASE FillFull
      BY Zenon, <2>2 DEF FillFull, LinuxSendFull, countVars
    <2> QED BY Zenon, <2>1, <2>2
  <1> DEFINE c == Len(to_cpu3)
             k == Coming
  <1>4. c \in Nat /\ k \in Nat /\ outstanding \in Int /\ window \in Nat
    BY Zenon, BenchNumbers
  <1>5. /\ outstanding <= window
        /\ reliable => 2 * c + k <= 2 * outstanding
        /\ ~reliable => c + k <= outstanding
    BY Zenon DEF RoomInv
  <1>6. /\ outstanding' <= window
        /\ reliable => 2 * Len(to_cpu3') + k <= 2 * outstanding'
        /\ ~reliable => Len(to_cpu3') + k <= outstanding'
    <2>1. CASE UNCHANGED <<to_cpu3, outstanding>>
      BY Zenon, <1>5, <2>1
    <2>2. CASE /\ Len(to_cpu3') = c + 1 /\ outstanding' = outstanding + 1
               /\ outstanding < window
      <3> HIDE DEF c, k
      <3> QED BY <1>4, <1>5, <2>2
    <2> QED BY Zenon, <1>3, <2>1, <2>2
  <1> QED BY Zenon, <1>1, <1>2, <1>6 DEF RoomInv

LEMMA RoomServe ==
  ASSUME BenchTyped, PingInv, RoomInv, Cpu3Serve, UNCHANGED benchVars
  PROVE  RoomInv'
  <1> DEFINE r == to_cpu3[1]
             c == Len(to_cpu3)
             k == Coming
  <1>0. ServiceTyped /\ reliable \in BOOLEAN /\ to_cpu3 \in Seq(Queued)
    BY Zenon DEF BenchTyped, ServiceTyped
  <1>1. /\ c > 0 /\ r \in Queued /\ job'.replies = Replies(r.call)
        /\ Len(to_cpu3') = c - 1 /\ Len(job.replies) = 0
        /\ UNCHANGED <<reliable, to_linux, outstanding, window>>
    BY Zenon, <1>0, Serves DEF Cpu3Serve, benchVars, countVars, clockVars
  <1>2. r.call = Ping(r.call.arg) /\ r.call.arg \in Nat
    <2>1. 1 \in 1 .. Len(to_cpu3)
      BY <1>0, <1>1
    <2> QED BY Zenon, <1>1, <2>1 DEF PingInv, RequestsInOrder, Queued, Caller
  <1>3. /\ reliable => /\ Len(job'.replies) = 2
                       /\ job'.replies[1] = "ACK" /\ job'.replies[2] = "PONG"
        /\ ~reliable => Len(job'.replies) = 1 /\ job'.replies[1] = "PONG"
    <2> DEFINE v == r.call.arg
    <2>1. job'.replies = Replies(Ping(v)) /\ v \in Nat
      BY Zenon, <1>1, <1>2
    <2> HIDE DEF v
    <2>2. /\ reliable => /\ Len(Replies(Ping(v))) = 2
                         /\ Replies(Ping(v))[1] = "ACK" /\ Replies(Ping(v))[2] = "PONG"
          /\ ~reliable => Len(Replies(Ping(v))) = 1 /\ Replies(Ping(v))[1] = "PONG"
      BY Zenon, <1>0, <2>1, PingReplies
    <2> QED BY Zenon, <2>1, <2>2
  <1>4. /\ c \in Nat /\ k \in Nat /\ outstanding \in Int /\ window \in Nat
        /\ k = Len(to_linux) /\ Len(to_linux) \in Nat
        /\ outstanding <= window
        /\ reliable => 2 * c + k <= 2 * outstanding
        /\ ~reliable => c + k <= outstanding
    BY <1>1, BenchNumbers DEF RoomInv
  <1>5. Coming' = IF reliable THEN k + 2 ELSE k + 1
    BY Zenon, <1>1, <1>3, <1>4 DEF Coming
  <1>6. ASSUME NEW i \in 1 .. Len(to_linux)
        PROVE  IsPong(i)' <=> IsPong(i)
    <2>1. ((k + 2) - i) % 2 = (k - i) % 2
      <3> HIDE DEF k
      <3> QED BY <1>4
    <2> QED BY Zenon, <1>1, <1>5, <2>1 DEF IsPong
  <1> HIDE DEF c, k, r
  <1>7. /\ reliable => 2 * (c - 1) + (k + 2) <= 2 * outstanding
        /\ ~reliable => (c - 1) + (k + 1) <= outstanding
    BY <1>4
  <1>8. /\ \A i \in 1 .. Len(job'.replies) :
             job'.replies[i] = IF i = Len(job'.replies) THEN "PONG" ELSE "ACK"
        /\ Len(job'.replies) <= IF reliable THEN 2 ELSE 1
    <2>1. CASE reliable
      <3>1. /\ Len(job'.replies) = 2
            /\ job'.replies[1] = "ACK" /\ job'.replies[2] = "PONG"
        BY Zenon, <1>3, <2>1
      <3> QED BY <2>1, <3>1
    <2>2. CASE ~reliable
      <3>1. Len(job'.replies) = 1 /\ job'.replies[1] = "PONG"
        BY Zenon, <1>3, <2>2
      <3> QED BY <2>2, <3>1
    <2> QED BY Zenon, <2>1, <2>2
  <1> QED BY ZenonT(30), <1>1, <1>4, <1>5, <1>6, <1>7, <1>8 DEF RoomInv

LEMMA RoomReply ==
  ASSUME BenchTyped, RoomInv, Cpu3Reply, UNCHANGED benchVars
  PROVE  RoomInv'
  <1> DEFINE l == Len(to_linux)
             n == Len(job.replies)
  <1>0. ServiceTyped /\ reliable \in BOOLEAN
    BY Zenon DEF BenchTyped
  <1>1. /\ n > 0 /\ job.replies[1] \in Kind /\ job.request \in Queued
        /\ Len(to_linux') = l + 1
        /\ to_linux'[l + 1] = Reply(job.request, job.replies[1])
        /\ \A i \in 1 .. l : to_linux'[i] = to_linux[i]
        /\ Len(job'.replies) = n - 1
        /\ \A i \in 1 .. Len(job'.replies) : job'.replies[i] = job.replies[i + 1]
        /\ UNCHANGED <<reliable, to_cpu3, outstanding, window>>
    BY Zenon, <1>0, Replying DEF Cpu3Reply, benchVars, countVars, clockVars
  <1>2. /\ l \in Nat /\ n \in Nat /\ Coming = l + n
        /\ n <= IF reliable THEN 2 ELSE 1
    BY Zenon, BenchNumbers DEF RoomInv
  <1>3. Coming' = Coming
    <2>1. Coming' = (l + 1) + (n - 1)
      BY Zenon, <1>1 DEF Coming
    <2> HIDE DEF l, n
    <2> QED BY <1>2, <2>1
  <1>4. \A i \in Int : IsPong(i)' <=> IsPong(i)
    BY Zenon, <1>1, <1>3 DEF IsPong
  <1>5. to_linux'[l + 1].type = IF IsPong(l + 1) THEN "PONG" ELSE "ACK"
    <2>1. to_linux'[l + 1].type = IF 1 = n THEN "PONG" ELSE "ACK"
      <3>1. 1 \in 1 .. Len(job.replies)
        BY <1>1, <1>2
      <3>2. job.replies[1] = IF 1 = n THEN "PONG" ELSE "ACK"
        BY ZenonT(30), <3>1 DEF RoomInv
      <3> QED BY <1>1, <3>2, ReplyTyped
    <2> HIDE DEF l, n
    <2>2. (l + n) - (l + 1) = n - 1
      BY <1>2
    <2>3. IsPong(l + 1) <=> (reliable => (n - 1) % 2 = 0)
      BY Zenon, <1>2, <2>2 DEF IsPong
    <2>4. n = 1 \/ (n = 2 /\ reliable)
      BY <1>0, <1>1, <1>2
    <2> QED BY <2>1, <2>3, <2>4
  <1>6. ASSUME NEW i \in 1 .. l + 1
        PROVE  to_linux'[i].type = IF IsPong(i)' THEN "PONG" ELSE "ACK"
    <2>1. CASE i \in 1 .. l
      BY <1>1, <1>4, <2>1 DEF RoomInv
    <2>2. CASE i = l + 1
      BY <1>2, <1>4, <1>5, <2>2
    <2> QED BY <1>2, <2>1, <2>2
  <1>7. ASSUME NEW i \in 1 .. n - 1
        PROVE  job'.replies[i] = IF i = n - 1 THEN "PONG" ELSE "ACK"
    <2>1. i + 1 \in 1 .. n /\ (i + 1 = n <=> i = n - 1)
      BY <1>2
    <2> QED BY Zenon, <1>1, <2>1 DEF RoomInv
  <1>8. n - 1 <= IF reliable THEN 2 ELSE 1
    BY <1>2
  <1> QED BY Zenon, <1>1, <1>3, <1>6, <1>7, <1>8 DEF RoomInv

\* No reply of a safe window finds the ring full.
LEMMA RoomLeft ==
  ASSUME BenchTyped, RoomInv, SafeWindow
  PROVE  ~Cpu3ReplyFull
  <1> SUFFICES ASSUME Cpu3ReplyFull PROVE FALSE
    BY Zenon
  <1> DEFINE c == Len(to_cpu3)
             l == Len(to_linux)
             n == Len(job.replies)
  <1>1. l = Capacity /\ n > 0
    BY Zenon, Refusing DEF Cpu3ReplyFull, BenchTyped
  <1>2. /\ c \in Nat /\ l \in Nat /\ n \in Nat /\ Coming = l + n /\ outstanding \in Int
        /\ window \in Nat /\ Capacity \in Nat /\ outstanding <= window
        /\ reliable => 2 * c + (l + n) <= 2 * outstanding
        /\ ~reliable => c + (l + n) <= outstanding
    BY Zenon, BenchNumbers, ServiceAssumption DEF RoomInv
  <1>3. /\ reliable => 2 * window <= Capacity
        /\ ~reliable => 1 * window <= Capacity
    BY Zenon DEF SafeWindow, FramesPerRequest
  <1> HIDE DEF c, l, n
  <1>4. CASE reliable
    BY <1>1, <1>2, <1>3, <1>4
  <1>5. CASE ~reliable
    BY <1>1, <1>2, <1>3, <1>5
  <1> QED BY Zenon, <1>4, <1>5

LEMMA SafeStep ==
  ASSUME BenchTyped, BenchTyped', PingInv, SafeInv, [BenchNext]_windowVars
  PROVE  SafeInv'
  <1>1. CASE \/ Top \/ FillOffline \/ FillDone \/ Poll \/ ReadNothing \/ Drain \/ DrainEnds
             \/ DeadlinePasses \/ DrainDeadlinePasses \/ UNCHANGED windowVars
    <2>1. UNCHANGED <<reliable, active, to_cpu3, to_linux, job, tx_full_count, outstanding,
                      window>>
      BY Zenon, <1>1, BenchQuiet
    <2> QED BY Zenon, <2>1 DEF SafeInv, SafeWindow, FramesPerRequest, RoomInv, IsPong, Coming
  <1>2. CASE FillWrite \/ FillFull \/ ReadFrame
    <2>1. UNCHANGED <<reliable, active, tx_full_count, window>>
      BY Zenon, <1>2 DEF FillWrite, FillFull, ReadFrame, LinuxSend, LinuxSendFull, LinuxReceive,
           clockVars
    <2>2. RoomInv => RoomInv'
      BY Zenon, <1>2, RoomSend, RoomReceive
    <2> QED BY Zenon, <2>1, <2>2 DEF SafeInv, SafeWindow, FramesPerRequest
  <1>3. CASE BenchService
    <2>1. UNCHANGED <<reliable, window, benchVars>> /\ Cpu3Next
      BY Zenon, <1>3 DEF BenchService, benchVars, clockVars, Cpu3Next, Cpu3Serve, Cpu3Reply,
           Cpu3ReplyFull, SessionEnds
    <2>2. SafeWindow' <=> SafeWindow
      BY Zenon, <2>1 DEF SafeWindow, FramesPerRequest
    <2>3. CASE Cpu3Serve \/ Cpu3Reply
      <3>1. UNCHANGED <<active, tx_full_count>>
        BY Zenon, <2>3 DEF Cpu3Serve, Cpu3Reply
      <3>2. RoomInv => RoomInv'
        BY Zenon, <2>1, <2>3, RoomServe, RoomReply
      <3> QED BY Zenon, <2>2, <3>1, <3>2 DEF SafeInv
    <2>4. CASE Cpu3ReplyFull
      <3>1. ~SafeWindow
        BY Zenon, <2>4, RoomLeft DEF SafeInv, Cpu3ReplyFull
      <3> QED BY Zenon, <2>2, <3>1 DEF SafeInv
    <2>5. CASE SessionEnds
      BY Zenon, <2>2, <2>5 DEF SafeInv, SessionEnds
    <2> QED BY <2>1, <2>3, <2>4, <2>5 DEF Cpu3Next
  <1> QED BY Zenon, <1>1, <1>2, <1>3, BenchCases

-----------------------------------------------------------------------------
(* The window benchmark: a healthy run passes *)

\* Requests CPU3 has taken out of the ring.
Served == write_ok - Len(to_cpu3)

\* What the counters say about the replies that are coming.
CountInv ==
  /\ outstanding = write_ok - pongs
  /\ reliable => /\ 2 * outstanding = 2 * Len(to_cpu3) + Coming + (Coming % 2)
                 /\ 2 * (Served - acks) = Coming - (Coming % 2)
  /\ ~reliable => outstanding = Len(to_cpu3) + Coming

\* The values outstanding are the last ones written, and requests and PONGs carry
\* them in their order.
ValueInv ==
  /\ fault = FALSE /\ next_value = write_ok /\ slots = pongs .. write_ok - 1
  /\ CountInv
  /\ \A i \in 1 .. Len(to_cpu3) : to_cpu3[i].call.arg = Served + i - 1
  /\ Len(job.replies) > 0 => job.request.call.arg = Served - 1
  /\ \A i \in 1 .. Len(to_linux) :
       /\ reliable /\ (Coming - i) % 2 = 0 =>
            2 * to_linux[i].arg = 2 * Served - (Coming - i)
       /\ ~reliable => to_linux[i].arg = Served - (Coming - i)

HealthyInv ==
  /\ SafeWindow /\ active /\ write_ok < Modulus => ValueInv
  /\ phase = "done" /\ active /\ ~drain_expired => outstanding = 0

LEMMA ValueSend ==
  ASSUME BenchTyped, ValueInv, FillWrite, write_ok + 1 < Modulus
  PROVE  ValueInv'
  <1> DEFINE c == Len(to_cpu3)
             k == Coming
             w == write_ok
  <1>0. /\ ServiceTyped /\ next_value \in Nat /\ reliable \in BOOLEAN /\ w \in Nat
        /\ pongs \in Nat /\ acks \in Nat /\ c \in Nat /\ k \in Nat /\ outstanding \in Int
    BY Zenon, BenchNumbers DEF BenchTyped
  <1>1. Ping(next_value) \in Caller /\ Ping(next_value).arg = next_value
    BY Zenon, <1>0, PingReplies
  <1>2. /\ Len(to_cpu3') = c + 1
        /\ to_cpu3'[c + 1] = [call |-> Ping(next_value), sequence |-> next_sequence + 1]
        /\ \A i \in 1 .. c : to_cpu3'[i] = to_cpu3[i]
    BY Zenon, <1>0, <1>1, Sending DEF FillWrite
  <1>3. /\ UNCHANGED <<reliable, to_linux, job, fault, pongs, acks>>
        /\ write_ok' = w + 1 /\ outstanding' = outstanding + 1
        /\ next_value' = (next_value + 1) % Modulus /\ slots' = slots \cup {next_value}
    BY Zenon DEF FillWrite, LinuxSend
  <1>4. Coming' = k /\ Served' = Served /\ Served \in Int
    <2>1. (w + 1) - (c + 1) = w - c /\ w - c \in Int
      <3> HIDE DEF c, w
      <3> QED BY <1>0
    <2> QED BY Zenon, <1>2, <1>3, <2>1 DEF Coming, Served
  <1>5. next_value' = w + 1
    <2>1. (w + 1) % Modulus = w + 1
      BY <1>0, ServiceAssumption
    <2> QED BY Zenon, <1>3, <2>1 DEF ValueInv
  <1>6. /\ outstanding = w - pongs
        /\ reliable => 2 * outstanding = 2 * c + k + (k % 2)
        /\ ~reliable => outstanding = c + k
        /\ reliable => 2 * (Served - acks) = k - (k % 2)
    BY Zenon DEF ValueInv, CountInv
  <1>7. CountInv' /\ pongs <= w
    <2> HIDE DEF c, k, w
    <2>1. /\ outstanding + 1 = (w + 1) - pongs
          /\ reliable => 2 * (outstanding + 1) = 2 * (c + 1) + k + (k % 2)
          /\ ~reliable => outstanding + 1 = (c + 1) + k
      BY <1>0, <1>6
    <2>2. pongs <= w
      <3>1. CASE reliable
        BY <1>0, <1>6, <3>1
      <3>2. CASE ~reliable
        BY <1>0, <1>6, <3>2
      <3> QED BY Zenon, <3>1, <3>2
    <2> QED BY <1>2, <1>3, <1>4, <1>6, <2>1, <2>2 DEF CountInv
  <1>8. slots' = pongs' .. write_ok' - 1
    <2>1. slots = pongs .. w - 1 /\ next_value = w
      BY Zenon DEF ValueInv
    <2>2. (pongs .. w - 1) \cup {w} = pongs .. (w + 1) - 1
      <3> HIDE DEF w
      <3> QED BY <1>0, <1>7
    <2> QED BY Zenon, <1>3, <2>1, <2>2
  <1>9. ASSUME NEW i \in 1 .. c + 1
        PROVE  to_cpu3'[i].call.arg = Served + i - 1
    <2>1. CASE i \in 1 .. c
      BY ZenonT(30), <1>2, <2>1 DEF ValueInv
    <2>2. CASE i = c + 1
      <3>1. to_cpu3'[i].call.arg = next_value
        BY <1>1, <1>2, <2>2
      <3>2. (w - c) + (c + 1) - 1 = w
        <4> HIDE DEF w, c
        <4> QED BY <1>0
      <3> QED BY Zenon, <2>2, <3>1, <3>2 DEF ValueInv, Served
    <2> QED BY <1>0, <2>1, <2>2
  <1> QED BY Zenon, <1>2, <1>3, <1>4, <1>5, <1>7, <1>8, <1>9 DEF ValueInv

LEMMA ValueServe ==
  ASSUME BenchTyped, PingInv, RoomInv, ValueInv, Cpu3Serve, UNCHANGED benchVars
  PROVE  ValueInv'
  <1> DEFINE c == Len(to_cpu3)
             k == Coming
             w == write_ok
  <1>0. /\ ServiceTyped /\ reliable \in BOOLEAN /\ w \in Nat /\ to_cpu3 \in Seq(Queued)
        /\ pongs \in Nat /\ acks \in Nat /\ c \in Nat /\ k \in Nat /\ outstanding \in Int
    BY ZenonT(30), BenchNumbers DEF BenchTyped, ServiceTyped
  <1>1. /\ c > 0 /\ to_cpu3[1] \in Queued /\ job'.request = to_cpu3[1]
        /\ job'.replies = Replies(to_cpu3[1].call)
        /\ Len(to_cpu3') = c - 1 /\ Len(job.replies) = 0
        /\ \A i \in 1 .. Len(to_cpu3') : to_cpu3'[i] = to_cpu3[i + 1]
        /\ UNCHANGED <<reliable, to_linux, outstanding, pongs, acks>>
        /\ UNCHANGED <<fault, next_value, slots, write_ok>>
    BY ZenonT(30), <1>0, Serves DEF Cpu3Serve, benchVars, countVars, clockVars
  <1>2. 1 \in 1 .. c
    BY <1>0, <1>1
  <1>3. /\ reliable => Len(job'.replies) = 2
        /\ ~reliable => Len(job'.replies) = 1
    <2>1. to_cpu3[1].call = Ping(to_cpu3[1].call.arg) /\ to_cpu3[1].call.arg \in Nat
      BY ZenonT(30), <1>1, <1>2 DEF PingInv, RequestsInOrder, Queued, Caller
    <2> DEFINE ping == to_cpu3[1].call
               r == Replies(Ping(ping.arg))
    <2>2. (reliable => Len(r) = 2) /\ (~reliable => Len(r) = 1)
      BY ZenonT(30), <1>0, <2>1, PingReplies
    <2>3. job'.replies = r
      BY Zenon, <1>1, <2>1
    <2> HIDE DEF r
    <2> QED BY Zenon, <2>2, <2>3
  <1>4. k = Len(to_linux) /\ Len(to_linux) \in Nat
    BY <1>1, BenchNumbers
  <1>5. /\ reliable => Coming' = k + 2
        /\ ~reliable => Coming' = k + 1
    BY ZenonT(30), <1>1, <1>3, <1>4 DEF Coming
  <1>6. Served' = Served + 1 /\ Served \in Int
    <2>1. w - (c - 1) = (w - c) + 1 /\ w - c \in Int
      <3> HIDE DEF c, w
      <3> QED BY <1>0
    <2> QED BY Zenon, <1>1, <2>1 DEF Served
  <1> DEFINE v == Served
  <1>7. /\ outstanding = w - pongs
        /\ reliable => 2 * outstanding = 2 * c + k + (k % 2) /\ 2 * (v - acks) = k - (k % 2)
        /\ ~reliable => outstanding = c + k
    BY Zenon DEF ValueInv, CountInv
  <1>8. CountInv'
    <2> HIDE DEF c, k, w, v
    <2>1. ASSUME reliable
          PROVE  /\ 2 * outstanding = 2 * (c - 1) + (k + 2) + ((k + 2) % 2)
                 /\ 2 * ((v + 1) - acks) = (k + 2) - ((k + 2) % 2)
      <3>1. (k + 2) % 2 = k % 2
        BY <1>0
      <3>2. v \in Int /\ k % 2 \in Int
        BY <1>0, <1>6 DEF v
      <3> QED BY <1>0, <1>7, <2>1, <3>1, <3>2
    <2>2. ASSUME ~reliable PROVE outstanding = (c - 1) + (k + 1)
      BY <1>0, <1>7, <2>2
    <2>3. outstanding' = write_ok' - pongs'
      BY Zenon, <1>1, <1>7 DEF w
    <2>4. Len(to_cpu3') = c - 1 /\ Served' = v + 1
      BY Zenon, <1>1, <1>6 DEF v
    <2> QED BY <1>1, <1>5, <2>1, <2>2, <2>3, <2>4 DEF CountInv
  <1>9. ASSUME NEW i \in 1 .. Len(to_linux)
        PROVE  /\ reliable /\ (Coming' - i) % 2 = 0 =>
                    2 * to_linux[i].arg = 2 * Served' - (Coming' - i)
               /\ ~reliable => to_linux[i].arg = Served' - (Coming' - i)
    <2> DEFINE x == to_linux[i].arg
    <2>1. /\ reliable /\ (k - i) % 2 = 0 => 2 * x = 2 * v - (k - i)
          /\ ~reliable => x = v - (k - i)
      BY Zenon DEF ValueInv
    <2>2. /\ v \in Int /\ Served' = v + 1 /\ i \in Int
          /\ reliable => Coming' = k + 2
          /\ ~reliable => Coming' = k + 1
      BY <1>5, <1>6
    <2> HIDE DEF x, v, k
    <2>3. CASE reliable /\ (Coming' - i) % 2 = 0
      <3>1. ((k + 2) - i) % 2 = (k - i) % 2
        BY <1>0, <2>2
      <3>2. 2 * x = 2 * v - (k - i)
        BY <2>1, <2>2, <2>3, <3>1
      <3>3. 2 * v - (k - i) = 2 * (v + 1) - ((k + 2) - i)
        BY <1>0, <2>2
      <3> QED BY <2>2, <2>3, <3>2, <3>3 DEF x
    <2>4. CASE ~reliable
      <3>1. v - (k - i) = (v + 1) - ((k + 1) - i)
        BY <1>0, <2>2
      <3> QED BY <2>1, <2>2, <2>4, <3>1 DEF x
    <2> QED BY Zenon, <2>3, <2>4
  <1>10. ASSUME NEW i \in 1 .. Len(to_cpu3')
         PROVE  to_cpu3'[i].call.arg = Served' + i - 1
    <2>1. i + 1 \in 1 .. c /\ i \in Int
      BY <1>0, <1>1
    <2>2. to_cpu3'[i].call.arg = v + (i + 1) - 1
      BY Zenon, <1>1, <2>1 DEF ValueInv
    <2>3. v + (i + 1) - 1 = (v + 1) + i - 1
      <3> HIDE DEF v
      <3> QED BY <1>6, <2>1 DEF v
    <2> QED BY Zenon, <1>6, <2>2, <2>3
  <1>11. job'.request.call.arg = Served' - 1
    <2>1. to_cpu3[1].call.arg = v + 1 - 1
      BY Zenon, <1>2 DEF ValueInv
    <2> QED BY <1>1, <1>6, <2>1
  <1> QED BY ZenonT(30), <1>1, <1>8, <1>9, <1>10, <1>11 DEF ValueInv

LEMMA ValueReply ==
  ASSUME BenchTyped, PingInv, RoomInv, ValueInv, write_ok < Modulus,
         Cpu3Reply, UNCHANGED benchVars
  PROVE  ValueInv'
  <1> DEFINE l == Len(to_linux)
             n == Len(job.replies)
             k == Coming
             v == Served
             f == Reply(job.request, job.replies[1])
  <1>0. /\ ServiceTyped /\ reliable \in BOOLEAN /\ write_ok \in Nat /\ Len(to_cpu3) \in Nat
        /\ l \in Nat /\ n \in Nat /\ k = l + n
    BY Zenon, BenchNumbers DEF BenchTyped
  <1>1. /\ n > 0 /\ job.replies[1] \in Kind /\ job.request \in Queued
        /\ Len(to_linux') = l + 1 /\ to_linux'[l + 1] = f
        /\ \A i \in 1 .. l : to_linux'[i] = to_linux[i]
        /\ job'.request = job.request /\ Len(job'.replies) = n - 1
        /\ UNCHANGED <<reliable, to_cpu3, outstanding, pongs, acks>>
        /\ UNCHANGED <<fault, next_value, slots, write_ok>>
    BY Zenon, <1>0, Replying DEF Cpu3Reply, benchVars, countVars, clockVars
  <1>2. Coming' = k /\ Served' = v
    <2>1. (l + 1) + (n - 1) = l + n
      <3> HIDE DEF l, n
      <3> QED BY <1>0
    <2> QED BY ZenonT(30), <1>0, <1>1, <2>1 DEF Coming, Served
  <1>3. v \in Int /\ v <= write_ok
    <2> DEFINE c == Len(to_cpu3)
    <2>1. v = write_ok - c /\ c \in Nat
      BY Zenon, <1>0 DEF Served
    <2> HIDE DEF c, v
    <2> QED BY <1>0, <2>1
  <1>4. CountInv'
    BY Zenon, <1>1, <1>2 DEF ValueInv, CountInv
  <1>5. job.request.call.arg = v - 1 /\ job.request.call.arg \in Nat
    BY ZenonT(30), <1>1 DEF ValueInv, Queued, Caller
  <1>6. /\ n = 1 => job.replies[1] = "PONG"
        /\ n = 1 \/ (n = 2 /\ reliable)
    <2>1. 1 \in 1 .. Len(job.replies)
      BY <1>0, <1>1
    <2>2. n <= IF reliable THEN 2 ELSE 1
      BY ZenonT(30) DEF RoomInv
    <2>3. n = 1 \/ (n = 2 /\ reliable)
      <3> HIDE DEF n
      <3> QED BY <1>0, <1>1, <2>2
    <2> QED BY Zenon, <2>1, <2>3 DEF RoomInv
  <1>7. n = 1 => f.arg = v
    <2>1. ASSUME n = 1 PROVE f.arg = (job.request.call.arg + 1) % Modulus
      BY <1>1, <1>6, <2>1, ReplyTyped
    <2>2. (job.request.call.arg + 1) % Modulus = v
      <3>1. ((v - 1) + 1) % Modulus = v
        <4> HIDE DEF v
        <4> QED BY <1>0, <1>3, <1>5, ServiceAssumption
      <3> QED BY Zenon, <1>5, <3>1
    <2> QED BY Zenon, <2>1, <2>2
  <1>8. ASSUME NEW i \in 1 .. l + 1
        PROVE  /\ reliable /\ (k - i) % 2 = 0 => 2 * to_linux'[i].arg = 2 * v - (k - i)
               /\ ~reliable => to_linux'[i].arg = v - (k - i)
    <2>1. CASE i \in 1 .. l
      BY Zenon, <1>1, <2>1 DEF ValueInv
    <2>2. CASE i = l + 1
      <3>1. k - i = n - 1
        <4> HIDE DEF k, l, n
        <4> QED BY <1>0, <2>2
      <3>2. CASE n = 1
        <4>1. to_linux'[i].arg = v /\ k - i = 0
          BY <1>1, <1>7, <2>2, <3>1, <3>2
        <4> HIDE DEF k, v
        <4> QED BY <1>3, <4>1
      <3>3. CASE n = 2 /\ reliable
        <4>1. k - i = 1 /\ (k - i) % 2 # 0
          <5> HIDE DEF k, n
          <5> QED BY <3>1, <3>3
        <4> QED BY Zenon, <3>3, <4>1
      <3> QED BY <1>6, <3>2, <3>3
    <2> QED BY <1>0, <2>1, <2>2
  <1>9. \A i \in 1 .. Len(to_cpu3') : to_cpu3'[i].call.arg = Served' + i - 1
    BY Zenon, <1>1, <1>2 DEF ValueInv
  <1>10. job'.request.call.arg = Served' - 1
    BY Zenon, <1>1, <1>2, <1>5
  <1>11. fault' = FALSE /\ next_value' = write_ok' /\ slots' = pongs' .. write_ok' - 1
    BY ZenonT(30), <1>1 DEF ValueInv
  <1>12. \A i \in 1 .. Len(to_linux') :
           /\ reliable' /\ (Coming' - i) % 2 = 0 =>
                2 * to_linux'[i].arg = 2 * Served' - (Coming' - i)
           /\ ~reliable' => to_linux'[i].arg = Served' - (Coming' - i)
    BY Zenon, <1>1, <1>2, <1>8
  <1> QED BY Zenon, <1>4, <1>9, <1>10, <1>11, <1>12 DEF ValueInv

\* The PONG the benchmark reads is that of the oldest value outstanding.
LEMMA ValueReceive ==
  ASSUME BenchTyped, BenchTyped', RoomInv, ValueInv, ReadFrame
  PROVE  ValueInv'
  <1> DEFINE frame == to_linux[1]
             c == Len(to_cpu3)
             l == Len(to_linux)
             k == Coming
             v == Served
             w == write_ok
             x == frame.arg
             found == frame.type = "PONG" /\ x # 0 /\ x - 1 \in slots
  <1>0. /\ ServiceTyped /\ LinuxReceive /\ reliable \in BOOLEAN /\ w \in Nat
        /\ pongs \in Nat /\ acks \in Nat /\ outstanding \in Int /\ fault = FALSE
    BY ZenonT(30), BenchNumbers DEF BenchTyped, ReadFrame, ValueInv
  <1>1. /\ Len(to_linux') = l - 1 /\ Head(to_linux) = frame /\ frame \in Answer
        /\ \A i \in 1 .. Len(to_linux') : to_linux'[i] = to_linux[i + 1]
        /\ UNCHANGED <<reliable, to_cpu3, job, next_value, write_ok>>
        /\ l > 0
    BY Zenon, <1>0, Receives DEF ReadFrame, LinuxReceive
  <1>2. /\ acks' = IF frame.type = "ACK" THEN acks + 1 ELSE acks
        /\ slots' = IF found THEN slots \ {x - 1} ELSE slots
        /\ outstanding' = IF found THEN outstanding - 1 ELSE outstanding
        /\ pongs' = IF found THEN pongs + 1 ELSE pongs
        /\ fault' = (fault \/ ~(found \/ frame.type = "ACK"))
    BY Zenon, <1>1 DEF ReadFrame
  <1>3. /\ c \in Nat /\ l \in Nat \ {0} /\ k \in Nat /\ k >= l /\ Coming' = k - 1
        /\ v \in Int /\ v = w - c /\ Served' = v /\ x \in Nat
    <2>1. /\ Len(to_linux) \in Nat /\ Len(job.replies) \in Nat /\ Len(to_cpu3) \in Nat
          /\ Coming = Len(to_linux) + Len(job.replies)
          /\ Coming' = Len(to_linux') + Len(job.replies)
      BY Zenon, <1>1, BenchNumbers DEF Coming
    <2>2. x \in Nat
      BY Zenon, <1>1 DEF Answer
    <2>3. v \in Int /\ v = w - c /\ Served' = v
      BY <1>0, <1>1, <2>1 DEF Served
    <2> QED BY <1>1, <2>1, <2>2, <2>3
  <1>4. /\ outstanding = w - pongs
        /\ reliable => 2 * outstanding = 2 * c + k + (k % 2) /\ 2 * (v - acks) = k - (k % 2)
        /\ ~reliable => outstanding = c + k
        /\ slots = pongs .. w - 1
    BY Zenon DEF ValueInv, CountInv
  <1>5. /\ frame.type = IF reliable => (k - 1) % 2 = 0 THEN "PONG" ELSE "ACK"
        /\ reliable /\ (k - 1) % 2 = 0 => 2 * x = 2 * v - (k - 1)
        /\ ~reliable => x = v - (k - 1)
    <2>1. 1 \in 1 .. Len(to_linux)
      BY <1>3
    <2> QED BY Zenon, <2>1 DEF RoomInv, IsPong, ValueInv
  <1>6. \A i \in 1 .. Len(to_linux') :
           /\ reliable' /\ (Coming' - i) % 2 = 0 =>
                2 * to_linux'[i].arg = 2 * Served' - (Coming' - i)
           /\ ~reliable' => to_linux'[i].arg = Served' - (Coming' - i)
    <2> TAKE i \in 1 .. Len(to_linux')
    <2>1. i + 1 \in 1 .. l /\ (k - 1) - i = k - (i + 1)
      BY <1>1, <1>3
    <2>2. /\ reliable /\ (k - (i + 1)) % 2 = 0 => 2 * to_linux[i + 1].arg = 2 * v - (k - (i + 1))
          /\ ~reliable => to_linux[i + 1].arg = v - (k - (i + 1))
      BY Zenon, <2>1 DEF ValueInv
    <2> QED BY Zenon, <1>1, <1>3, <2>1, <2>2
  <1>7. /\ \A i \in 1 .. Len(to_cpu3') : to_cpu3'[i].call.arg = Served' + i - 1
        /\ Len(job'.replies) > 0 => job'.request.call.arg = Served' - 1
        /\ next_value' = write_ok'
    BY Zenon, <1>1, <1>3 DEF ValueInv
  <1>8. CASE frame.type = "ACK"
    <2>1. reliable /\ (k - 1) % 2 # 0
      BY Zenon, <1>5, <1>8
    <2>2. /\ acks' = acks + 1 /\ UNCHANGED <<slots, outstanding, pongs>> /\ fault' = FALSE
      BY Zenon, <1>0, <1>2, <1>8
    <2> HIDE DEF frame, c, l, k, v, w, x, found
    <2>3. (k - 1) % 2 = 1 /\ k % 2 = 0
      BY <1>3, <2>1
    <2>4. /\ 2 * outstanding = 2 * c + (k - 1) + ((k - 1) % 2)
          /\ 2 * (v - (acks + 1)) = (k - 1) - ((k - 1) % 2)
      BY <1>0, <1>3, <1>4, <2>1, <2>3
    <2>5. CountInv'
      BY <1>1, <1>3, <1>4, <2>1, <2>2, <2>4 DEF CountInv, c, w
    <2>6. slots' = pongs' .. write_ok' - 1
      BY Zenon, <1>1, <1>4, <2>2 DEF w
    <2> QED BY ZenonT(30), <1>6, <1>7, <2>2, <2>5, <2>6 DEF ValueInv
  <1>9. CASE frame.type = "PONG"
    <2>1. reliable => (k - 1) % 2 = 0
      BY Zenon, <1>5, <1>9
    <2>2. x - 1 = pongs /\ pongs < w
      <3> HIDE DEF frame, c, l, k, v, w, x, found
      <3>1. CASE reliable
        <4>1. 2 * x = 2 * v - (k - 1) /\ k % 2 = 1
          BY <1>3, <1>5, <2>1, <3>1
        <4>2. 2 * outstanding = 2 * c + k + 1
          BY Zenon, <1>4, <3>1, <4>1
        <4> QED BY <1>0, <1>3, <1>4, <4>1, <4>2
      <3>2. CASE ~reliable
        BY <1>0, <1>3, <1>4, <1>5, <3>2
      <3> QED BY Zenon, <3>1, <3>2
    <2>3. found
      <3>1. x # 0 /\ x - 1 \in pongs .. w - 1
        <4> HIDE DEF x, w
        <4> QED BY <1>0, <1>3, <2>2
      <3> QED BY Zenon, <1>4, <1>9, <3>1
    <2>4. /\ acks' = acks /\ slots' = slots \ {pongs} /\ outstanding' = outstanding - 1
          /\ pongs' = pongs + 1 /\ fault' = FALSE
      BY Zenon, <1>0, <1>2, <1>9, <2>2, <2>3
    <2> HIDE DEF frame, c, l, k, v, w, x, found
    <2>5. slots' = pongs' .. write_ok' - 1
      <3>1. (pongs .. w - 1) \ {pongs} = (pongs + 1) .. w - 1
        BY <1>0
      <3> QED BY <1>1, <1>4, <2>4, <3>1 DEF w
    <2>6. ASSUME reliable
          PROVE  /\ 2 * (outstanding - 1) = 2 * c + (k - 1) + ((k - 1) % 2)
                 /\ 2 * (v - acks) = (k - 1) - ((k - 1) % 2)
      <3>1. (k - 1) % 2 = 0 /\ k % 2 = 1
        BY <1>3, <2>1, <2>6
      <3>2. 2 * outstanding = 2 * c + k + 1 /\ 2 * (v - acks) = k - 1
        BY <1>4, <2>6, <3>1
      <3> QED BY <1>0, <1>3, <3>1, <3>2
    <2>7. ASSUME ~reliable PROVE outstanding - 1 = c + (k - 1)
      BY <1>0, <1>3, <1>4, <2>7
    <2>8. outstanding - 1 = w - (pongs + 1)
      BY <1>0, <1>4
    <2>9. CountInv'
      BY <1>1, <1>3, <2>4, <2>6, <2>7, <2>8 DEF CountInv, c, w
    <2> QED BY <1>6, <1>7, <2>4, <2>5, <2>9 DEF ValueInv
  <1> QED BY Zenon, <1>5, <1>8, <1>9

LEMMA HealthyValues ==
  ASSUME BenchTyped, BenchTyped', PingInv, SafeInv, HealthyInv, [BenchNext]_windowVars,
         SafeWindow', active', write_ok' < Modulus
  PROVE  ValueInv'
  <1>0. write_ok \in Nat /\ write_ok' \in Nat /\ Modulus \in Nat
    BY Zenon, BenchNumbers, ServiceAssumption DEF BenchTyped
  <1>1. /\ SafeWindow /\ active /\ write_ok <= write_ok'
    <2>1. CASE \/ Top \/ FillOffline \/ FillDone \/ Poll \/ ReadNothing \/ Drain \/ DrainEnds
               \/ DeadlinePasses \/ DrainDeadlinePasses \/ UNCHANGED windowVars
      <3>1. UNCHANGED <<reliable, active, window, write_ok>>
        BY Zenon, <2>1, BenchQuiet
      <3> QED BY <1>0, <3>1 DEF SafeWindow, FramesPerRequest
    <2>2. CASE FillWrite \/ FillFull \/ ReadFrame
      <3>1. UNCHANGED <<reliable, active, window>> /\ write_ok' \in {write_ok, write_ok + 1}
        BY Zenon, <2>2 DEF FillWrite, FillFull, ReadFrame, LinuxSend, LinuxSendFull, LinuxReceive,
             clockVars
      <3> QED BY <1>0, <3>1 DEF SafeWindow, FramesPerRequest
    <2>3. CASE BenchService
      <3>1. UNCHANGED <<reliable, window, write_ok>> /\ (active' => active)
        BY Zenon, <2>3 DEF BenchService, benchVars, clockVars, Cpu3Next, Cpu3Serve, Cpu3Reply,
             Cpu3ReplyFull, SessionEnds
      <3> QED BY <1>0, <3>1 DEF SafeWindow, FramesPerRequest
    <2> QED BY <2>1, <2>2, <2>3, BenchCases
  <1>2. write_ok < Modulus
    BY <1>0, <1>1
  <1>3. ValueInv /\ RoomInv
    BY Zenon, <1>1, <1>2 DEF HealthyInv, SafeInv
  <1>4. CASE \/ Top \/ FillOffline \/ FillDone \/ Poll \/ ReadNothing \/ Drain \/ DrainEnds
             \/ DeadlinePasses \/ DrainDeadlinePasses \/ UNCHANGED windowVars
    <2>1. /\ UNCHANGED <<reliable, to_cpu3, to_linux, job, slots, outstanding, acks, pongs>>
          /\ UNCHANGED <<next_value, write_ok>>
      BY ZenonT(30), <1>4, BenchQuiet
    <2>2. fault' = FALSE
      BY Zenon, <1>1, <1>3, <1>4 DEF ValueInv, Top, FillOffline, FillDone, Poll, ReadNothing, Drain,
           DrainEnds, DeadlinePasses, DrainDeadlinePasses, windowVars
    <2> QED BY Zenon, <1>3, <2>1, <2>2 DEF ValueInv, CountInv, Coming, Served
  <1>5. CASE FillFull
    <2>1. UNCHANGED <<reliable, to_cpu3, to_linux, job, slots, outstanding, acks, pongs>>
      BY Zenon, <1>5 DEF FillFull, LinuxSendFull, countVars
    <2>2. UNCHANGED <<next_value, write_ok, fault>>
      BY Zenon, <1>5 DEF FillFull
    <2> QED BY ZenonT(30), <1>3, <2>1, <2>2 DEF ValueInv, CountInv, Coming, Served
  <1>6. CASE FillWrite
    <2>1. write_ok + 1 < Modulus
      BY Zenon, <1>6 DEF FillWrite
    <2> QED BY <1>3, <1>6, <2>1, ValueSend
  <1>7. CASE ReadFrame
    BY Zenon, <1>3, <1>7, ValueReceive
  <1>8. CASE BenchService
    <2>1. UNCHANGED benchVars /\ Cpu3Next
      BY Zenon, <1>8 DEF BenchService
    <2>2. ~Cpu3ReplyFull /\ ~SessionEnds
      BY <1>1, <1>3, RoomLeft DEF Cpu3ReplyFull, SessionEnds
    <2> QED BY <1>2, <1>3, <2>1, <2>2, ValueServe, ValueReply DEF Cpu3Next
  <1> QED BY <1>4, <1>5, <1>6, <1>7, <1>8, BenchCases

LEMMA HealthyDone ==
  ASSUME HealthyInv, [BenchNext]_windowVars,
         phase' = "done", active', ~drain_expired'
  PROVE  outstanding' = 0
  <1>1. CASE DrainEnds
    BY Zenon, <1>1 DEF DrainEnds, serviceVars, countVars, clockVars
  <1>2. CASE DeadlinePasses \/ DrainDeadlinePasses
    BY Zenon, <1>2 DEF DeadlinePasses, DrainDeadlinePasses
  <1>3. CASE Top \/ FillOffline \/ FillDone \/ Poll \/ ReadNothing \/ Drain
    BY Zenon, <1>3 DEF Top, FillOffline, FillDone, Poll, ReadNothing, Drain
  <1>4. CASE UNCHANGED windowVars
    BY Zenon, <1>4 DEF HealthyInv, windowVars, serviceVars, countVars, clockVars
  <1>5. CASE FillWrite \/ FillFull \/ ReadFrame
    BY Zenon, <1>5 DEF FillWrite, FillFull, ReadFrame
  <1>6. CASE BenchService
    <2>1. UNCHANGED <<phase, drain_expired, outstanding>> /\ (active' => active)
      BY Zenon, <1>6 DEF BenchService, benchVars, countVars, clockVars, Cpu3Next, Cpu3Serve,
           Cpu3Reply, Cpu3ReplyFull, SessionEnds
    <2> QED BY Zenon, <2>1 DEF HealthyInv
  <1> QED BY <1>1, <1>2, <1>3, <1>4, <1>5, <1>6, BenchCases

-----------------------------------------------------------------------------
(* The window benchmark: counting the requests carried out.  The facts about   *)
(* finite sets are used from here on only.                                     *)

INSTANCE FiniteSetTheorems

LEMMA PingSend ==
  ASSUME BenchTyped, PingInv, FillWrite \/ FillFull
  PROVE  PingInv'
  <1>0. /\ ServiceTyped /\ reliable \in BOOLEAN /\ next_sequence \in Nat
        /\ next_value \in Nat /\ write_ok \in Nat /\ to_cpu3 \in Seq(Queued)
        /\ executed \in SUBSET Nat
    BY Zenon DEF BenchTyped, ServiceTyped
  <1>1. next_sequence' = next_sequence + 1 /\ UNCHANGED <<to_linux, job, executed, acks>>
    BY ZenonT(30) DEF FillWrite, FillFull, LinuxSend, LinuxSendFull, countVars
  <1>2. /\ Behind' = Behind /\ (AckDue' <=> AckDue) /\ ServesPing' /\ AcksInOrder'
    BY Zenon, <1>1 DEF Behind, AckDue, ServesPing, AcksInOrder, PingInv
  <1>3. \A e \in executed' : e <= next_sequence'
    BY <1>0, <1>1 DEF PingInv, RequestsInOrder
  <1>4. CASE FillFull
    <2>1. UNCHANGED <<to_cpu3, write_ok>>
      BY Zenon, <1>4 DEF FillFull, LinuxSendFull
    <2>2. \A i \in 1 .. Len(to_cpu3) : to_cpu3[i].sequence <= next_sequence'
      <3> TAKE i \in 1 .. Len(to_cpu3)
      <3>0. to_cpu3[i] \in Queued
        BY <1>0
      <3>1. to_cpu3[i].sequence \in Nat
        BY Zenon, <3>0 DEF Queued
      <3> QED BY <1>0, <1>1, <3>1 DEF PingInv, RequestsInOrder
    <2>3. RequestsInOrder'
      BY Zenon, <1>1, <1>3, <2>1, <2>2 DEF PingInv, RequestsInOrder
    <2> QED BY Zenon, <1>1, <1>2, <2>1, <2>3 DEF PingInv
  <1>5. CASE FillWrite
    <2> DEFINE n == Len(to_cpu3)
    <2>1. Ping(next_value) \in Caller
      BY Zenon, <1>0, PingReplies
    <2>2. /\ Len(to_cpu3') = n + 1
          /\ to_cpu3'[n + 1] = [call |-> Ping(next_value), sequence |-> next_sequence + 1]
          /\ \A i \in 1 .. n : to_cpu3'[i] = to_cpu3[i]
          /\ write_ok' = write_ok + 1
      BY <1>0, <1>5, <2>1, Sending DEF FillWrite
    <2>3. \A i \in 1 .. n : to_cpu3[i].sequence \in Nat /\ to_cpu3[i].sequence <= next_sequence
      <3> TAKE i \in 1 .. n
      <3>0. to_cpu3[i] \in Queued
        BY <1>0
      <3>1. to_cpu3[i].sequence \in Nat
        BY Zenon, <3>0 DEF Queued
      <3> QED BY Zenon, <3>1 DEF PingInv, RequestsInOrder
    <2>4. n \in Nat
      BY <1>0
    <2>5. to_cpu3'[n + 1].call = Ping(to_cpu3'[n + 1].call.arg)
      <3>1. to_cpu3'[n + 1].call = Ping(next_value)
        BY <2>2
      <3>2. Ping(next_value).arg = next_value
        BY Zenon, <1>0, PingReplies
      <3> QED BY Zenon, <3>1, <3>2
    <2>6. to_cpu3'[n + 1].sequence = next_sequence + 1
      BY <2>2
    <2> HIDE DEF n
    <2>7. ASSUME NEW i \in 1 .. n + 1
          PROVE  /\ to_cpu3'[i].call = Ping(to_cpu3'[i].call.arg)
                 /\ to_cpu3'[i].sequence <= next_sequence'
                 /\ \A e \in executed' : e < to_cpu3'[i].sequence
                 /\ \A j \in 1 .. n + 1 :
                      i < j => to_cpu3'[i].sequence < to_cpu3'[j].sequence
      <3>1. CASE i = n + 1
        <4>1. ASSUME NEW e \in executed' PROVE e < next_sequence + 1
          <5>1. e \in Nat /\ next_sequence \in Nat /\ e <= next_sequence
            BY Zenon, <1>0, <1>1 DEF PingInv, RequestsInOrder
          <5> QED BY <5>1
        <4>2. \A j \in 1 .. n + 1 : ~(i < j)
          BY <2>4, <3>1
        <4> QED BY <1>0, <1>1, <2>5, <2>6, <3>1, <4>1, <4>2
      <3>2. CASE i \in 1 .. n
        <4>1. /\ to_cpu3'[i] = to_cpu3[i] /\ to_cpu3[i].call = Ping(to_cpu3[i].call.arg)
              /\ \A e \in executed : e < to_cpu3[i].sequence
              /\ \A j \in 1 .. n : i < j => to_cpu3[i].sequence < to_cpu3[j].sequence
          BY Zenon, <2>2, <3>2 DEF PingInv, RequestsInOrder, n
        <4>2. to_cpu3[i].sequence < next_sequence + 1
          BY SMTT(20), <1>0, <2>3, <3>2
        <4>3. ASSUME NEW j \in 1 .. n + 1, i < j
              PROVE  to_cpu3'[i].sequence < to_cpu3'[j].sequence
          <5>1. j \in 1 .. n \/ j = n + 1
            BY <2>4
          <5> QED BY <2>2, <2>6, <4>1, <4>2, <4>3, <5>1
        <4>4. to_cpu3'[i].sequence <= next_sequence'
          BY <1>0, <1>1, <2>3, <3>2, <4>1
        <4> QED BY <1>1, <4>1, <4>3, <4>4
      <3> QED BY <2>4, <3>1, <3>2
    <2>8. RequestsInOrder'
      BY Zenon, <1>3, <2>2, <2>7 DEF RequestsInOrder
    <2>9. Cardinality(executed) \in Nat
      BY Zenon, FS_CardinalityType DEF PingInv
    <2>10. Cardinality(executed') + Len(to_cpu3') = write_ok'
      <3>1. Cardinality(executed) + n = write_ok
        BY Zenon DEF PingInv, n
      <3>2. Cardinality(executed) + (n + 1) = write_ok + 1
        BY <1>0, <2>4, <2>9, <3>1
      <3> QED BY Zenon, <1>1, <2>2, <3>2
    <2> QED BY <1>1, <1>2, <2>8, <2>10 DEF PingInv
  <1> QED BY Zenon, <1>4, <1>5

\* The set of the requests whose ACK has been dealt with never shrinks.
LEMMA BehindGrows ==
  ASSUME IsFiniteSet(executed'), Behind \subseteq Behind', acks \in Nat,
         acks <= Cardinality(Behind)
  PROVE  acks <= Cardinality(Behind')
  <1>1. IsFiniteSet(Behind')
    BY Zenon, FS_Subset DEF Behind
  <1>2. IsFiniteSet(Behind) /\ Cardinality(Behind) <= Cardinality(Behind')
    BY Zenon, <1>1, FS_Subset
  <1>3. Cardinality(Behind) \in Nat /\ Cardinality(Behind') \in Nat
    BY Zenon, <1>1, <1>2, FS_CardinalityType
  <1> QED BY <1>2, <1>3

\* A frame read was the first: what comes after an ACK belongs to later requests.
LEMMA PingReceive ==
  ASSUME BenchTyped, PingInv, ReadFrame
  PROVE  PingInv'
  <1> DEFINE x == to_linux[1].of
  <1>0. /\ ServiceTyped /\ executed \in SUBSET Nat /\ acks \in Nat /\ to_linux \in Seq(Answer)
        /\ LinuxReceive
    BY Zenon DEF BenchTyped, ServiceTyped, ReadFrame
  <1>1. /\ UNCHANGED <<to_cpu3, next_sequence, job, executed, write_ok>>
        /\ Len(to_linux) > 0 /\ Head(to_linux) = to_linux[1]
        /\ Len(to_linux') = Len(to_linux) - 1
        /\ \A i \in 1 .. Len(to_linux') : to_linux'[i] = to_linux[i + 1]
        /\ acks' = IF to_linux[1].type = "ACK" THEN acks + 1 ELSE acks
    BY Zenon, <1>0, Receives DEF ReadFrame, LinuxReceive
  <1>2. \A i \in 1 .. Len(to_linux') : i + 1 \in 1 .. Len(to_linux) /\ 1 < i + 1
    BY <1>0, <1>1
  <1>3. /\ RequestsInOrder' /\ ServesPing' /\ (AckDue' <=> AckDue)
        /\ IsFiniteSet(executed') /\ Cardinality(executed') + Len(to_cpu3') = write_ok'
    BY Zenon, <1>1 DEF PingInv, RequestsInOrder, ServesPing, AckDue
  <1>4. ASSUME NEW i \in 1 .. Len(to_linux')
        PROVE  /\ to_linux'[i].type \in {"ACK", "PONG"} /\ to_linux'[i].of \in executed'
               /\ AckDue' => to_linux'[i].of < job'.request.sequence
               /\ \A j \in 1 .. Len(to_linux') :
                    i < j /\ to_linux'[j].type = "ACK" => to_linux'[i].of < to_linux'[j].of
    <2>1. /\ to_linux'[i].type \in {"ACK", "PONG"} /\ to_linux'[i].of \in executed'
          /\ AckDue' => to_linux'[i].of < job'.request.sequence
      BY Zenon, <1>1, <1>2, <1>3 DEF PingInv, AcksInOrder
    <2>2. ASSUME NEW j \in 1 .. Len(to_linux'), i < j, to_linux'[j].type = "ACK"
          PROVE  to_linux'[i].of < to_linux'[j].of
      <3>1. i + 1 < j + 1
        BY <2>2
      <3>2. /\ to_linux'[i] = to_linux[i + 1] /\ to_linux'[j] = to_linux[j + 1]
            /\ i + 1 \in 1 .. Len(to_linux) /\ j + 1 \in 1 .. Len(to_linux)
        BY Zenon, <1>1, <1>2
      <3> QED BY ZenonT(30), <2>2, <3>1, <3>2 DEF PingInv, AcksInOrder
    <2> QED BY Zenon, <2>1, <2>2
  <1>5. AcksInOrder'
    BY Zenon, <1>4 DEF AcksInOrder
  <1>6. Behind \subseteq Behind'
    BY Zenon, <1>1, <1>2, <1>3 DEF Behind
  <1>7. CASE to_linux[1].type # "ACK"
    <2>0. acks <= Cardinality(Behind) /\ acks' = acks
      BY Zenon, <1>1, <1>7 DEF PingInv
    <2>1. acks <= Cardinality(Behind')
      BY Zenon, <1>0, <1>3, <1>6, <2>0, BehindGrows
    <2> QED BY Zenon, <1>3, <1>5, <2>0, <2>1 DEF PingInv
  <1>8. CASE to_linux[1].type = "ACK"
    <2>1. 1 \in 1 .. Len(to_linux)
      BY <1>0, <1>1
    <2>2. x \in executed /\ x \in Nat /\ (AckDue => x < job.request.sequence)
      BY Zenon, <1>0, <2>1 DEF PingInv, AcksInOrder
    <2>3. x \notin Behind
      BY <1>8, <2>1, <2>2 DEF Behind
    <2>4. \A i \in 1 .. Len(to_linux') :
            to_linux'[i].type = "ACK" => x < to_linux'[i].of
      BY Zenon, <1>1, <1>2, <2>1 DEF PingInv, AcksInOrder
    <2> HIDE DEF x
    <2>5. x \in Behind'
      BY <1>1, <1>3, <2>2, <2>4 DEF Behind
    <2>6. IsFiniteSet(Behind) /\ IsFiniteSet(Behind')
      BY Zenon, <1>3, FS_Subset DEF Behind, PingInv
    <2>7. /\ IsFiniteSet(Behind \cup {x})
          /\ Cardinality(Behind \cup {x}) = Cardinality(Behind) + 1
      BY Zenon, <2>3, <2>6, FS_AddElement
    <2>8. Cardinality(Behind \cup {x}) <= Cardinality(Behind')
      <3>1. Behind \cup {x} \subseteq Behind'
        BY Zenon, <1>6, <2>5
      <3> QED BY Zenon, <2>6, <3>1, FS_Subset
    <2>9. Cardinality(Behind) \in Nat /\ Cardinality(Behind') \in Nat
      BY Zenon, <2>6, FS_CardinalityType
    <2>10. acks + 1 <= Cardinality(Behind')
      <3>1. acks <= Cardinality(Behind)
        BY Zenon DEF PingInv
      <3> QED BY <1>0, <2>7, <2>8, <2>9, <3>1
    <2>11. acks' = acks + 1
      BY Zenon, <1>1, <1>8
    <2> QED BY Zenon, <1>3, <1>5, <2>10, <2>11 DEF PingInv
  <1> QED BY Zenon, <1>7, <1>8

\* CPU3 carries out the oldest request, and each only once.
LEMMA PingServe ==
  ASSUME BenchTyped, PingInv, Cpu3Serve, UNCHANGED benchVars
  PROVE  PingInv'
  <1> DEFINE r == to_cpu3[1]
  <1>0. /\ ServiceTyped /\ executed \in SUBSET Nat /\ acks \in Nat /\ reliable \in BOOLEAN
        /\ to_cpu3 \in Seq(Queued) /\ next_sequence \in Nat /\ write_ok \in Nat
    BY Zenon DEF BenchTyped, ServiceTyped
  <1>1. /\ Len(to_cpu3) > 0 /\ r \in Queued
        /\ job'.request = r /\ job'.replies = Replies(r.call)
        /\ Len(to_cpu3') = Len(to_cpu3) - 1
        /\ \A i \in 1 .. Len(to_cpu3') : to_cpu3'[i] = to_cpu3[i + 1]
        /\ executed' = IF r.call.valid THEN executed \cup {r.sequence} ELSE executed
    BY Zenon, <1>0, Serves
  <1>2. /\ UNCHANGED <<to_linux, next_sequence, acks, write_ok>>
    BY Zenon DEF Cpu3Serve, benchVars, countVars
  <1>3. \A i \in 1 .. Len(to_cpu3') : i + 1 \in 1 .. Len(to_cpu3) /\ 1 < i + 1
    BY SMTT(20), <1>0, <1>1
  <1>4. 1 \in 1 .. Len(to_cpu3)
    BY <1>0, <1>1
  <1>5. /\ r.call = Ping(r.call.arg) /\ r.sequence <= next_sequence
        /\ \A e \in executed : e < r.sequence
    BY Zenon, <1>4 DEF PingInv, RequestsInOrder
  <1>6. r.call.arg \in Nat /\ r.sequence \in Nat
    BY Zenon, <1>1 DEF Queued, Caller
  <1>7. executed' = executed \cup {r.sequence}
    <2>1. Ping(r.call.arg).valid
      BY Zenon, <1>0, <1>6, PingReplies
    <2>2. r.call.valid
      BY Zenon, <1>5, <2>1
    <2> QED BY Zenon, <1>1, <2>2
  <1>8. /\ Len(job'.replies) > 0
        /\ \A i \in 1 .. Len(job'.replies) : /\ job'.replies[i] \in {"ACK", "PONG"}
                                             /\ i # 1 => job'.replies[i] = "PONG"
    <2> DEFINE s == Replies(Ping(r.call.arg))
    <2>1. job'.replies = s
      BY Zenon, <1>1, <1>5
    <2>2. \/ Len(s) = 2 /\ s[1] = "ACK" /\ s[2] = "PONG"
          \/ Len(s) = 1 /\ s[1] = "PONG"
      BY Zenon, <1>0, <1>6, PingReplies
    <2> HIDE DEF s
    <2> QED BY <2>1, <2>2
  <1>9. ServesPing'
    BY <1>1, <1>5, <1>7, <1>8 DEF ServesPing
  <1>10. AcksInOrder'
    <2>1. \A i \in 1 .. Len(to_linux) : to_linux[i].of \in executed
      BY ZenonT(30) DEF PingInv, AcksInOrder
    <2>2. \A i \in 1 .. Len(to_linux) : to_linux[i].of < job'.request.sequence
      BY Zenon, <1>1, <1>5, <2>1
    <2> QED BY ZenonT(30), <1>2, <1>7, <2>1, <2>2 DEF PingInv, AcksInOrder
  <1>11. RequestsInOrder'
    <2>1. ASSUME NEW i \in 1 .. Len(to_cpu3')
          PROVE  /\ to_cpu3'[i].call = Ping(to_cpu3'[i].call.arg)
                 /\ to_cpu3'[i].sequence <= next_sequence'
                 /\ \A e \in executed' : e < to_cpu3'[i].sequence
                 /\ \A j \in 1 .. Len(to_cpu3') :
                      i < j => to_cpu3'[i].sequence < to_cpu3'[j].sequence
      <3>1. to_cpu3'[i] = to_cpu3[i + 1] /\ i + 1 \in 1 .. Len(to_cpu3) /\ 1 < i + 1
        BY Zenon, <1>1, <1>3
      <3>2. r.sequence < to_cpu3[i + 1].sequence
        BY Zenon, <1>4, <3>1 DEF PingInv, RequestsInOrder
      <3>3. \A e \in executed' : e < to_cpu3'[i].sequence
        BY ZenonT(30), <1>7, <3>1, <3>2 DEF PingInv, RequestsInOrder
      <3>4. ASSUME NEW j \in 1 .. Len(to_cpu3'), i < j
            PROVE  to_cpu3'[i].sequence < to_cpu3'[j].sequence
        <4>1. to_cpu3'[j] = to_cpu3[j + 1] /\ j + 1 \in 1 .. Len(to_cpu3) /\ i + 1 < j + 1
          BY <1>1, <1>3, <3>4
        <4> QED BY Zenon, <3>1, <4>1 DEF PingInv, RequestsInOrder
      <3>5. /\ to_cpu3'[i].call = Ping(to_cpu3'[i].call.arg)
            /\ to_cpu3'[i].sequence <= next_sequence'
        BY Zenon, <1>2, <3>1 DEF PingInv, RequestsInOrder
      <3> QED BY Zenon, <3>3, <3>4, <3>5
    <2>2. \A e \in executed' : e <= next_sequence'
      BY Zenon, <1>2, <1>5, <1>7 DEF PingInv, RequestsInOrder
    <2> QED BY ZenonT(30), <2>1, <2>2 DEF RequestsInOrder
  <1>12. Behind \subseteq Behind'
    <2> SUFFICES ASSUME NEW e \in Behind PROVE e \in Behind'
      BY Zenon
    <2>1. /\ e \in executed
          /\ \A i \in 1 .. Len(to_linux) : to_linux[i].type = "ACK" => e < to_linux[i].of
      BY Zenon DEF Behind
    <2>2. e \in executed' /\ e < job'.request.sequence
      BY Zenon, <1>1, <1>5, <1>7, <2>1
    <2> QED BY Zenon, <1>2, <2>1, <2>2 DEF Behind
  <1>13. /\ IsFiniteSet(executed')
         /\ Cardinality(executed') = Cardinality(executed) + 1
         /\ Cardinality(executed) \in Nat
    <2>1. r.sequence \notin executed
      BY <1>5, <1>6
    <2> HIDE DEF r
    <2> QED BY Zenon, <1>7, <2>1, FS_AddElement, FS_CardinalityType DEF PingInv
  <1>14. Cardinality(executed') + Len(to_cpu3') = write_ok'
    <2>1. Cardinality(executed) + Len(to_cpu3) = write_ok /\ Len(to_cpu3) \in Nat
      BY <1>0 DEF PingInv
    <2> DEFINE c == Cardinality(executed)
               n == Len(to_cpu3)
    <2>2. c \in Nat /\ n \in Nat /\ c + n = write_ok
      BY Zenon, <1>13, <2>1
    <2>3. (c + 1) + (n - 1) = write_ok
      <3> HIDE DEF c, n
      <3> QED BY <1>0, <2>2
    <2> QED BY Zenon, <1>1, <1>2, <1>13, <2>3
  <1>15. acks' <= Cardinality(Behind')
    BY Zenon, <1>0, <1>2, <1>12, <1>13, BehindGrows DEF PingInv
  <1> QED BY Zenon, <1>9, <1>10, <1>11, <1>13, <1>14, <1>15 DEF PingInv

\* The replies of one request keep their order; one that is given up is no longer
\* under way.
LEMMA PingReply ==
  ASSUME BenchTyped, PingInv, Cpu3Reply \/ Cpu3ReplyFull \/ SessionEnds,
         UNCHANGED benchVars
  PROVE  PingInv'
  <1>0. /\ ServiceTyped /\ executed \in SUBSET Nat /\ acks \in Nat
        /\ to_linux \in Seq(Answer) /\ job.replies \in Seq(Kind)
    BY Zenon DEF BenchTyped, ServiceTyped
  <1>1. UNCHANGED <<to_cpu3, next_sequence, executed, acks, write_ok>>
    BY Zenon DEF Cpu3Reply, Cpu3ReplyFull, SessionEnds, benchVars, countVars
  <1>2. /\ RequestsInOrder' /\ IsFiniteSet(executed')
        /\ Cardinality(executed') + Len(to_cpu3') = write_ok'
    BY Zenon, <1>1 DEF PingInv, RequestsInOrder
  <1>3. /\ Len(job'.replies) = 0 \/ /\ job'.request = job.request
                                    /\ Len(job'.replies) = Len(job.replies) - 1
                                    /\ \A i \in 1 .. Len(job'.replies) :
                                         job'.replies[i] = job.replies[i + 1]
    BY <1>0, Replying, Refusing, Ending
  <1>4. ASSUME Len(job'.replies) # 0
        PROVE  /\ job'.request = job.request /\ Len(job.replies) > 0
               /\ \A i \in 1 .. Len(job'.replies) :
                    job'.replies[i] = "PONG"
    <2>1. \A i \in 1 .. Len(job'.replies) : i + 1 \in 1 .. Len(job.replies) /\ i + 1 # 1
      BY <1>0, <1>3, <1>4
    <2>2. Len(job.replies) > 0
      BY <1>0, <1>3, <1>4 DEF Cpu3Reply, Cpu3ReplyFull
    <2> QED BY Zenon, <1>3, <1>4, <2>1, <2>2 DEF PingInv, ServesPing
  <1>5. ServesPing' /\ ~AckDue'
    <2>1. CASE Len(job'.replies) = 0
      BY <2>1 DEF ServesPing, AckDue
    <2>2. CASE Len(job'.replies) # 0
      <3>1. 1 \in 1 .. Len(job'.replies) \/ ~(Len(job'.replies) > 0)
        <4>1. job'.replies \in Seq(Kind)
          BY ZenonT(30), <1>0, Replying, Refusing, Ending DEF ServiceTyped
        <4> QED BY <4>1
      <3> QED BY Zenon, <1>1, <1>4, <2>2, <3>1 DEF PingInv, ServesPing, AckDue
    <2> QED BY Zenon, <2>1, <2>2
  <1>6. CASE to_linux' = to_linux
    <2>1. AcksInOrder' /\ Behind \subseteq Behind'
      BY Zenon, <1>1, <1>5, <1>6 DEF PingInv, AcksInOrder, Behind
    <2>2. acks' <= Cardinality(Behind')
      BY <1>0, <1>1, <1>2, <2>1, BehindGrows DEF PingInv
    <2> QED BY <1>2, <1>5, <2>1, <2>2 DEF PingInv
  <1>7. CASE Cpu3Reply
    <2> DEFINE n == Len(to_linux)
               f == Reply(job.request, job.replies[1])
    <2>1. /\ Len(job.replies) > 0 /\ job.replies[1] \in Kind /\ job.request \in Queued
          /\ Len(to_linux') = n + 1 /\ to_linux'[n + 1] = f
          /\ \A i \in 1 .. n : to_linux'[i] = to_linux[i]
      BY Zenon, <1>0, <1>7, Replying
    <2>2. f.type = job.replies[1] /\ f.of = job.request.sequence
      BY Zenon, <2>1, ReplyTyped
    <2>3. /\ f.type \in {"ACK", "PONG"} /\ f.of \in executed
          /\ f.type = "ACK" => AckDue
      <3>1. 1 \in 1 .. Len(job.replies)
        BY <1>0, <2>1
      <3> QED BY ZenonT(30), <2>1, <2>2, <3>1 DEF PingInv, ServesPing, AckDue
    <2>4. n \in Nat
      BY <1>0
    <2>5. \A i \in 1 .. n : /\ to_linux[i].type \in {"ACK", "PONG"}
                            /\ to_linux[i].of \in executed
                            /\ f.type = "ACK" => to_linux[i].of < f.of
      BY Zenon, <2>2, <2>3 DEF PingInv, AcksInOrder
    <2> HIDE DEF f
    <2>6. ASSUME NEW i \in 1 .. n + 1
          PROVE  /\ to_linux'[i].type \in {"ACK", "PONG"} /\ to_linux'[i].of \in executed'
                 /\ \A j \in 1 .. n + 1 :
                      i < j /\ to_linux'[j].type = "ACK" => to_linux'[i].of < to_linux'[j].of
      <3>1. CASE i = n + 1
        <4>1. \A j \in 1 .. n + 1 : ~(i < j)
          BY <2>4, <3>1
        <4> QED BY <1>1, <2>1, <2>3, <3>1, <4>1
      <3>2. CASE i \in 1 .. n
        <4>1. ASSUME NEW j \in 1 .. n + 1, i < j, to_linux'[j].type = "ACK"
              PROVE  to_linux'[i].of < to_linux'[j].of
          <5>1. CASE j = n + 1
            BY <2>1, <2>5, <3>2, <4>1, <5>1
          <5>2. CASE j \in 1 .. n
            BY ZenonT(30), <2>1, <3>2, <4>1, <5>2 DEF PingInv, AcksInOrder
          <5> QED BY <2>4, <5>1, <5>2
        <4> QED BY <1>1, <2>1, <2>5, <3>2, <4>1
      <3> QED BY <2>4, <3>1, <3>2
    <2>7. AcksInOrder'
      BY Zenon, <1>5, <2>1, <2>6 DEF AcksInOrder
    <2>8. Behind \subseteq Behind'
      <3> SUFFICES ASSUME NEW e \in Behind PROVE e \in Behind'
        BY Zenon
      <3>1. /\ e \in executed
            /\ AckDue => e < job.request.sequence
            /\ \A i \in 1 .. n : to_linux[i].type = "ACK" => e < to_linux[i].of
        BY Zenon DEF Behind
      <3>2. ASSUME NEW i \in 1 .. n + 1, to_linux'[i].type = "ACK"
            PROVE  e < to_linux'[i].of
        <4>1. CASE i = n + 1
          BY <2>1, <2>2, <2>3, <3>1, <3>2, <4>1
        <4>2. CASE i \in 1 .. n
          BY Zenon, <2>1, <3>1, <3>2, <4>2
        <4> QED BY <2>4, <4>1, <4>2
      <3> QED BY Zenon, <1>1, <1>5, <2>1, <3>1, <3>2 DEF Behind
    <2>9. acks' <= Cardinality(Behind')
      BY <1>0, <1>1, <1>2, <2>8, BehindGrows DEF PingInv
    <2> QED BY <1>2, <1>5, <2>7, <2>9 DEF PingInv
  <1> QED BY Zenon, <1>6, <1>7 DEF Cpu3ReplyFull, SessionEnds

LEMMA PingAtStart == BenchInit => BenchTyped /\ PingInv
  <1> SUFFICES ASSUME BenchInit PROVE BenchTyped /\ PingInv
    BY Zenon
  <1>1. NoRequest \in Queued
    BY Zenon DEF NoRequest, Caller, Queued, ResultType, Status
  <1>2. /\ to_cpu3 = <<>> /\ to_linux = <<>> /\ next_sequence = 0
        /\ job = [request |-> NoRequest, replies |-> <<>>] /\ executed = {}
        /\ active = TRUE /\ fault = FALSE /\ slots = {} /\ window \in Windows
        /\ reliable \in BOOLEAN /\ outstanding = 0 /\ next_value = 0
        /\ write_ok = 0 /\ acks = 0 /\ pongs = 0
    BY Zenon DEF BenchInit, ServiceInit
  <1>3. BenchTyped
    <2>1. ServiceTyped
      BY <1>1, <1>2 DEF ServiceTyped
    <2>2. active \in BOOLEAN /\ fault \in BOOLEAN
      BY Zenon, <1>2
    <2> QED BY <1>2, <2>1, <2>2 DEF BenchTyped
  <1>4. RequestsInOrder /\ ServesPing /\ AcksInOrder
    BY <1>2 DEF RequestsInOrder, ServesPing, AcksInOrder
  <1>5. IsFiniteSet(executed) /\ Cardinality(executed) = 0
    BY Zenon, <1>2, FS_EmptySet
  <1>6. IsFiniteSet(Behind)
    BY Zenon, <1>5, FS_Subset DEF Behind
  <1>7. acks <= Cardinality(Behind)
    BY <1>2, <1>6, FS_CardinalityType
  <1> QED BY <1>2, <1>3, <1>4, <1>5, <1>7 DEF PingInv

LEMMA PingStep == BenchTyped /\ PingInv /\ [BenchNext]_windowVars => PingInv'
  <1> SUFFICES ASSUME BenchTyped, PingInv, [BenchNext]_windowVars PROVE PingInv'
    BY Zenon
  <1>1. CASE \/ Top \/ FillOffline \/ FillDone \/ Poll \/ ReadNothing \/ Drain \/ DrainEnds
             \/ DeadlinePasses \/ DrainDeadlinePasses \/ UNCHANGED windowVars
    <2>1. UNCHANGED <<to_cpu3, to_linux, next_sequence, job, executed, acks, write_ok>>
      BY Zenon, <1>1, BenchQuiet
    <2>2. (AckDue' <=> AckDue) /\ Behind' = Behind
      BY Zenon, <2>1 DEF AckDue, Behind
    <2> QED BY Zenon, <2>1, <2>2 DEF PingInv, RequestsInOrder, ServesPing, AcksInOrder
  <1>2. CASE BenchService
    BY Zenon, <1>2, PingServe, PingReply DEF BenchService, Cpu3Next
  <1> QED BY <1>1, <1>2, PingSend, PingReceive, BenchCases

\* Exit code 0 on a reliable priority: as many requests were carried out by CPU3
\* as were accepted, because each ACK the benchmark counted was that of another
\* request, whatever the window, however many replies found the ring full.
THEOREM SuccessExecuted == BenchSpec => []SuccessMeansExecuted
  <1>1. BenchTyped /\ PingInv => SuccessMeansExecuted
    <2> SUFFICES ASSUME BenchTyped, PingInv, ExitCode = 0, reliable
                 PROVE  Cardinality(executed) = write_ok
      BY Zenon DEF SuccessMeansExecuted
    <2>1. acks = write_ok
      BY DEF ExitCode, BenchTyped
    <2>2. IsFiniteSet(executed) /\ Behind \subseteq executed
      BY Zenon DEF PingInv, Behind
    <2>3. IsFiniteSet(Behind) /\ Cardinality(Behind) <= Cardinality(executed)
      BY Zenon, <2>2, FS_Subset
    <2>4. Cardinality(Behind) \in Nat /\ Cardinality(executed) \in Nat
      BY Zenon, <2>2, <2>3, FS_CardinalityType
    <2>5. to_cpu3 \in Seq(Queued)
      BY Zenon DEF BenchTyped, ServiceTyped
    <2>6. Len(to_cpu3) \in Nat
      BY <2>5
    <2> DEFINE n == Len(to_cpu3)
               c == Cardinality(executed)
               b == Cardinality(Behind)
    <2>7. n \in Nat /\ c \in Nat /\ b \in Nat /\ c + n = write_ok /\ write_ok <= b /\ b <= c
      BY Zenon, <2>1, <2>3, <2>4, <2>6 DEF PingInv
    <2>8. c = write_ok
      <3> HIDE DEF n, c, b
      <3> QED BY <2>7 DEF BenchTyped
    <2> QED BY Zenon, <2>8
  <1>2. BenchTyped /\ [BenchNext]_windowVars => BenchTyped'
    BY Zenon, BenchTypedStep
  <1> QED BY <1>1, <1>2, PingAtStart, PingStep, PTL DEF BenchSpec

LEMMA SafeAtStart == BenchInit => SafeInv
  <1> SUFFICES ASSUME BenchInit PROVE SafeInv
    BY Zenon
  <1>1. /\ to_cpu3 = <<>> /\ to_linux = <<>> /\ job.replies = <<>>
        /\ tx_full_count = 0 /\ outstanding = 0
    BY Zenon DEF BenchInit, ServiceInit
  <1>2. window \in Nat
    BY Zenon, PingAtStart, BenchNumbers
  <1>3. Len(to_cpu3) = 0 /\ Len(to_linux) = 0 /\ Len(job.replies) = 0 /\ Coming = 0
    BY <1>1 DEF Coming
  <1> QED BY <1>1, <1>2, <1>3 DEF SafeInv, RoomInv

\* A benchmark whose window times the replies per request fits into the return
\* ring never makes Zephyr count a transmit-full: for every ring size and every
\* interleaving of the benchmark, CPU3 and the clock.
THEOREM NothingRefused == BenchSpec => []NoReplyRefused
  <1>1. SafeInv => NoReplyRefused
    BY Zenon DEF SafeInv, NoReplyRefused
  <1>2. BenchTyped /\ [BenchNext]_windowVars => BenchTyped'
    BY Zenon, BenchTypedStep
  <1>3. BenchTyped /\ BenchTyped' /\ PingInv /\ SafeInv /\ [BenchNext]_windowVars => SafeInv'
    BY Zenon, SafeStep
  <1> QED BY <1>1, <1>2, <1>3, PingAtStart, PingStep, SafeAtStart, PTL DEF BenchSpec

LEMMA HealthyAtStart == BenchInit => HealthyInv
  <1> SUFFICES ASSUME BenchInit PROVE HealthyInv
    BY Zenon
  <1>1. /\ to_cpu3 = <<>> /\ to_linux = <<>> /\ job.replies = <<>> /\ outstanding = 0
        /\ acks = 0 /\ pongs = 0 /\ write_ok = 0 /\ next_value = 0 /\ slots = {}
        /\ fault = FALSE
    BY Zenon DEF BenchInit, ServiceInit
  <1>2. /\ Len(to_cpu3) = 0 /\ Len(to_linux) = 0 /\ Len(job.replies) = 0
        /\ Coming = 0 /\ Served = 0
    <2>1. Len(to_cpu3) = 0 /\ Len(to_linux) = 0 /\ Len(job.replies) = 0
      BY Zenon, <1>1
    <2>2. write_ok = 0
      BY Zenon, <1>1
    <2>3. Coming = 0 + 0 /\ Served = 0 - 0
      BY Zenon, <2>1, <2>2 DEF Coming, Served
    <2> QED BY <2>1, <2>3
  <1>3. CountInv
    BY <1>1, <1>2 DEF CountInv
  <1> QED BY <1>1, <1>2, <1>3 DEF HealthyInv, ValueInv

\* A run of the benchmark that keeps its session, drains in time, uses a window
\* whose replies fit into the return ring and does not wrap its values exits with
\* 0: for every ring size, window and interleaving, the benchmark finds one PONG
\* and on a reliable priority one ACK for each request it wrote.
THEOREM HealthyPasses == BenchSpec => []HealthyRunPasses
  <1>1. BenchTyped /\ HealthyInv => HealthyRunPasses
    <2> SUFFICES ASSUME BenchTyped, HealthyInv, phase = "done", active, ~drain_expired,
                        SafeWindow, write_ok < Modulus
                 PROVE  ExitCode = 0
      BY Zenon DEF HealthyRunPasses
    <2>1. ValueInv /\ outstanding = 0
      BY Zenon DEF HealthyInv
    <2>2. CASE ~reliable
      BY Zenon, <2>1, <2>2 DEF ExitCode, ValueInv
    <2>3. CASE reliable
      <3> DEFINE c == Len(to_cpu3)
                 k == Coming
                 v == Served
      <3>1. c \in Nat /\ k \in Nat /\ v = write_ok - c /\ write_ok \in Nat /\ acks \in Nat
            /\ pongs \in Nat
        BY Zenon, BenchNumbers DEF BenchTyped, Served
      <3>2. /\ 2 * outstanding = 2 * c + k + (k % 2) /\ 2 * (v - acks) = k - (k % 2)
            /\ outstanding = write_ok - pongs
        BY Zenon, <2>1, <2>3 DEF ValueInv, CountInv
      <3>3. acks = write_ok /\ pongs = write_ok
        <4> HIDE DEF c, k, v
        <4>1. c = 0 /\ k = 0
          BY <2>1, <3>1, <3>2
        <4> QED BY <2>1, <3>1, <3>2, <4>1
      <3> QED BY Zenon, <2>1, <3>3 DEF ExitCode, ValueInv
    <2> QED BY Zenon, <2>2, <2>3
  <1>2. BenchTyped /\ [BenchNext]_windowVars => BenchTyped'
    BY Zenon, BenchTypedStep
  <1>3. BenchTyped /\ BenchTyped' /\ PingInv /\ SafeInv /\ [BenchNext]_windowVars => SafeInv'
    BY Zenon, SafeStep
  <1>4. /\ BenchTyped /\ BenchTyped' /\ PingInv /\ SafeInv /\ HealthyInv
        /\ [BenchNext]_windowVars
        => HealthyInv'
    BY Zenon, HealthyValues, HealthyDone DEF HealthyInv
  <1> QED
    BY <1>1, <1>2, <1>3, <1>4, PingAtStart, PingStep, SafeAtStart, HealthyAtStart, PTL
       DEF BenchSpec
=============================================================================
