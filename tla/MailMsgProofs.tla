--------------------------- MODULE MailMsgProofs ----------------------------
(***************************************************************************)
(* Proofs about the MailMsg ring, which one side writes and the other      *)
(* reads, and about the Linux files that wait for its frames.              *)
(***************************************************************************)
EXTENDS MailMsgRing, MailMsgReader, SequenceTheorems, TLAPS

-----------------------------------------------------------------------------
(***************************************************************************)
(* Proofs about MailMsgRing for every number of slots and of frames: the   *)
(* ring never loses, repeats, reorders, tears or overwrites a frame.       *)
(*                                                                         *)
(* The argument.  The slots from consumer up to producer hold, complete,   *)
(* the accepted frames that are not yet taken (SlotInv).  The producer     *)
(* writes only the slot at its own index, and only when the next index is  *)
(* not consumer (PcInv): so it never touches one of those slots, nor the   *)
(* slot just before consumer, which is the one a pop that has already      *)
(* released it may still be copying (HandInv).  That gap is why the copy   *)
(* needs no barrier before the release.                                    *)
(***************************************************************************)

\* A slot that holds the complete, committed frame of m.
Holds(frame, m) ==
  /\ frame.commit = m.sequence
  /\ \A f \in Field \ {"commit"} : frame[f] = Stored(m, f)

PcInv ==
  /\ IF pushPc = "idle" THEN outgoing = <<>>
     ELSE outgoing \in Seq(Message) /\ Len(outgoing) = 1 /\ Len(sent) < MaxSend
  /\ pushPc \in {"fill", "advance"} => mailmsg_next(producer) # consumer
  /\ popPc # "idle" /\ ~released => consumer # producer
  /\ released => popPc = "copy"
  /\ popPc = "test" => toLoad \subseteq {"sequence", "commit"}
  /\ popPc = "copy" => toLoad \subseteq {"sequence", "body", "crc"}

SlotInv ==
  \A i \in Index :
    mailmsg_ring_count(i, consumer) < mailmsg_ring_count(producer, consumer)
      => Holds(slot[i], sent[Taken + mailmsg_ring_count(i, consumer) + 1])

HandInv == released => Holds(slot[PopIndex], sent[Taken])

FillInv ==
  /\ pushPc = "fill" =>
       \A f \in Field \ toStore : slot[producer][f] = Stored(outgoing[1], f)
  /\ pushPc = "advance" => Holds(slot[producer], outgoing[1])

LoadInv ==
  /\ popPc = "test" =>
       \A f \in {"sequence", "commit"} \ toLoad :
          incoming[f] = sent[Len(got) + 1].sequence
  /\ popPc = "copy" =>
       \A f \in {"sequence", "body", "crc"} \ toLoad :
          incoming[f] = Stored(sent[Len(got) + 1], f)

RingInv ==
  /\ TypeOK
  /\ PcInv
  /\ CountsUnreleased
  /\ SlotInv
  /\ HandInv
  /\ FillInv
  /\ LoadInv
  /\ DeliveredInOrder
  /\ NeverIncomplete

-----------------------------------------------------------------------------
(* mailmsg_next wraps at the last slot (mailmsg.c: value + 1 mod SLOTS).   *)
LEMMA NextWraps ==
  ASSUME NEW v \in Index
  PROVE  /\ mailmsg_next(v) \in Index
         /\ mailmsg_next(v) = IF v = SLOTS - 1 THEN 0 ELSE v + 1
BY SlotsAssumption DEF mailmsg_next, Index

(* Two different indices advance to two different indices.                 *)
LEMMA NextInjective ==
  ASSUME NEW v \in Index, NEW w \in Index, v # w
  PROVE  mailmsg_next(v) # mailmsg_next(w)
<1>1. /\ mailmsg_next(v) = IF v = SLOTS - 1 THEN 0 ELSE v + 1
      /\ mailmsg_next(w) = IF w = SLOTS - 1 THEN 0 ELSE w + 1
  BY Zenon, NextWraps
<1> QED  BY <1>1, SlotsAssumption DEF Index

(* What Append leaves and adds.                                            *)
LEMMA AppendFacts ==
  ASSUME NEW S, NEW s \in Seq(S), NEW e
  PROVE  /\ Len(Append(s, e)) = Len(s) + 1
         /\ Append(s, e)[Len(s) + 1] = e
         /\ \A k \in 1 .. Len(s) : Append(s, e)[k] = s[k]
OBVIOUS

(* The words a push stores into a slot have the types of the slot's fields. *)
LEMMA StoredTypes ==
  ASSUME NEW m \in Message
  PROVE  /\ m.sequence \in Nat /\ m.sequence # 0
         /\ Stored(m, "sequence") = m.sequence
         /\ Stored(m, "body") \in Body
         /\ Stored(m, "crc") \in Nat \X Body
         /\ Stored(m, "commit") = 0
<1>1. m.sequence \in 1 .. MaxSend /\ m.body \in Payload /\ m.corrupt \in BOOLEAN
  BY Zenon DEF Message
<1>2. m.sequence \in Nat /\ m.sequence # 0
  BY <1>1, MaxSendAssumption
<1> QED  BY Zenon, <1>1, <1>2 DEF Stored, Body, Crc

(* Storing one word of a message into a slot keeps the slot array typed.   *)
LEMMA StoreTyped ==
  ASSUME NEW s \in [Index -> Frame], NEW i \in Index, NEW m \in Message,
         NEW f \in Field
  PROVE  [s EXCEPT ![i][f] = Stored(m, f)] \in [Index -> Frame]
<1> DEFINE w == [s[i] EXCEPT ![f] = Stored(m, f)]
<1>0. s[i] \in Frame
  BY Zenon
<1>1. CASE f = "sequence"
  <2>1. w \in Frame
    BY Zenon, <1>0, <1>1, StoredTypes DEF Frame
  <2> QED  BY Zenon, <2>1
<1>2. CASE f = "body"
  <2>1. w \in Frame
    BY Zenon, <1>0, <1>2, StoredTypes DEF Frame
  <2> QED  BY Zenon, <2>1
<1>3. CASE f = "crc"
  <2>1. w \in Frame
    BY Zenon, <1>0, <1>3, StoredTypes DEF Frame
  <2> QED  BY Zenon, <2>1
<1>4. CASE f = "commit"
  <2>0. 0 \in Nat
    OBVIOUS
  <2>1. w \in Frame
    BY Zenon, <1>0, <1>4, <2>0, StoredTypes DEF Frame
  <2> QED  BY Zenon, <2>1
<1> QED  BY Zenon, <1>1, <1>2, <1>3, <1>4 DEF Field

(* Loading one field of a slot keeps the private copy typed.               *)
LEMMA LoadTyped ==
  ASSUME NEW r \in Frame, NEW s \in Frame, NEW f \in Field
  PROVE  [r EXCEPT ![f] = s[f]] \in Frame
<1>1. CASE f = "sequence"  BY Zenon, <1>1 DEF Frame
<1>2. CASE f = "body"      BY Zenon, <1>2 DEF Frame
<1>3. CASE f = "crc"       BY Zenon, <1>3 DEF Frame
<1>4. CASE f = "commit"    BY Zenon, <1>4 DEF Frame
<1> QED  BY Zenon, <1>1, <1>2, <1>3, <1>4 DEF Field

(* The empty private copy a pop starts from is a frame.                    *)
LEMMA BlankTyped == BlankFrame \in Frame
BY Zenon DEF BlankFrame, Frame, Body

(* The message a push has in hand is a message.                            *)
LEMMA OutgoingTyped ==
  ASSUME TypeOK, PcInv, pushPc # "idle"
  PROVE  outgoing[1] \in Message
<1>1. ASSUME NEW S, NEW s \in Seq(S), Len(s) = 1 PROVE s[1] \in S
  <2>1. 1 \in 1 .. Len(s)
    BY <1>1
  <2> QED  BY Zenon, <2>1, ElementOfSeq
<1> QED  BY Zenon, <1>1 DEF PcInv

(* The slot a pop reads is a slot of the ring.                             *)
LEMMA PopIndexTyped ==
  ASSUME consumer \in Index PROVE PopIndex \in Index
BY SMTT(20), SlotsAssumption DEF PopIndex, Index

-----------------------------------------------------------------------------
(* Every step keeps the types.                                             *)
LEMMA TypeStep ==
  ASSUME TypeOK, PcInv, [Next]_vars
  PROVE  TypeOK'
<1> USE DEF TypeOK
<1>0. pushPc # "idle" => outgoing[1] \in Message
  BY Zenon, OutgoingTyped
<1>1. CASE PushInvalid
  BY Zenon, <1>1 DEF PushInvalid, ringVars, pushVars, popVars
<1>2. CASE \E body \in Payload, corrupt \in BOOLEAN : PushBegin(body, corrupt)
  <2> PICK body \in Payload, corrupt \in BOOLEAN : PushBegin(body, corrupt)
    BY Zenon, <1>2
  <2>1. Len(sent) + 1 \in 1 .. MaxSend
    BY MaxSendAssumption DEF PushBegin
  <2>2. outgoing'[1] \in Message /\ outgoing' \in Seq(Message)
    BY <2>1 DEF PushBegin, Message
  <2> QED  BY Zenon, <2>2 DEF PushBegin, ringVars, popVars
<1>3. CASE PushFull
  BY <1>3 DEF PushFull, ringVars, popVars
<1>4. CASE PushRoom
  BY Zenon, <1>4 DEF PushRoom, ringVars, popVars
<1>5. CASE \E f \in Field : PushStore(f)
  <2> PICK f \in Field : PushStore(f)
    BY Zenon, <1>5
  <2>1. slot' \in [Index -> Frame]
    BY Zenon, <1>0, StoreTyped DEF PushStore
  <2> QED  BY Zenon, <2>1 DEF PushStore, popVars
<1>6. CASE PushCommit
  <2>1. slot' \in [Index -> Frame]
    BY Zenon, <1>0, <1>6, StoredTypes DEF PushCommit, Frame
  <2> QED  BY Zenon, <1>6, <2>1 DEF PushCommit, popVars
<1>7. CASE PushAdvance
  BY <1>0, <1>7, NextWraps DEF PushAdvance, popVars
<1>8. CASE PopEmpty
  BY Zenon, <1>8 DEF PopEmpty, ringVars, pushVars, popVars
<1>9. CASE PopBegin
  BY Zenon, <1>9, BlankTyped DEF PopBegin, ringVars, pushVars, Field
<1>10. CASE \E f \in Field : PopLoad(f)
  <2> PICK f \in Field : PopLoad(f)
    BY Zenon, <1>10
  <2>1. incoming' \in Frame
    BY Zenon, LoadTyped, PopIndexTyped DEF PopLoad
  <2> QED  BY Zenon, <2>1 DEF PopLoad, ringVars, pushVars
<1>11. CASE PopTest
  BY <1>11 DEF PopTest, ringVars, pushVars, Field
<1>12. CASE PopRelease
  BY Zenon, <1>12, NextWraps DEF PopRelease, pushVars
<1>13. CASE PopReturn
  <2>1. incoming.sequence \in Nat /\ incoming.body \in Body
    BY Zenon DEF Frame
  <2>2. PopCheck(incoming) \in {"OK", "INVALID", "BAD_CRC"}
    BY Zenon DEF PopCheck
  <2>3. got' \in Seq([sequence : Nat, body : Body,
                      result : {"OK", "INVALID", "BAD_CRC"}])
    BY <1>13, <2>1, <2>2 DEF PopReturn
  <2> QED  BY Zenon, <1>13, <2>2, <2>3 DEF PopReturn, ringVars, pushVars
<1>14. CASE UNCHANGED vars
  BY <1>14 DEF vars
<1> QED
  BY <1>1, <1>2, <1>3, <1>4, <1>5, <1>6, <1>7, <1>8, <1>9, <1>10, <1>11,
     <1>12, <1>13, <1>14 DEF Next, Push, Pop

-----------------------------------------------------------------------------
(* Arithmetic of mailmsg_ring_count: seen from consumer, indices are       *)
(* numbered 0 .. SLOTS - 1, and moving either index shifts the numbers by  *)
(* one.                                                                    *)
LEMMA CountFacts ==
  ASSUME NEW p \in Index, NEW c \in Index
  PROVE  /\ mailmsg_ring_count(p, c) \in 0 .. SLOTS - 1
         /\ mailmsg_ring_count(p, c) = 0 <=> p = c
         /\ mailmsg_next(p) # c =>
              mailmsg_ring_count(mailmsg_next(p), c) = mailmsg_ring_count(p, c) + 1
         /\ mailmsg_next(p) # c => mailmsg_ring_count(p, c) < SLOTS - 1
         /\ p # c =>
              mailmsg_ring_count(p, mailmsg_next(c)) = mailmsg_ring_count(p, c) - 1
         /\ mailmsg_ring_count(c, mailmsg_next(c)) = SLOTS - 1
         /\ \A i \in Index :
              mailmsg_ring_count(i, c) = mailmsg_ring_count(p, c) => i = p
BY SlotsAssumption, NextWraps DEF mailmsg_ring_count, Index

-----------------------------------------------------------------------------
(* A pop in progress works on an accepted frame, the first one that was    *)
(* not yet returned, and its slot holds that frame complete.               *)
LEMMA HandSlot ==
  ASSUME RingInv, popPc # "idle"
  PROVE  /\ Len(got) + 1 \in 1 .. Len(sent)
         /\ sent[Len(got) + 1] \in Message
         /\ Holds(slot[PopIndex], sent[Len(got) + 1])
<1> USE DEF RingInv
<1>1. /\ producer \in Index /\ consumer \in Index
      /\ Len(sent) \in Nat /\ Len(got) \in Nat /\ released \in BOOLEAN
  BY DEF TypeOK
<1>2. mailmsg_ring_count(producer, consumer) \in 0 .. SLOTS - 1
      /\ (mailmsg_ring_count(producer, consumer) = 0 <=> producer = consumer)
  BY Zenon, <1>1, CountFacts
<1>3. Len(got) + 1 \in 1 .. Len(sent)
  BY <1>1, <1>2, SlotsAssumption DEF PcInv, CountsUnreleased, Taken
<1>4. sent[Len(got) + 1] \in Message
  <2>1. ASSUME NEW S, NEW s \in Seq(S), NEW i \in 1 .. Len(s) PROVE s[i] \in S
    BY <2>1
  <2> QED  BY Zenon, <1>3, <2>1 DEF TypeOK
<1>5. CASE released
  BY Zenon, <1>3, <1>4, <1>5 DEF HandInv, Taken
<1>6. CASE ~released
  <2>1. mailmsg_ring_count(consumer, consumer) = 0
    BY Zenon, <1>1, CountFacts
  <2>2. 0 < mailmsg_ring_count(producer, consumer)
    BY <1>1, <1>2, <1>6, SlotsAssumption DEF PcInv
  <2>3. PopIndex = consumer /\ Taken = Len(got)
    BY <1>1, <1>6 DEF PopIndex, Taken
  <2>4. Holds(slot[consumer], sent[Taken + 0 + 1])
    BY Zenon, <1>1, <2>1, <2>2 DEF SlotInv
  <2> QED  BY <1>1, <1>3, <1>4, <2>3, <2>4
<1> QED  BY Zenon, <1>1, <1>5, <1>6

(* Steps that leave the ring and the histories alone keep what is said     *)
(* about them.                                                             *)
LEMMA RingUntouched ==
  ASSUME RingInv, UNCHANGED <<producer, consumer, slot, released, sent, got>>
  PROVE  CountsUnreleased' /\ SlotInv' /\ HandInv' /\ DeliveredInOrder'
BY Zenon DEF RingInv, CountsUnreleased, SlotInv, HandInv, DeliveredInOrder, Taken,
       PopIndex, Holds

(* Storing into the slot at producer, while the next index is not consumer,*)
(* touches neither an occupied slot nor the one a pop may still be copying.*)
LEMMA StoreElsewhere ==
  ASSUME RingInv, pushPc \in {"fill", "advance"},
         UNCHANGED <<producer, consumer, released, sent, got>>,
         \A i \in Index \ {producer} : slot'[i] = slot[i]
  PROVE  CountsUnreleased' /\ SlotInv' /\ HandInv' /\ DeliveredInOrder'
<1> USE DEF RingInv
<1>1. producer \in Index /\ consumer \in Index /\ released \in BOOLEAN
  BY Zenon DEF TypeOK
<1>2. mailmsg_next(producer) # consumer
  BY Zenon DEF PcInv
<1>3. CountsUnreleased' /\ DeliveredInOrder'
  BY Zenon DEF CountsUnreleased, DeliveredInOrder, Taken
<1>4. SlotInv'
  <2> SUFFICES ASSUME NEW i \in Index,
                      mailmsg_ring_count(i, consumer)
                        < mailmsg_ring_count(producer, consumer)
               PROVE  Holds(slot'[i],
                            sent[Taken + mailmsg_ring_count(i, consumer) + 1])
    BY Zenon DEF SlotInv, Taken
  <2>1. i # producer
    BY <1>1, CountFacts
  <2> QED  BY Zenon, <2>1 DEF SlotInv
<1>5. HandInv'
  <2>1. released => PopIndex # producer
    BY <1>1, <1>2, NextWraps, SlotsAssumption DEF PopIndex, Index
  <2>2. PopIndex \in Index
    BY Zenon, <1>1, PopIndexTyped
  <2>3. PopIndex' = PopIndex /\ Taken' = Taken
    BY Zenon DEF PopIndex, Taken
  <2> QED  BY Zenon, <2>1, <2>2, <2>3 DEF HandInv
<1> QED  BY Zenon, <1>3, <1>4, <1>5

-----------------------------------------------------------------------------
(* Initially the invariant holds: both indices are 0 and nothing was sent. *)
LEMMA RingInit == Init => RingInv
<1> SUFFICES ASSUME Init PROVE RingInv
  BY Zenon
<1> USE DEF Init
<1>1. 0 \in Index /\ mailmsg_ring_count(0, 0) = 0
  BY SlotsAssumption DEF Index, mailmsg_ring_count
<1>2. TypeOK
  BY <1>1, BlankTyped DEF TypeOK
<1>3. \A i \in Index : ~(mailmsg_ring_count(i, 0) < 0)
  BY <1>1, CountFacts
<1> QED
  BY <1>1, <1>2, <1>3, SlotsAssumption
  DEF RingInv, PcInv, CountsUnreleased, SlotInv, HandInv, FillInv, LoadInv,
      DeliveredInOrder, NeverIncomplete, Taken

(* Every step of mailmsg_ring_push preserves the invariant.                *)
LEMMA PushStep ==
  ASSUME RingInv, Push, TypeOK'
  PROVE  RingInv'
<1> USE DEF RingInv
<1>0. /\ producer \in Index /\ consumer \in Index /\ released \in BOOLEAN
      /\ slot \in [Index -> Frame]
      /\ Len(sent) \in Nat /\ Len(got) \in Nat
  BY DEF TypeOK
<1>1. CASE PushInvalid
  BY Zenon, <1>1, RingUntouched
  DEF PushInvalid, ringVars, pushVars, popVars, PcInv, FillInv, LoadInv,
      NeverIncomplete, Holds
<1>2. CASE \E body \in Payload, corrupt \in BOOLEAN : PushBegin(body, corrupt)
  <2> PICK body \in Payload, corrupt \in BOOLEAN : PushBegin(body, corrupt)
    BY Zenon, <1>2
  <2>1. PcInv'
    BY Zenon DEF PushBegin, PcInv, ringVars, popVars, TypeOK
  <2> QED
    BY Zenon, <2>1, RingUntouched
    DEF PushBegin, ringVars, popVars, FillInv, LoadInv, NeverIncomplete
<1>3. CASE PushFull
  BY Zenon, <1>3, RingUntouched
  DEF PushFull, ringVars, popVars, PcInv, FillInv, LoadInv, NeverIncomplete
<1>4. CASE PushRoom
  BY Zenon, <1>4, RingUntouched
  DEF PushRoom, ringVars, popVars, PcInv, FillInv, LoadInv, NeverIncomplete
<1>5. CASE \E f \in Field : PushStore(f)
  <2> PICK f \in Field : PushStore(f)
    BY Zenon, <1>5
  <2>1. \A i \in Index \ {producer} : slot'[i] = slot[i]
    BY Zenon, <1>0 DEF PushStore
  <2>2. CountsUnreleased' /\ SlotInv' /\ HandInv' /\ DeliveredInOrder'
    BY Zenon, <2>1, StoreElsewhere DEF PushStore, popVars
  <2>3. FillInv'
    <3>1. slot'[producer] = [slot[producer] EXCEPT ![f] = Stored(outgoing[1], f)]
      BY Zenon, <1>0 DEF PushStore
    <3>2. slot[producer] \in Frame
      BY Zenon, <1>0
    <3>3. \A g \in Field \ toStore' : slot'[producer][g] = Stored(outgoing[1], g)
      BY <3>1, <3>2 DEF PushStore, FillInv, Frame, Field
    <3> QED  BY Zenon, <3>3 DEF PushStore, FillInv
  <2> QED
    BY Zenon, <2>2, <2>3 DEF PushStore, popVars, PcInv, LoadInv, NeverIncomplete
<1>6. CASE PushCommit
  <2>1. \A i \in Index \ {producer} : slot'[i] = slot[i]
    BY Zenon, <1>0, <1>6 DEF PushCommit
  <2>2. CountsUnreleased' /\ SlotInv' /\ HandInv' /\ DeliveredInOrder'
    BY Zenon, <1>6, <2>1, StoreElsewhere DEF PushCommit, popVars
  <2>3. FillInv'
    <3>1. slot'[producer] = [slot[producer] EXCEPT !.commit = outgoing[1].sequence]
      BY Zenon, <1>0, <1>6 DEF PushCommit
    <3>2. slot[producer] \in Frame
      BY Zenon, <1>0
    <3>3. Holds(slot'[producer], outgoing[1])
      BY <1>6, <3>1, <3>2 DEF PushCommit, FillInv, Holds, Frame, Field
    <3> QED  BY Zenon, <1>6, <3>3 DEF PushCommit, FillInv
  <2> QED
    BY Zenon, <1>6, <2>2, <2>3 DEF PushCommit, popVars, PcInv, LoadInv, NeverIncomplete
<1>7. CASE PushAdvance
  <2> DEFINE n == mailmsg_ring_count(producer, consumer)
  <2>1. /\ mailmsg_next(producer) # consumer
        /\ sent' = Append(sent, outgoing[1])
        /\ producer' = mailmsg_next(producer)
        /\ UNCHANGED <<consumer, slot, released, got>>
    BY Zenon, <1>7 DEF PushAdvance, popVars, PcInv
  <2>2. /\ Len(sent') = Len(sent) + 1
        /\ sent'[Len(sent) + 1] = outgoing[1]
        /\ \A k \in 1 .. Len(sent) : sent'[k] = sent[k]
    BY <2>1 DEF TypeOK
  <2>3. /\ mailmsg_ring_count(producer', consumer) = n + 1
        /\ n \in 0 .. SLOTS - 1 /\ n < SLOTS - 1
    BY Zenon, <1>0, <2>1, CountFacts
  <2>4. Taken' = Taken /\ Taken \in Nat /\ Len(sent) - Taken = n
        /\ PopIndex' = PopIndex
    BY <1>0, <2>1 DEF Taken, CountsUnreleased, PopIndex
  <2>5. CountsUnreleased'
    BY <1>0, <2>1, <2>2, <2>3, <2>4, SlotsAssumption DEF CountsUnreleased
  <2>6. SlotInv'
    <3> SUFFICES ASSUME NEW i \in Index,
                        mailmsg_ring_count(i, consumer) < n + 1
                 PROVE  Holds(slot[i],
                              sent'[Taken + mailmsg_ring_count(i, consumer) + 1])
      BY Zenon, <2>1, <2>3, <2>4 DEF SlotInv
    <3>1. mailmsg_ring_count(i, consumer) \in 0 .. SLOTS - 1
      BY Zenon, <1>0, CountFacts
    <3>2. CASE mailmsg_ring_count(i, consumer) < n
      <4>1. Taken + mailmsg_ring_count(i, consumer) + 1 \in 1 .. Len(sent)
        BY <1>0, <2>3, <2>4, <3>1, <3>2, SlotsAssumption
      <4> QED  BY Zenon, <2>2, <3>2, <4>1 DEF SlotInv
    <3>3. CASE mailmsg_ring_count(i, consumer) = n
      <4>1. i = producer
        BY <1>0, <3>3, CountFacts
      <4>2. Taken + n + 1 = Len(sent) + 1
        BY <1>0, <2>3, <2>4, SlotsAssumption
      <4> QED  BY Zenon, <1>7, <2>2, <3>3, <4>1, <4>2 DEF FillInv, PushAdvance
    <3> QED  BY <2>3, <3>1, <3>2, <3>3, SlotsAssumption
  <2>7. HandInv'
    <3>1. released => Taken \in 1 .. Len(sent)
      BY <1>0, <2>3, <2>4, SlotsAssumption DEF Taken
    <3> QED  BY Zenon, <2>1, <2>2, <2>4, <3>1 DEF HandInv
  <2>8. LoadInv'
    <3>1. popPc # "idle" => sent'[Len(got) + 1] = sent[Len(got) + 1]
      BY Zenon, <2>2, HandSlot
    <3> QED  BY Zenon, <1>7, <3>1 DEF PushAdvance, popVars, LoadInv
  <2>9. DeliveredInOrder'
    BY <1>0, <2>1, <2>2 DEF DeliveredInOrder
  <2>10. PcInv'
    BY <1>7, <2>1 DEF PushAdvance, popVars, PcInv
  <2> QED
    BY Zenon, <1>7, <2>5, <2>6, <2>7, <2>8, <2>9, <2>10
    DEF PushAdvance, FillInv, NeverIncomplete
<1> QED
  BY Zenon, <1>1, <1>2, <1>3, <1>4, <1>5, <1>6, <1>7 DEF Push

(* Every step of mailmsg_ring_pop preserves the invariant.                 *)
LEMMA PopStep ==
  ASSUME RingInv, Pop, TypeOK'
  PROVE  RingInv'
<1> USE DEF RingInv
<1>0. /\ producer \in Index /\ consumer \in Index /\ released \in BOOLEAN
      /\ slot \in [Index -> Frame] /\ incoming \in Frame
      /\ Len(sent) \in Nat /\ Len(got) \in Nat
  BY DEF TypeOK
<1>1. CASE PopEmpty
  BY Zenon, <1>1, RingUntouched
  DEF PopEmpty, ringVars, pushVars, popVars, PcInv, FillInv, LoadInv,
      NeverIncomplete, Holds
<1>2. CASE PopBegin
  BY Zenon, <1>2, RingUntouched
  DEF PopBegin, ringVars, pushVars, PcInv, FillInv, LoadInv, NeverIncomplete,
      Holds
<1>3. CASE \E f \in Field : PopLoad(f)
  <2> PICK f \in Field : PopLoad(f)
    BY Zenon, <1>3
  <2> DEFINE m == sent[Len(got) + 1]
  <2>1. m \in Message /\ Holds(slot[PopIndex], m)
    BY Zenon, HandSlot DEF PopLoad
  <2>2. incoming' = [incoming EXCEPT ![f] = slot[PopIndex][f]]
    BY Zenon DEF PopLoad
  <2>3. \A g \in Field : incoming'[g] = IF g = f THEN slot[PopIndex][f]
                                        ELSE incoming[g]
    BY Zenon, <1>0, <2>2 DEF Frame, Field
  <2>4. /\ Stored(m, "sequence") = m.sequence
        /\ slot[PopIndex]["commit"] = m.sequence
        /\ \A g \in {"sequence", "body", "crc"} : slot[PopIndex][g] = Stored(m, g)
    BY Zenon, <2>1, StoredTypes DEF Holds, Field
  <2>5. LoadInv'
    BY <2>3, <2>4 DEF PopLoad, LoadInv, PcInv, Field
  <2>6. PcInv'
    BY Zenon DEF PopLoad, PcInv, ringVars, pushVars
  <2> QED
    BY Zenon, <2>5, <2>6, RingUntouched
    DEF PopLoad, ringVars, pushVars, FillInv, NeverIncomplete, Holds
<1>4. CASE PopTest
  <2>1. incoming.commit = incoming.sequence
    BY Zenon, <1>4 DEF PopTest, LoadInv
  <2> QED
    BY Zenon, <1>4, <2>1, RingUntouched
    DEF PopTest, ringVars, pushVars, PcInv, FillInv, LoadInv, NeverIncomplete,
        Holds
<1>5. CASE PopRelease
  <2>1. /\ popPc = "copy" /\ ~released /\ released' = TRUE
        /\ consumer' = mailmsg_next(consumer)
        /\ consumer # producer
        /\ UNCHANGED <<producer, slot, sent, got, popPc, incoming, toLoad,
                       pushPc, outgoing, toStore, popResult>>
    BY Zenon, <1>5 DEF PopRelease, pushVars, PcInv
  <2>2. Taken' = Taken + 1 /\ Taken = Len(got) /\ Taken \in Nat
    BY <1>0, <2>1 DEF Taken
  <2>3. PopIndex' = consumer /\ PopIndex = consumer
    BY <1>0, <2>1, NextWraps, SlotsAssumption DEF PopIndex, Index
  <2>4. /\ mailmsg_ring_count(producer, consumer')
             = mailmsg_ring_count(producer, consumer) - 1
        /\ mailmsg_ring_count(producer, consumer) \in 0 .. SLOTS - 1
    BY Zenon, <1>0, <2>1, CountFacts
  <2>5. CountsUnreleased'
    BY <1>0, <2>1, <2>2, <2>4, SlotsAssumption DEF CountsUnreleased
  <2>6. SlotInv'
    <3> SUFFICES ASSUME NEW i \in Index,
                        mailmsg_ring_count(i, consumer')
                          < mailmsg_ring_count(producer, consumer) - 1
                 PROVE  Holds(slot[i],
                          sent[Taken + 1 + mailmsg_ring_count(i, consumer') + 1])
      BY Zenon, <2>1, <2>2, <2>4 DEF SlotInv
    <3>1. i # consumer
      BY <1>0, <2>1, <2>4, CountFacts, SlotsAssumption
    <3>2. /\ mailmsg_ring_count(i, consumer')
               = mailmsg_ring_count(i, consumer) - 1
          /\ mailmsg_ring_count(i, consumer) \in 0 .. SLOTS - 1
      BY <1>0, <2>1, <3>1, CountFacts
    <3>3. Holds(slot[i], sent[Taken + mailmsg_ring_count(i, consumer) + 1])
      BY <2>4, <3>2, SlotsAssumption DEF SlotInv
    <3>4. Taken + 1 + (mailmsg_ring_count(i, consumer) - 1) + 1
            = Taken + mailmsg_ring_count(i, consumer) + 1
      BY <2>2, <3>2, SlotsAssumption
    <3> QED  BY Zenon, <3>2, <3>3, <3>4
  <2>7. HandInv'
    BY Zenon, <2>1, <2>2, <2>3, HandSlot DEF HandInv
  <2>8. PcInv'
    <3>1. mailmsg_next(producer) # mailmsg_next(consumer)
      <4>1. producer # consumer
        BY Zenon, <2>1 DEF PcInv
      <4> QED  BY Zenon, <1>0, <4>1, NextInjective
    <3> QED  BY Zenon, <2>1, <3>1 DEF PcInv
  <2> QED
    BY Zenon, <2>1, <2>5, <2>6, <2>7, <2>8
    DEF FillInv, LoadInv, DeliveredInOrder, NeverIncomplete, Holds
<1>6. CASE PopReturn
  <2> DEFINE m == sent[Len(got) + 1]
  <2>1. /\ popPc = "copy" /\ released /\ toLoad = {} /\ popPc' = "idle"
        /\ released' = FALSE /\ popResult' = PopCheck(incoming)
        /\ got' = Append(got, [sequence |-> incoming.sequence,
                               body |-> incoming.body,
                               result |-> PopCheck(incoming)])
        /\ UNCHANGED <<producer, consumer, slot, sent, pushPc, outgoing, toStore>>
    BY Zenon, <1>6 DEF PopReturn, ringVars, pushVars
  <2>2. m \in Message /\ Len(got) + 1 \in 1 .. Len(sent)
    BY Zenon, <2>1, HandSlot
  <2>3. /\ incoming.sequence = m.sequence
        /\ incoming.body = Stored(m, "body")
        /\ incoming.crc = Crc(m.sequence, m.body)
    BY Zenon, <2>1, <2>2, StoredTypes DEF LoadInv, Stored
  <2>4. /\ PopCheck(incoming) = IF m.corrupt THEN "BAD_CRC" ELSE "OK"
        /\ m.sequence # 0
    <3>1. m.body # Garbled /\ m.corrupt \in BOOLEAN
      BY Zenon, <2>2, GarbledAssumption DEF Message
    <3>2. m.sequence # 0
      BY Zenon, <2>2, StoredTypes
    <3>3. incoming.crc = Crc(incoming.sequence, incoming.body)
            <=> incoming.body = m.body
      BY <2>3 DEF Crc
    <3>4. incoming.body = m.body <=> ~m.corrupt
      BY Zenon, <2>3, <3>1 DEF Stored
    <3> QED  BY Zenon, <2>3, <3>1, <3>2, <3>3, <3>4 DEF PopCheck
  <2>5. /\ Len(got') = Len(got) + 1
        /\ got'[Len(got) + 1] = Outcome(m)
        /\ \A k \in 1 .. Len(got) : got'[k] = got[k]
    <3> DEFINE e == [sequence |-> incoming.sequence, body |-> incoming.body,
                     result |-> PopCheck(incoming)]
    <3>1. e = Outcome(m)
      BY Zenon, <2>3, <2>4 DEF Outcome
    <3>2. got \in Seq([sequence : Nat, body : Body,
                       result : {"OK", "INVALID", "BAD_CRC"}])
      BY Zenon DEF TypeOK
    <3>3. got' = Append(got, e)
      BY Zenon, <2>1
    <3> HIDE DEF e
    <3> QED  BY <3>1, <3>2, <3>3, AppendFacts
  <2>a. released /\ ~released' /\ sent' = sent /\ Len(got') = Len(got) + 1
    BY Zenon, <2>1, <2>5
  <2>6. DeliveredInOrder'
    <3>1. Len(got') <= Len(sent')
      BY <1>0, <2>2, <2>a
    <3>2. ASSUME NEW k \in 1 .. Len(got')  PROVE got'[k] = Outcome(sent'[k])
      <4>1. CASE k = Len(got) + 1  BY Zenon, <2>5, <2>a, <4>1
      <4>2. CASE k # Len(got) + 1
        <5>1. k \in 1 .. Len(got)  BY <1>0, <2>a, <4>2
        <5>2. got[k] = Outcome(sent[k])  BY Zenon, <5>1 DEF DeliveredInOrder
        <5> QED  BY Zenon, <2>5, <2>a, <5>1, <5>2
      <4> QED  BY Zenon, <4>1, <4>2
    <3> QED  BY Zenon, <3>1, <3>2 DEF DeliveredInOrder
  <2>7. Taken' = Taken
    BY <1>0, <2>a DEF Taken
  <2>8. CountsUnreleased' /\ SlotInv'
    BY Zenon, <2>1, <2>7 DEF CountsUnreleased, SlotInv, Holds
  <2>9. NeverIncomplete'
    BY Zenon, <2>1, <2>2, <2>4 DEF NeverIncomplete, Message
  <2> QED
    BY Zenon, <2>1, <2>6, <2>8, <2>9 DEF PcInv, FillInv, LoadInv, HandInv, Holds
<1> QED
  BY Zenon, <1>1, <1>2, <1>3, <1>4, <1>5, <1>6 DEF Pop

(* The invariant holds in every reachable state.                           *)
THEOREM RingInvariant == Spec => []RingInv
<1>1. RingInv /\ [Next]_vars => RingInv'
  <2> SUFFICES ASSUME RingInv, [Next]_vars PROVE RingInv'
    BY Zenon
  <2>1. TypeOK'
    BY Zenon, TypeStep DEF RingInv
  <2>2. CASE Push  BY Zenon, <2>1, <2>2, PushStep
  <2>3. CASE Pop   BY Zenon, <2>1, <2>3, PopStep
  <2>4. CASE UNCHANGED vars
    <3> USE <2>4 DEF vars, RingInv
    <3>1. PcInv' /\ CountsUnreleased'
      BY Zenon DEF PcInv, CountsUnreleased, Taken
    <3>2. SlotInv' /\ HandInv'
      BY Zenon DEF SlotInv, HandInv, Taken, PopIndex, Holds
    <3>3. FillInv' /\ LoadInv'
      BY Zenon DEF FillInv, LoadInv, Holds
    <3>4. DeliveredInOrder' /\ NeverIncomplete'
      BY Zenon DEF DeliveredInOrder, NeverIncomplete
    <3> QED  BY Zenon, <2>1, <3>1, <3>2, <3>3, <3>4
  <2> QED  BY Zenon, <2>2, <2>3, <2>4 DEF Next
<1> QED  BY <1>1, RingInit, PTL DEF Spec

(* The shared ring and the two sides keep their types: in particular both  *)
(* indices stay inside the slot array (mailmsg_ring_push, mailmsg_ring_pop).*)
THEOREM RingTypes == Spec => []TypeOK
<1>1. RingInv => TypeOK  BY Zenon DEF RingInv
<1> QED  BY <1>1, RingInvariant, PTL

(* mailmsg_ring_pop returns the frames mailmsg_ring_push accepted, each    *)
(* once, in order and unchanged, for every ring size of at least two slots.*)
THEOREM RingDelivers == Spec => []DeliveredInOrder
<1>1. RingInv => DeliveredInOrder  BY Zenon DEF RingInv
<1> QED  BY <1>1, RingInvariant, PTL

(* mailmsg_ring_pop never meets an uncommitted frame.                      *)
THEOREM RingNeverIncomplete == Spec => []NeverIncomplete
<1>1. RingInv => NeverIncomplete  BY Zenon DEF RingInv
<1> QED  BY <1>1, RingInvariant, PTL

(* The indices count the unreleased frames, at most SLOTS - 1.             *)
THEOREM RingCounts == Spec => []CountsUnreleased
<1>1. RingInv => CountsUnreleased  BY Zenon DEF RingInv
<1> QED  BY <1>1, RingInvariant, PTL

-----------------------------------------------------------------------------
(***************************************************************************)
(* The ring implements the bounded queue, for every number of slots and of *)
(* frames.  The queue is the part of sent that no pop has released.  By    *)
(* CountsUnreleased the two indices measure its length; so storing the     *)
(* producer index is a Put with room left, storing the consumer index a    *)
(* Take, and FULL and EMPTY are told of a full and an empty queue.  The    *)
(* return of a pop is a Return because what it copied is the frame it took *)
(* (DeliveredInOrder, kept by RingInv).                                    *)
(***************************************************************************)

\* What the queue, the hand and the results of MailMsgFifo are made of.
fifoView == <<sent, got, released, pushResult, popResult>>

\* A step that leaves these is invisible to the queue.
LEMMA FifoStutter ==
  ASSUME UNCHANGED fifoView
  PROVE  UNCHANGED Fifo!fifoVars
BY Zenon DEF fifoView, Fifo!fifoVars, Taken

(* What is behind a position of a sequence.                                *)
LEMMA Rest ==
  ASSUME NEW S, NEW v \in Seq(S), NEW m \in Nat, NEW n \in Nat, Len(v) = n, m <= n
  PROVE  /\ SubSeq(v, m + 1, n) \in Seq(S)
         /\ Len(SubSeq(v, m + 1, n)) = n - m
         /\ \A i \in 1 .. n - m : SubSeq(v, m + 1, n)[i] = v[m + i]
OBVIOUS

(* The queue behind a position of a history: what an append makes of it.   *)
LEMMA RestAppend ==
  ASSUME NEW S, NEW s \in Seq(S), NEW t \in 0 .. Len(s), NEW e \in S
  PROVE  SubSeq(Append(s, e), t + 1, Len(s) + 1)
           = Append(SubSeq(s, t + 1, Len(s)), e)
<1> DEFINE n == Len(s)
           v == Append(s, e)
           q == SubSeq(s, t + 1, n)
           w == SubSeq(v, t + 1, n + 1)
<1>1. /\ n \in Nat /\ t \in Nat /\ t <= n
      /\ v \in Seq(S) /\ Len(v) = n + 1 /\ v[n + 1] = e
  OBVIOUS
<1>2. \A k \in 1 .. n : v[k] = s[k]
  OBVIOUS
<1>3. Len(s) = n
  BY Zenon
<1> HIDE DEF n, v
<1>4. n + 1 \in Nat /\ t <= n + 1 /\ (n + 1) - t = n - t + 1
  BY <1>1
<1>5. q \in Seq(S) /\ Len(q) = n - t /\ \A i \in 1 .. n - t : q[i] = s[t + i]
  BY <1>1, <1>3, Rest
<1>6. /\ w \in Seq(S) /\ Len(w) = (n + 1) - t
      /\ \A i \in 1 .. (n + 1) - t : w[i] = v[t + i]
  BY <1>1, <1>4, Rest
<1> HIDE DEF q, w
<1>7. /\ Append(q, e) \in Seq(S) /\ Len(Append(q, e)) = n - t + 1
      /\ Append(q, e)[n - t + 1] = e
      /\ \A i \in 1 .. n - t : Append(q, e)[i] = q[i]
  <2>1. q \in Seq(S) /\ Len(q) = n - t
    BY Zenon, <1>5
  <2>2. /\ Append(q, e) \in Seq(S) /\ Len(Append(q, e)) = Len(q) + 1
        /\ Append(q, e)[Len(q) + 1] = e
    BY <2>1
  <2>3. \A i \in 1 .. Len(q) : Append(q, e)[i] = q[i]
    BY <2>1
  <2> QED  BY Zenon, <2>1, <2>2, <2>3
<1>8. ASSUME NEW i \in 1 .. n - t + 1 PROVE w[i] = Append(q, e)[i]
  <2>1. w[i] = v[t + i]
    BY Zenon, <1>4, <1>6
  <2>2. CASE i = n - t + 1
    <3>1. t + i = n + 1
      BY <1>1, <2>2
    <3> QED  BY Zenon, <1>1, <1>7, <2>1, <2>2, <3>1
  <2>3. CASE i # n - t + 1
    <3>1. i \in 1 .. n - t /\ t + i \in 1 .. n
      BY <1>1, <2>3
    <3> QED  BY Zenon, <1>2, <1>5, <1>7, <2>1, <3>1
  <2> QED  BY Zenon, <2>2, <2>3
<1>9. w = Append(q, e)
  BY Zenon, <1>4, <1>6, <1>7, <1>8, SeqEqual
<1> QED  BY Zenon, <1>9 DEF q, w, n, v

(* The queue behind a position of a history: its first frame and the rest. *)
LEMMA RestTail ==
  ASSUME NEW S, NEW s \in Seq(S), NEW t \in 0 .. Len(s) - 1
  PROVE  /\ SubSeq(s, t + 1, Len(s)) # <<>>
         /\ Head(SubSeq(s, t + 1, Len(s))) = s[t + 1]
         /\ Tail(SubSeq(s, t + 1, Len(s))) = SubSeq(s, t + 2, Len(s))
<1>1. /\ Len(s) \in Nat /\ t \in Nat /\ t <= Len(s)
      /\ Len(s) - t # 0 /\ (t + 1) + 1 = t + 2
      /\ t + 1 \in 1 .. Len(s) /\ Len(s) \in t + 1 .. Len(s)
  OBVIOUS
<1>2. Len(SubSeq(s, t + 1, Len(s))) = Len(s) - t
  <2> DEFINE n == Len(s)
  <2>1. n \in Nat /\ t \in Nat /\ t <= n /\ Len(s) = n
    BY Zenon, <1>1
  <2> HIDE DEF n
  <2>2. Len(SubSeq(s, t + 1, n)) = n - t
    BY <2>1, Rest
  <2> QED  BY Zenon, <2>2 DEF n
<1>3. SubSeq(s, t + 1, Len(s)) # <<>>
  <2> DEFINE q == SubSeq(s, t + 1, Len(s))
  <2> HIDE DEF q
  <2>1. Len(q) # 0
    BY Zenon, <1>1, <1>2 DEF q
  <2>2. q # <<>>
    BY <2>1
  <2> QED  BY Zenon, <2>2 DEF q
<1> QED  BY Zenon, <1>1, <1>3, HeadTailOfSubSeq

(* How much of the history is taken, and what the indices say of the rest. *)
LEMMA TakenFacts ==
  ASSUME RingInv
  PROVE  /\ sent \in Seq(Message) /\ Len(sent) \in Nat
         /\ Taken \in 0 .. Len(sent)
         /\ released => Taken >= 1
         /\ Len(sent) - Taken = mailmsg_ring_count(producer, consumer)
<1>1. /\ producer \in Index /\ consumer \in Index /\ released \in BOOLEAN
      /\ sent \in Seq(Message) /\ Len(sent) \in Nat /\ Len(got) \in Nat
  BY DEF RingInv, TypeOK
<1>2. Taken \in Nat /\ (released => Taken >= 1)
  BY <1>1 DEF Taken
<1>3. /\ Len(sent) - Taken = mailmsg_ring_count(producer, consumer)
      /\ mailmsg_ring_count(producer, consumer) >= 0
  BY <1>1, CountFacts, SlotsAssumption DEF RingInv, CountsUnreleased
<1> QED BY <1>1, <1>2, <1>3

-----------------------------------------------------------------------------
(* mailmsg_ring_push, seen from the queue: the store of the producer index *)
(* puts a frame where there is room, FULL is told of a full queue, and the *)
(* stores into the slot are invisible.                                     *)
LEMMA PushImplements ==
  ASSUME RingInv, Push
  PROVE  [Fifo!FifoNext]_(Fifo!fifoVars)
<1> DEFINE q == SubSeq(sent, Taken + 1, Len(sent))
<1>0. /\ producer \in Index /\ consumer \in Index
      /\ sent \in Seq(Message) /\ Len(sent) \in Nat /\ Taken \in 0 .. Len(sent)
      /\ Len(sent) - Taken = mailmsg_ring_count(producer, consumer)
      /\ released => Taken >= 1
  BY Zenon, TakenFacts DEF RingInv, TypeOK
<1>1. CASE PushInvalid
  <2>1. UNCHANGED <<sent, got, released, popResult>> /\ pushResult' = "INVALID"
    BY Zenon, <1>1 DEF PushInvalid, popVars
  <2>2. Fifo!RefuseInvalid
    BY Zenon, <2>1 DEF Fifo!RefuseInvalid, Taken
  <2> QED  BY Zenon, <2>2 DEF Fifo!FifoNext
<1>2. CASE PushFull
  <2>1. /\ UNCHANGED <<sent, got, released, popResult>> /\ pushResult' = "FULL"
        /\ consumer = mailmsg_next(producer)
    BY Zenon, <1>2 DEF PushFull, popVars
  <2>2. mailmsg_ring_count(producer, consumer) = SLOTS - 1
    BY Zenon, <1>0, <2>1, CountFacts
  <2>3. Len(q) = SLOTS - 1
    BY <1>0, <2>2
  <2>4. Fifo!RefuseFull
    BY Zenon, <2>1, <2>3 DEF Fifo!RefuseFull, Taken
  <2> QED  BY Zenon, <2>4 DEF Fifo!FifoNext
<1>3. CASE PushAdvance
  <2>1. /\ UNCHANGED <<got, released, popResult>> /\ pushResult' = "OK"
        /\ sent' = Append(sent, outgoing[1])
        /\ mailmsg_next(producer) # consumer
        /\ outgoing[1] \in Message
    BY Zenon, <1>3, OutgoingTyped DEF PushAdvance, popVars, RingInv, PcInv
  <2>2. Taken' = Taken /\ Len(sent') = Len(sent) + 1
    BY Zenon, <1>0, <2>1, AppendFacts DEF Taken
  <2>3. q \in Seq(Message) /\ Len(q) = Len(sent) - Taken
    BY <1>0
  <2>4. Len(q) < SLOTS - 1
    BY <1>0, <2>1, <2>3, CountFacts
  <2>5. q' = Append(q, outgoing[1])
    <3>1. SubSeq(Append(sent, outgoing[1]), Taken + 1, Len(sent) + 1)
            = Append(SubSeq(sent, Taken + 1, Len(sent)), outgoing[1])
      BY ZenonT(30), <1>0, <2>1, RestAppend
    <3> QED  BY Zenon, <2>1, <2>2, <3>1
  <2>6. released => sent'[Taken] = sent[Taken]
    BY <1>0, <2>1, AppendFacts
  <2>7. Fifo!Put(outgoing[1])
    <3>1. UNCHANGED (IF released THEN <<sent[Taken]>> ELSE <<>>)
      BY Zenon, <2>1, <2>2, <2>6
    <3> QED  BY Zenon, <2>1, <2>4, <2>5, <3>1 DEF Fifo!Put
  <2> QED  BY Zenon, <2>1, <2>7 DEF Fifo!FifoNext
<1>4. CASE \/ \E body \in Payload, corrupt \in BOOLEAN : PushBegin(body, corrupt)
           \/ PushRoom \/ (\E f \in Field : PushStore(f)) \/ PushCommit
  <2>1. UNCHANGED fifoView
    BY Zenon, <1>4 DEF PushBegin, PushRoom, PushStore, PushCommit, popVars, fifoView
  <2> QED  BY Zenon, <2>1, FifoStutter
<1> QED  BY Zenon, <1>1, <1>2, <1>3, <1>4 DEF Push

(* mailmsg_ring_pop, seen from the queue: the store of the consumer index  *)
(* takes the first frame, the return tells what was taken, EMPTY is told   *)
(* of an empty queue, and the loads out of the slot are invisible.         *)
LEMMA PopImplements ==
  ASSUME RingInv, RingInv', Pop
  PROVE  [Fifo!FifoNext]_(Fifo!fifoVars)
<1> DEFINE q == SubSeq(sent, Taken + 1, Len(sent))
<1>0. /\ producer \in Index /\ consumer \in Index /\ released \in BOOLEAN
      /\ sent \in Seq(Message) /\ Len(sent) \in Nat /\ Len(got) \in Nat
      /\ Taken \in 0 .. Len(sent)
      /\ Len(sent) - Taken = mailmsg_ring_count(producer, consumer)
  BY TakenFacts DEF RingInv, TypeOK
<1>1. CASE PopEmpty
  <2>1. /\ UNCHANGED <<sent, got, released, pushResult>> /\ popResult' = "EMPTY"
        /\ consumer = producer
    BY Zenon, <1>1 DEF PopEmpty, popVars
  <2>2. mailmsg_ring_count(producer, consumer) = 0
    BY Zenon, <1>0, <2>1, CountFacts
  <2>3. q = <<>>
    BY <1>0, <2>2, SubSeqEmpty
  <2>4. Fifo!FindEmpty
    BY Zenon, <2>1, <2>3 DEF Fifo!FindEmpty, Taken
  <2> QED  BY Zenon, <2>4 DEF Fifo!FifoNext
<1>2. CASE PopRelease
  <2>1. /\ ~released /\ released' = TRUE /\ consumer # producer
        /\ UNCHANGED <<sent, got, pushResult, popResult>>
    BY Zenon, <1>2 DEF PopRelease, RingInv, PcInv
  <2>2. Taken' = Taken + 1 /\ Taken < Len(sent)
    <3>1. mailmsg_ring_count(producer, consumer) > 0
      BY <1>0, <2>1, CountFacts, SlotsAssumption
    <3> QED  BY <1>0, <2>1, <3>1 DEF Taken
  <2>3. Taken \in 0 .. Len(sent) - 1
    BY <1>0, <2>2
  <2>4. /\ q # <<>> /\ Head(q) = sent[Taken + 1]
        /\ Tail(q) = SubSeq(sent, Taken + 2, Len(sent))
    BY Zenon, <1>0, <2>3, RestTail
  <2>5. q' = Tail(q)
    <3>1. Taken' + 1 = Taken + 2
      BY <1>0, <2>2
    <3> QED  BY Zenon, <2>1, <2>4, <3>1
  <2>6. Fifo!Take
    BY Zenon, <2>1, <2>2, <2>4, <2>5 DEF Fifo!Take
  <2> QED  BY Zenon, <2>6 DEF Fifo!FifoNext
<1>3. CASE PopReturn
  <2> DEFINE m == sent[Taken]
             e == [sequence |-> incoming.sequence, body |-> incoming.body,
                   result |-> PopCheck(incoming)]
  <2>1. /\ released /\ released' = FALSE /\ UNCHANGED <<sent, pushResult>>
        /\ popResult' = PopCheck(incoming) /\ got' = Append(got, e)
    BY Zenon, <1>3 DEF PopReturn
  <2>2. Len(got') = Len(got) + 1 /\ got'[Len(got) + 1] = e
    <3>1. got \in Seq([sequence : Nat, body : Body,
                       result : {"OK", "INVALID", "BAD_CRC"}])
      BY Zenon DEF RingInv, TypeOK
    <3> HIDE DEF e
    <3> QED  BY Zenon, <2>1, <3>1, AppendFacts
  <2>3. Taken = Len(got) + 1 /\ Taken' = Taken
    BY <1>0, <2>1, <2>2 DEF Taken
  <2>4. e = Outcome(m)
    <3> HIDE DEF e
    <3>1. \A k \in 1 .. Len(got') : got'[k] = Outcome(sent'[k])
      BY Zenon DEF RingInv, DeliveredInOrder
    <3>2. Len(got) + 1 \in 1 .. Len(got')
      BY <1>0, <2>2
    <3>3. got'[Len(got) + 1] = Outcome(sent'[Len(got) + 1])
      BY Zenon, <3>1, <3>2
    <3> QED  BY Zenon, <2>1, <2>2, <2>3, <3>3
  <2>5. Outcome(m) = Fifo!Outcome(m)
    BY Zenon DEF Outcome, Stored, Fifo!Outcome
  <2>6. popResult' = Fifo!Outcome(m).result
    BY <2>1, <2>4, <2>5
  <2>7. Fifo!Return
    <3> HIDE DEF e
    <3> QED  BY Zenon, <2>1, <2>3, <2>4, <2>5, <2>6 DEF Fifo!Return
  <2> QED  BY Zenon, <2>7 DEF Fifo!FifoNext
<1>4. CASE PopBegin \/ (\E f \in Field : PopLoad(f))
  <2>1. UNCHANGED fifoView
    BY Zenon, <1>4 DEF PopBegin, PopLoad, fifoView
  <2> QED  BY Zenon, <2>1, FifoStutter
<1>5. CASE PopTest
  <2>1. UNCHANGED fifoView
    BY Zenon, <1>5 DEF PopTest, fifoView, RingInv, NeverIncomplete
  <2> QED  BY Zenon, <2>1, FifoStutter
<1> QED  BY Zenon, <1>1, <1>2, <1>3, <1>4, <1>5 DEF Pop

(* The ring of mailmsg.c implements the bounded queue of MailMsgFifo, with *)
(* SLOTS - 1 places, for every SLOTS >= 2: every step of mailmsg_ring_push *)
(* and mailmsg_ring_pop is a step of the queue or leaves it as it is.      *)
THEOREM RingImplementsFifo == Spec => ImplementsFifo
<1>1. Init => Fifo!FifoInit
  <2> SUFFICES ASSUME Init PROVE Fifo!FifoInit
    BY Zenon
  <2>1. sent = <<>> /\ got = <<>> /\ ~released /\ Taken = 0
    BY DEF Init, Taken
  <2>2. SubSeq(sent, Taken + 1, Len(sent)) = <<>>
    BY <2>1, SubSeqEmpty
  <2> QED  BY Zenon, <2>1, <2>2 DEF Init, Fifo!FifoInit
<1>2. RingInv /\ RingInv' /\ [Next]_vars => [Fifo!FifoNext]_(Fifo!fifoVars)
  <2> SUFFICES ASSUME RingInv, RingInv', [Next]_vars
               PROVE  [Fifo!FifoNext]_(Fifo!fifoVars)
    BY Zenon
  <2>1. CASE Push  BY Zenon, <2>1, PushImplements
  <2>2. CASE Pop   BY Zenon, <2>2, PopImplements
  <2>3. CASE UNCHANGED vars
    <3>1. UNCHANGED fifoView
      BY Zenon, <2>3 DEF vars, fifoView
    <3> QED  BY Zenon, <3>1, FifoStutter
  <2> QED  BY Zenon, <2>1, <2>2, <2>3 DEF Next
<1> QED  BY <1>1, <1>2, RingInvariant, PTL DEF Spec, ImplementsFifo, Fifo!FifoSpec

-----------------------------------------------------------------------------
(***************************************************************************)
(* Proofs about MailMsgReader for every set of open files and every ring   *)
(* capacity: the ring has one reader, and no reader sleeps on work.        *)
(*                                                                         *)
(* The argument.  OneReader: a claim is granted only while the counter is  *)
(* 0, and the counter is 0 only while nobody holds a claim.                *)
(* NobodySleepsOnWork: a call goes to sleep only when it has found the     *)
(* ring empty in an ACTIVE session.  A frame that arrives later arrives    *)
(* with its doorbell due, the doorbell turns into the callback, and the    *)
(* callback, like the end of the session, ends every sleep that began      *)
(* with an earlier sample or registration.                                 *)
(***************************************************************************)

ReaderInv == ReaderTypeOK /\ OneReader /\ NobodySleepsOnWork

-----------------------------------------------------------------------------
(* A call of one file moves that file and leaves every other where it is.  *)
LEMMA GotoFacts ==
  ASSUME ReaderTypeOK, NEW f \in File, NEW from, NEW to, Goto(f, from, to)
  PROVE  pc[f] = from /\ pc'[f] = to /\ \A g \in File \ {f} : pc'[g] = pc[g]
BY Zenon DEF Goto, ReaderTypeOK

(* No program counter leaves its set when a file moves inside it.          *)
LEMMA GotoTyped ==
  ASSUME ReaderTypeOK, NEW f \in File, NEW from,
         NEW to \in {"closed", "open", "sample", "receive", "sleep", "poll",
                     "pollsleep"},
         Goto(f, from, to)
  PROVE  pc' \in [File -> {"closed", "open", "sample", "receive", "sleep",
                           "poll", "pollsleep"}]
BY Zenon DEF Goto, ReaderTypeOK

(* A claim that is granted leaves exactly one claim, the caller's          *)
(* (r1_amp_mailmsg_user_claim_reader).                                     *)
LEMMA ClaimGranted ==
  ASSUME ReaderTypeOK, OneReader, NEW f \in File, r1_amp_mailmsg_user_claim_reader(f)
  PROVE  /\ claimed' = {f} /\ reader_open_count' = 1
         /\ \A g \in claimed : g = f
<1>1. CASE f \in claimed
  BY <1>1 DEF OneReader, ReaderTypeOK, r1_amp_mailmsg_user_claim_reader
<1>2. CASE f \notin claimed
  <2>1. reader_open_count = 0
    BY Zenon, <1>2 DEF r1_amp_mailmsg_user_claim_reader, MayClaim
  <2>2. claimed = {}
    BY <2>1 DEF OneReader, ReaderTypeOK
  <2> QED  BY <1>2, <2>1, <2>2 DEF r1_amp_mailmsg_user_claim_reader
<1> QED  BY Zenon, <1>1, <1>2

(* The initial state satisfies the invariant: all files are closed.        *)
LEMMA ReaderStarts == ReaderInit => ReaderInv
<1> SUFFICES ASSUME ReaderInit PROVE ReaderInv
  BY Zenon
<1>1. ReaderTypeOK
  <2>1. 0 \in 0 .. RingCapacity /\ 0 \in Nat
    BY ReaderAssumption
  <2>2. pc \in [File -> {"closed", "open", "sample", "receive", "sleep", "poll",
                        "pollsleep"}]
    BY Zenon DEF ReaderInit
  <2>3. claimed \subseteq File /\ current \subseteq File /\ waiting \subseteq File
    BY Zenon DEF ReaderInit
  <2> QED  BY <2>1, <2>2, <2>3, Zenon DEF ReaderInit, ReaderTypeOK
<1>2. \A f \in File : pc[f] = "closed"
  BY Zenon DEF ReaderInit
<1>3. OneReader
  BY <1>2 DEF ReaderInit, OneReader
<1>4. NobodySleepsOnWork
  BY Zenon, <1>2 DEF NobodySleepsOnWork, Asleep
<1> QED  BY Zenon, <1>1, <1>3, <1>4 DEF ReaderInv

-----------------------------------------------------------------------------
(* Every call of a file keeps the types.                                   *)
LEMMA FileTypes ==
  ASSUME ReaderTypeOK, OneReader, NEW f \in File, FileStep(f) \/ FileCall(f)
  PROVE  ReaderTypeOK'
<1>1. pc' \in [File -> {"closed", "open", "sample", "receive", "sleep", "poll",
                        "pollsleep"}]
  BY Zenon, GotoTyped
  DEF FileStep, FileCall, ReadSample, ReadReceive, ReadWake, PollCheck, PollWake,
      r1_amp_mailmsg_user_open, r1_amp_mailmsg_user_release, ReadBegin,
      ReadInterrupted, PollBegin, PollTimeout
<1>2. claimed' \subseteq File /\ reader_open_count' \in Nat
  <2>1. CASE r1_amp_mailmsg_user_release(f)
    BY <2>1 DEF r1_amp_mailmsg_user_release, ReaderTypeOK, OneReader
  <2>2. CASE r1_amp_mailmsg_user_claim_reader(f)
    BY <2>2, ClaimGranted
  <2>3. CASE UNCHANGED claimVars
    BY Zenon, <2>3 DEF claimVars, ReaderTypeOK
  <2> QED
    BY Zenon, <2>1, <2>2, <2>3
    DEF FileStep, FileCall, ReadSample, ReadReceive, ReadWake, PollCheck,
        PollWake, r1_amp_mailmsg_user_open, ReadBegin, ReadInterrupted,
        PollBegin, PollTimeout
<1>3. ring' \in 0 .. RingCapacity /\ UNCHANGED <<mailmsg_state, cpu3Vars>>
  BY ReaderAssumption
  DEF ReaderTypeOK, FileStep, FileCall, ReadSample, ReadReceive, ReadWake, PollCheck,
      PollWake, r1_amp_mailmsg_user_open, r1_amp_mailmsg_user_release, ReadBegin,
      ReadInterrupted, PollBegin, PollTimeout
<1>4. current' \subseteq File /\ waiting' \subseteq File
  BY Zenon DEF ReaderTypeOK, FileStep, FileCall, ReadSample, ReadReceive, ReadWake, PollCheck,
      PollWake, r1_amp_mailmsg_user_open, r1_amp_mailmsg_user_release, ReadBegin,
      ReadInterrupted, PollBegin, PollTimeout, wakeVars
<1> QED  BY Zenon, <1>1, <1>2, <1>3, <1>4 DEF ReaderTypeOK, cpu3Vars

(* Every call of a file keeps the single claim.                            *)
LEMMA FileOneReader ==
  ASSUME ReaderTypeOK, OneReader, NEW f \in File, FileStep(f) \/ FileCall(f)
  PROVE  OneReader'
<1>1. CASE r1_amp_mailmsg_user_open(f)
  BY Zenon, <1>1, GotoFacts DEF r1_amp_mailmsg_user_open, OneReader, claimVars
<1>2. CASE r1_amp_mailmsg_user_release(f)
  <2>1. /\ pc'[f] = "closed" /\ \A g \in File \ {f} : pc'[g] = pc[g]
        /\ reader_open_count' = reader_open_count - (IF f \in claimed THEN 1 ELSE 0)
        /\ claimed' = claimed \ {f}
    BY Zenon, <1>2, GotoFacts DEF r1_amp_mailmsg_user_release
  <2>2. reader_open_count' <= 1
    <3>1. reader_open_count \in Nat /\ reader_open_count <= 1
      BY Zenon DEF ReaderTypeOK, OneReader
    <3> QED BY <2>1, <3>1
  <2>3. ASSUME NEW g \in File, g \in claimed'
        PROVE  claimed' = {g} /\ reader_open_count' = 1
    <3>1. g # f /\ g \in claimed  BY Zenon, <2>1, <2>3
    <3>2. claimed = {g} /\ reader_open_count = 1  BY Zenon, <3>1 DEF OneReader
    <3> QED  BY <2>1, <3>1, <3>2
  <2>4. ASSUME NEW g \in File, pc'[g] \notin {"closed", "open"}
        PROVE  g \in claimed'
    BY Zenon, <2>1, <2>4 DEF OneReader
  <2> QED  BY Zenon, <2>2, <2>3, <2>4 DEF OneReader
<1>3. CASE ReadBegin(f) \/ PollBegin(f)
  <2>1. claimed' = {f} /\ reader_open_count' = 1 /\ \A g \in claimed : g = f
    BY Zenon, <1>3, ClaimGranted DEF ReadBegin, PollBegin
  <2>2. \A g \in File \ {f} : pc'[g] = pc[g]
    BY Zenon, <1>3, GotoFacts DEF ReadBegin, PollBegin
  <2> QED  BY <2>1, <2>2 DEF OneReader
<1>4. CASE \/ ReadSample(f) \/ ReadReceive(f) \/ ReadWake(f) \/ PollCheck(f)
           \/ PollWake(f) \/ ReadInterrupted(f) \/ PollTimeout(f)
  <2>1. /\ pc[f] \notin {"closed", "open"} /\ \A g \in File \ {f} : pc'[g] = pc[g]
        /\ UNCHANGED <<claimed, reader_open_count>>
    <3>1. CASE ReadSample(f) \/ ReadInterrupted(f) \/ PollTimeout(f)
      BY <3>1, GotoFacts DEF ReadSample, ReadInterrupted, PollTimeout, claimVars
    <3>2. CASE ReadReceive(f)
      BY <3>2, GotoFacts DEF ReadReceive, claimVars
    <3>3. CASE ReadWake(f) \/ PollWake(f)
      BY <3>3, GotoFacts DEF ReadWake, PollWake, claimVars
    <3>4. CASE PollCheck(f)
      BY <3>4, GotoFacts DEF PollCheck, claimVars
    <3> QED BY Zenon, <1>4, <3>1, <3>2, <3>3, <3>4
  <2> QED  BY Zenon, <2>1 DEF OneReader
<1> QED  BY Zenon, <1>1, <1>2, <1>3, <1>4 DEF FileStep, FileCall

(* A call that goes to sleep has found the ring empty and the session      *)
(* ACTIVE (the receive under data->lock, the look of poll); no other call  *)
(* of a file puts anyone to sleep or adds a frame.                         *)
LEMMA FileSleeps ==
  ASSUME ReaderTypeOK, NobodySleepsOnWork, NEW f \in File, FileStep(f) \/ FileCall(f)
  PROVE  NobodySleepsOnWork'
<1>1. CASE ReadReceive(f)
  <2>1. /\ pc'[f] = IF mailmsg_state = "ACTIVE" /\ ring = 0 /\ f \notin NonBlock
                    THEN "sleep" ELSE "open"
        /\ \A g \in File \ {f} : pc'[g] = pc[g]
        /\ ring' = IF mailmsg_state = "ACTIVE" /\ ring > 0 THEN ring - 1 ELSE ring
        /\ UNCHANGED <<mailmsg_state, ringing, b2a, callback, current, waiting>>
    BY Zenon, <1>1, GotoFacts DEF ReadReceive, cpu3Vars, wakeVars
  <2>2. ring' > 0 => ring > 0
    BY Zenon, <2>1, ReaderAssumption DEF ReaderTypeOK
  <2>3. Asleep(f)' => mailmsg_state' = "ACTIVE" /\ ~(ring' > 0)
    BY <2>1 DEF Asleep
  <2>4. \A g \in File \ {f} : Asleep(g)' => Asleep(g)
    BY Zenon, <2>1 DEF Asleep
  <2> QED  BY ZenonT(30), <2>1, <2>2, <2>3, <2>4 DEF NobodySleepsOnWork
<1>2. CASE PollCheck(f)
  <2>1. /\ pc'[f] = IF mailmsg_state = "ACTIVE" /\ ring = 0 THEN "pollsleep"
                    ELSE "open"
        /\ \A g \in File \ {f} : pc'[g] = pc[g]
        /\ UNCHANGED <<mailmsg_state, ring, ringing, b2a, callback, current,
                       waiting>>
    BY Zenon, <1>2, GotoFacts DEF PollCheck, cpu3Vars, wakeVars
  <2>2. Asleep(f)' => mailmsg_state' = "ACTIVE" /\ ~(ring' > 0)
    BY <2>1 DEF Asleep
  <2>3. \A g \in File \ {f} : Asleep(g)' => Asleep(g)
    BY Zenon, <2>1 DEF Asleep
  <2> QED  BY Zenon, <2>1, <2>2, <2>3 DEF NobodySleepsOnWork
<1>3. CASE \/ ReadSample(f) \/ ReadWake(f) \/ PollWake(f)
           \/ r1_amp_mailmsg_user_open(f) \/ r1_amp_mailmsg_user_release(f)
           \/ ReadBegin(f) \/ ReadInterrupted(f) \/ PollBegin(f) \/ PollTimeout(f)
  <2>1. /\ pc'[f] \notin {"sleep", "pollsleep"}
        /\ \A g \in File \ {f} : pc'[g] = pc[g]
    <3>1. CASE ReadSample(f) \/ ReadWake(f) \/ PollWake(f)
      BY <3>1, GotoFacts DEF ReadSample, ReadWake, PollWake
    <3>2. CASE r1_amp_mailmsg_user_open(f) \/ r1_amp_mailmsg_user_release(f)
      <4>1. Goto(f, "closed", "open") \/ Goto(f, "open", "closed")
        BY Zenon, <3>2 DEF r1_amp_mailmsg_user_open, r1_amp_mailmsg_user_release
      <4> QED BY <4>1, GotoFacts
    <3>3. CASE ReadBegin(f) \/ PollBegin(f)
      BY <3>3, GotoFacts DEF ReadBegin, PollBegin
    <3>4. CASE ReadInterrupted(f) \/ PollTimeout(f)
      BY <3>4, GotoFacts DEF ReadInterrupted, PollTimeout
    <3> QED BY Zenon, <1>3, <3>1, <3>2, <3>3, <3>4
  <2>2. /\ UNCHANGED <<mailmsg_state, ring, ringing, b2a, callback>>
        /\ current' \subseteq current \cup {f} /\ waiting' \subseteq waiting \cup {f}
    BY Zenon, <1>3
    DEF ReadSample, ReadWake, PollWake, r1_amp_mailmsg_user_open,
        r1_amp_mailmsg_user_release, ReadBegin, ReadInterrupted, PollBegin,
        PollTimeout, cpu3Vars, wakeVars
  <2>3. \A g \in File : Asleep(g)' => Asleep(g)
    BY Zenon, <2>1, <2>2 DEF Asleep
  <2> QED  BY Zenon, <2>2, <2>3 DEF NobodySleepsOnWork
<1> QED  BY Zenon, <1>1, <1>2, <1>3 DEF FileStep, FileCall

(* CPU3, the mailbox, the sysfs drain and the end and start of a session   *)
(* keep the invariant.                                                     *)
LEMMA DriverStep ==
  ASSUME ReaderInv,
         \/ Wakeup \/ Cpu3Push \/ mailmsg_response_show
         \/ r1_amp_mailmsg_mark_offline_locked \/ Restart
  PROVE  ReaderInv'
<1> USE DEF ReaderInv
<1>1. ReaderTypeOK'
  <2> USE DEF Wakeup, mailmsg_cpu3_notify, MailboxAcknowledge,
        r1_amp_mbox_rx_callback, Cpu3Push, mailmsg_response_show,
        r1_amp_mailmsg_mark_offline_locked, Restart, WakeAll, cpu3Vars,
        claimVars, wakeVars
  <2>1. ring' \in 0 .. RingCapacity
    BY ReaderAssumption DEF ReaderTypeOK
  <2>2. /\ UNCHANGED <<pc, claimed, reader_open_count>>
        /\ mailmsg_state' \in {"ACTIVE", "OFFLINE"}
        /\ current' \subseteq current /\ waiting' \subseteq waiting
    BY Zenon DEF ReaderTypeOK
  <2>3. ringing' \in BOOLEAN /\ b2a' \in BOOLEAN /\ callback' \in BOOLEAN
    BY Zenon DEF ReaderTypeOK
  <2> QED  BY Zenon, <2>1, <2>2, <2>3 DEF ReaderTypeOK
<1>2. UNCHANGED <<pc, claimed, reader_open_count>>
  BY Zenon DEF Wakeup, mailmsg_cpu3_notify, MailboxAcknowledge,
      r1_amp_mbox_rx_callback, Cpu3Push, mailmsg_response_show,
      r1_amp_mailmsg_mark_offline_locked, Restart, claimVars
<1>3. OneReader'
  BY Zenon, <1>2 DEF OneReader
<1>4. NobodySleepsOnWork'
  <2>1. CASE mailmsg_cpu3_notify \/ MailboxAcknowledge \/ Cpu3Push
    BY Zenon, <2>1
    DEF mailmsg_cpu3_notify, MailboxAcknowledge, Cpu3Push, wakeVars,
        NobodySleepsOnWork, Asleep
  <2>2. CASE r1_amp_mbox_rx_callback \/ r1_amp_mailmsg_mark_offline_locked
    BY Zenon, <2>2
    DEF r1_amp_mbox_rx_callback, r1_amp_mailmsg_mark_offline_locked, WakeAll,
        NobodySleepsOnWork, Asleep
  <2>3. CASE mailmsg_response_show
    BY <2>3
    DEF mailmsg_response_show, cpu3Vars, wakeVars, NobodySleepsOnWork, Asleep
  <2>4. CASE Restart
    BY Zenon, <2>4 DEF Restart, NobodySleepsOnWork, Asleep
  <2> QED  BY Zenon, <2>1, <2>2, <2>3, <2>4 DEF Wakeup
<1> QED  BY Zenon, <1>1, <1>3, <1>4

(* The invariant holds in every reachable state.                           *)
THEOREM ReaderInvariant == ReaderSpec => []ReaderInv
<1>1. ReaderInv /\ [ReaderNext]_readerVars => ReaderInv'
  <2> SUFFICES ASSUME ReaderInv, [ReaderNext]_readerVars PROVE ReaderInv'
    BY Zenon
  <2>1. CASE \E f \in File : FileStep(f) \/ FileCall(f)
    BY Zenon, <2>1, FileTypes, FileOneReader, FileSleeps DEF ReaderInv
  <2>2. CASE \/ Wakeup \/ Cpu3Push \/ mailmsg_response_show
             \/ r1_amp_mailmsg_mark_offline_locked \/ Restart
    BY Zenon, <2>2, DriverStep
  <2>3. CASE UNCHANGED readerVars
    BY Zenon, <2>3
    DEF readerVars, cpu3Vars, claimVars, wakeVars, ReaderInv, ReaderTypeOK, OneReader,
        NobodySleepsOnWork, Asleep
  <2> QED  BY Zenon, <2>1, <2>2, <2>3 DEF ReaderNext
<1> QED  BY <1>1, ReaderStarts, PTL DEF ReaderSpec

(* However many tasks open a priority device, its ring has one consumer    *)
(* (r1_amp_mailmsg_user_claim_reader, reader_open_count).                  *)
THEOREM ReaderIsOne == ReaderSpec => []OneReader
<1>1. ReaderInv => OneReader  BY Zenon DEF ReaderInv
<1> QED  BY <1>1, ReaderInvariant, PTL

(* For every set of files and every ring capacity, a blocking read or poll *)
(* that sleeps has no frame waiting without a wakeup on the way, and no    *)
(* session that is over.                                                   *)
THEOREM ReaderNeverStranded == ReaderSpec => []NobodySleepsOnWork
<1>1. ReaderInv => NobodySleepsOnWork  BY Zenon DEF ReaderInv
<1> QED  BY <1>1, ReaderInvariant, PTL

=============================================================================
