------------------------- MODULE PeripheralBootProofs -------------------------
(***************************************************************************)
(* The bring-up of the controllers, for both profiles, whatever the clock  *)
(* and reset bits are at first and whenever Linux changes its own.         *)
(*                                                                         *)
(* The bring-up is one sequence of masked writes.  Its layout says between *)
(* which steps each section of prepare_peripheral lies, and a field holds  *)
(* what the preparation under way wrote to it last (CruInv).  So the clock *)
(* and reset bits of a unit are known at each of its steps, and a unit in  *)
(* reset with its clocks on forgets what it held (CleanInv).               *)
(* It is used by PeripheralServiceProofs, where the theorems are stated.   *)
(***************************************************************************)
EXTENDS PeripheralBoot, SequenceTheorems, TLAPS

-----------------------------------------------------------------------------
(* The bring-up as a program *)

Units == {"UART5", "UART7", "I2C7", "SPI0", "PWM1", "SARADC"}

Writing == [do : {"write"}, field : Assigned, value : {0, 1}]
Instruction == Writing \cup [do : {"pins", "init", "inputs"}, unit : Units \cup {"GPIO"}]

LEMMA UnitIs == Unit = Units
  BY Zenon DEF Unit, Pclk, Units

LEMMA RangeCat ==
  ASSUME NEW S, NEW a \in Seq(S), NEW b \in Seq(S)
  PROVE  Range(a) \subseteq Range(a \o b) /\ Range(b) \subseteq Range(a \o b)
  <1>1. a \o b \in Seq(S) /\ Len(a \o b) = Len(a) + Len(b)
    OBVIOUS
  <1>2. ASSUME NEW i \in 1 .. Len(a) PROVE i \in 1 .. Len(a \o b) /\ (a \o b)[i] = a[i]
    BY <1>1
  <1>3. ASSUME NEW i \in 1 .. Len(b)
        PROVE  Len(a) + i \in 1 .. Len(a \o b) /\ (a \o b)[Len(a) + i] = b[i]
    BY <1>1
  <1>4. DOMAIN a = 1 .. Len(a) /\ DOMAIN b = 1 .. Len(b) /\ DOMAIN (a \o b) = 1 .. Len(a \o b)
    BY <1>1
  <1> QED BY Zenon, <1>2, <1>3, <1>4 DEF Range

LEMMA RangeSplit ==
  ASSUME NEW S, NEW a \in Seq(S), NEW b \in Seq(S)
  PROVE  Range(a \o b) \subseteq Range(a) \cup Range(b)
  <1> SUFFICES ASSUME NEW i \in 1 .. Len(a \o b) PROVE (a \o b)[i] \in Range(a) \cup Range(b)
    BY DEF Range
  <1>1. Len(a \o b) = Len(a) + Len(b) /\ Len(a) \in Nat /\ Len(b) \in Nat
    OBVIOUS
  <1>2. CASE i <= Len(a)
    <2>1. i \in 1 .. Len(a) /\ (a \o b)[i] = a[i]
      BY <1>1, <1>2
    <2> QED BY <2>1 DEF Range
  <1>3. CASE i > Len(a)
    <2>1. i - Len(a) \in 1 .. Len(b) /\ (a \o b)[i] = b[i - Len(a)]
      BY <1>1, <1>3
    <2> QED BY <2>1 DEF Range
  <1> QED BY <1>1, <1>2, <1>3

LEMMA SeqWithin ==
  ASSUME NEW S, NEW T, NEW s \in Seq(S), Range(s) \subseteq T
  PROVE  s \in Seq(T)
  <1>1. \A i \in 1 .. Len(s) : s[i] \in T
    BY DEF Range
  <1> QED BY <1>1

LEMMA LeafSeq ==
  ASSUME NEW u \in Unit, NEW F, Leaf[u][1] \in F, Leaf[u][2] \in F
  PROVE  Leaf[u] \in Seq(F)
  <1>1. CASE u = "UART5"
    BY <1>1 DEF Leaf
  <1>2. CASE u = "UART7"
    BY <1>2 DEF Leaf
  <1>3. CASE u = "I2C7"
    BY <1>3 DEF Leaf
  <1>4. CASE u = "SPI0"
    BY <1>4 DEF Leaf
  <1>5. CASE u = "PWM1"
    BY <1>5 DEF Leaf
  <1>6. CASE u = "SARADC"
    BY <1>6 DEF Leaf
  <1> QED BY Zenon, <1>1, <1>2, <1>3, <1>4, <1>5, <1>6, UnitIs DEF Units

LEMMA SelectorSeq ==
  ASSUME NEW u \in Unit, NEW F, Selector[u][1] \in F, Selector[u][2] \in F
  PROVE  Selector[u] \in Seq(F)
  <1>1. CASE u = "UART5"
    BY <1>1 DEF Selector
  <1>2. CASE u = "UART7"
    BY <1>2 DEF Selector
  <1>3. CASE u = "I2C7"
    BY <1>3 DEF Selector
  <1>4. CASE u = "SPI0"
    BY <1>4 DEF Selector
  <1>5. CASE u = "PWM1"
    BY <1>5 DEF Selector
  <1>6. CASE u = "SARADC"
    BY <1>6 DEF Selector
  <1> QED BY Zenon, <1>1, <1>2, <1>3, <1>4, <1>5, <1>6, UnitIs DEF Units

LEMMA ResetLineSeq ==
  ASSUME NEW u \in Unit, NEW F, ResetLine[u][1] \in F, ResetLine[u][2] \in F
  PROVE  ResetLine[u] \in Seq(F)
  <1>1. CASE u = "UART5"
    BY <1>1 DEF ResetLine
  <1>2. CASE u = "UART7"
    BY <1>2 DEF ResetLine
  <1>3. CASE u = "I2C7"
    BY <1>3 DEF ResetLine
  <1>4. CASE u = "SPI0"
    BY <1>4 DEF ResetLine
  <1>5. CASE u = "PWM1"
    BY <1>5 DEF ResetLine
  <1>6. CASE u = "SARADC"
    BY <1>6 DEF ResetLine
  <1> QED BY Zenon, <1>1, <1>2, <1>3, <1>4, <1>5, <1>6, UnitIs DEF Units

LEMMA FieldsTyped ==
  ASSUME NEW u \in Unit
  PROVE  /\ Pclk[u] \in Assigned /\ Leaf[u] \in Seq(Assigned)
         /\ Selector[u] \in Seq(Assigned) /\ ResetLine[u] \in Seq(Assigned)
  <1> DEFINE F == {Leaf[u][1], Leaf[u][2], Selector[u][1], Selector[u][2],
                   ResetLine[u][1], ResetLine[u][2]}
  <1>1. Leaf[u] \in Seq(F)
    BY Zenon, LeafSeq
  <1>2. Selector[u] \in Seq(F)
    BY Zenon, SelectorSeq
  <1>3. ResetLine[u] \in Seq(F)
    BY Zenon, ResetLineSeq
  <1> HIDE DEF F
  <1>4. {Pclk[u]} \cup Range(Leaf[u] \o Selector[u] \o ResetLine[u]) \subseteq Assigned
    BY Zenon DEF Assigned
  <1>5. Leaf[u] \o Selector[u] \in Seq(F)
    BY <1>1, <1>2
  <1>6. /\ Range(Leaf[u] \o Selector[u]) \subseteq Assigned
        /\ Range(ResetLine[u]) \subseteq Assigned
    BY Zenon, <1>3, <1>4, <1>5, RangeCat
  <1>7. Range(Leaf[u]) \subseteq Assigned /\ Range(Selector[u]) \subseteq Assigned
    BY Zenon, <1>1, <1>2, <1>6, RangeCat
  <1> QED BY Zenon, <1>1, <1>2, <1>3, <1>4, <1>6, <1>7, SeqWithin

LEMMA WriteTyped ==
  ASSUME NEW s \in Seq(Assigned), NEW v \in {0, 1}
  PROVE  Write(s, v) \in Seq(Writing) /\ Len(Write(s, v)) = Len(s)
  <1>1. \A i \in 1 .. Len(s) : [do |-> "write", field |-> s[i], value |-> v] \in Writing
    BY DEF Writing
  <1>2. Len(s) \in Nat
    OBVIOUS
  <1> QED BY <1>1, <1>2 DEF Write

LEMMA PrepareTyped ==
  ASSUME NEW u \in Unit
  PROVE  Prepare(u) \in Seq(Writing)
  <1>1. <<Pclk[u]>> \in Seq(Assigned)
    BY FieldsTyped
  <1>2. Write(Leaf[u], 1) \in Seq(Writing) /\ Write(Selector[u], 1) \in Seq(Writing)
    BY Zenon, FieldsTyped, WriteTyped
  <1>3. Write(<<Pclk[u]>>, 0) \in Seq(Writing) /\ Write(Leaf[u], 0) \in Seq(Writing)
    BY Zenon, <1>1, FieldsTyped, WriteTyped
  <1>4. Write(ResetLine[u], 1) \in Seq(Writing) /\ Write(ResetLine[u], 0) \in Seq(Writing)
    BY Zenon, FieldsTyped, WriteTyped
  <1>5. peripheral_clock_enable(u) \in Seq(Writing)
    BY <1>2, <1>3 DEF peripheral_clock_enable
  <1>6. reset_pulse(u) \in Seq(Writing)
    BY <1>4 DEF reset_pulse
  <1> QED BY <1>5, <1>6 DEF Prepare

LEMMA StepTyped ==
  ASSUME NEW d \in {"pins", "init", "inputs"}, NEW u \in Units \cup {"GPIO"}
  PROVE  /\ Step(d, u) \in Seq(Instruction) /\ Len(Step(d, u)) = 1
         /\ Step(d, u)[1] = [do |-> d, unit |-> u]
  BY DEF Step, Instruction

LEMMA Blocks ==
  ASSUME NEW u \in Unit
  PROVE  Prepare(u) \in Seq(Instruction)
  <1>1. Prepare(u) \in Seq(Writing)
    BY Zenon, PrepareTyped
  <1>2. Writing \subseteq Instruction
    BY Zenon DEF Instruction
  <1> HIDE DEF Instruction, Writing
  <1> QED BY <1>1, <1>2

LEMMA BlockLengths ==
  /\ Len(Prepare("UART5")) = 8 /\ Len(Prepare("UART7")) = 8
  /\ Len(Prepare("I2C7")) = 8 /\ Len(Prepare("SPI0")) = 8
  /\ Len(Prepare("PWM1")) = 10 /\ Len(Prepare("SARADC")) = 7
  <1> USE DEF Prepare, peripheral_clock_enable, reset_pulse, Write, Leaf, Selector, ResetLine, Pclk
  <1>1. Len(Prepare("UART5")) = 8
    OBVIOUS
  <1>2. Len(Prepare("UART7")) = 8
    OBVIOUS
  <1>3. Len(Prepare("I2C7")) = 8
    OBVIOUS
  <1>4. Len(Prepare("SPI0")) = 8
    OBVIOUS
  <1>5. Len(Prepare("PWM1")) = 10
    OBVIOUS
  <1>6. Len(Prepare("SARADC")) = 7
    OBVIOUS
  <1> QED BY Zenon, <1>1, <1>2, <1>3, <1>4, <1>5, <1>6

\* The program s starts at instruction o + 1 of p.
Piece(p, o, s) == o + Len(s) <= Len(p) /\ \A i \in 1 .. Len(s) : p[o + i] = s[i]

LEMMA Grow ==
  ASSUME NEW q \in Seq(Instruction), NEW s \in Seq(Instruction), NEW k \in Nat, Len(q) = k
  PROVE  /\ q \o s \in Seq(Instruction) /\ Len(q \o s) = k + Len(s)
         /\ Piece(q \o s, 0, q) /\ Piece(q \o s, k, s)
  <1>1. q \o s \in Seq(Instruction) /\ Len(q \o s) = Len(q) + Len(s)
    OBVIOUS
  <1>2. \A i \in 1 .. Len(q) : (q \o s)[i] = q[i]
    BY <1>1
  <1>3. \A i \in 1 .. Len(s) : (q \o s)[Len(q) + i] = s[i]
    BY <1>1
  <1>4. Len(q) \in Nat /\ Len(s) \in Nat
    OBVIOUS
  <1>5. \A i \in 1 .. Len(q) : 0 + i = i
    OBVIOUS
  <1> QED BY <1>1, <1>2, <1>3, <1>4, <1>5 DEF Piece

LEMMA PieceWithin ==
  ASSUME NEW p \in Seq(Instruction), NEW q \in Seq(Instruction), NEW s \in Seq(Instruction),
         NEW o \in Nat, NEW h \in Nat, Piece(q, o, s), Piece(p, h, q)
  PROVE  Piece(p, h + o, s)
  <1> DEFINE x == Len(p)
             y == Len(q)
             z == Len(s)
  <1>1. x \in Nat /\ y \in Nat /\ z \in Nat
    OBVIOUS
  <1>2. o + z <= y /\ h + y <= x
    BY Zenon DEF Piece
  <1>3. /\ \A i \in 1 .. z : q[o + i] = s[i]
        /\ \A i \in 1 .. y : p[h + i] = q[i]
    BY Zenon DEF Piece
  <1> HIDE DEF x, y, z
  <1>4. (h + o) + z <= x
    BY <1>1, <1>2
  <1>5. \A i \in 1 .. z : o + i \in 1 .. y /\ h + (o + i) = (h + o) + i
    BY <1>1, <1>2
  <1>6. \A i \in 1 .. z : p[(h + o) + i] = s[i]
    BY Zenon, <1>3, <1>5
  <1> QED BY Zenon, <1>4, <1>6 DEF Piece, x, z

LEMMA PieceIn ==
  ASSUME NEW p \in Seq(Instruction), NEW q \in Seq(Instruction), NEW s \in Seq(Instruction),
         NEW o \in Nat, Piece(q, o, s), Piece(p, 0, q)
  PROVE  Piece(p, o, s)
  <1>1. Piece(p, 0 + o, s)
    BY Zenon, PieceWithin
  <1>2. 0 + o = o
    OBVIOUS
  <1> QED BY Zenon, <1>1, <1>2

LEMMA PieceWhole ==
  ASSUME NEW p \in Seq(Instruction)
  PROVE  Piece(p, 0, p)
  <1>1. Len(p) \in Nat /\ \A i \in 1 .. Len(p) : 0 + i = i
    OBVIOUS
  <1> QED BY <1>1 DEF Piece

\* Where the parts of the bring-up are.
LEMMA Layout ==
  ASSUME NEW profile \in Seq(Instruction), NEW m \in Nat, Len(profile) = m
  PROVE  /\ InitializeWith(profile) \in Seq(Instruction)
         /\ Len(InitializeWith(profile)) = 40 + m
         /\ Piece(InitializeWith(profile), 0, Prepare("UART5"))
         /\ Piece(InitializeWith(profile), 8, Step("pins", "UART5"))
         /\ Piece(InitializeWith(profile), 9, Step("init", "UART5"))
         /\ Piece(InitializeWith(profile), 10, Prepare("UART7"))
         /\ Piece(InitializeWith(profile), 18, Step("pins", "UART7"))
         /\ Piece(InitializeWith(profile), 19, Step("init", "UART7"))
         /\ Piece(InitializeWith(profile), 20, profile)
         /\ Piece(InitializeWith(profile), 20 + m, Prepare("PWM1"))
         /\ Piece(InitializeWith(profile), 30 + m, Step("init", "PWM1"))
         /\ Piece(InitializeWith(profile), 31 + m, Step("pins", "PWM1"))
         /\ Piece(InitializeWith(profile), 32 + m, Prepare("SARADC"))
         /\ Piece(InitializeWith(profile), 39 + m, Step("init", "SARADC"))
  <1> DEFINE q1 == Prepare("UART5")
             q2 == q1 \o Step("pins", "UART5")
             q3 == q2 \o Step("init", "UART5")
             q4 == q3 \o Prepare("UART7")
             q5 == q4 \o Step("pins", "UART7")
             q6 == q5 \o Step("init", "UART7")
             q7 == q6 \o profile
             q8 == q7 \o Prepare("PWM1")
             q9 == q8 \o Step("init", "PWM1")
             q10 == q9 \o Step("pins", "PWM1")
             q11 == q10 \o Prepare("SARADC")
             q12 == q11 \o Step("init", "SARADC")
  <1>0. InitializeWith(profile) = q12
    BY Zenon DEF InitializeWith
  <1>1. /\ Prepare("UART5") \in Seq(Instruction) /\ Prepare("UART7") \in Seq(Instruction)
        /\ Prepare("PWM1") \in Seq(Instruction) /\ Prepare("SARADC") \in Seq(Instruction)
    BY Zenon, UnitIs, Blocks DEF Units
  <1>2. /\ Step("pins", "UART5") \in Seq(Instruction) /\ Len(Step("pins", "UART5")) = 1
        /\ Step("init", "UART5") \in Seq(Instruction) /\ Len(Step("init", "UART5")) = 1
        /\ Step("pins", "UART7") \in Seq(Instruction) /\ Len(Step("pins", "UART7")) = 1
        /\ Step("init", "UART7") \in Seq(Instruction) /\ Len(Step("init", "UART7")) = 1
        /\ Step("init", "PWM1") \in Seq(Instruction) /\ Len(Step("init", "PWM1")) = 1
        /\ Step("pins", "PWM1") \in Seq(Instruction) /\ Len(Step("pins", "PWM1")) = 1
        /\ Step("init", "SARADC") \in Seq(Instruction) /\ Len(Step("init", "SARADC")) = 1
    BY Zenon, StepTyped DEF Units
  <1>q1. q1 \in Seq(Instruction) /\ Len(q1) = 8
    BY Zenon, <1>1, BlockLengths
  <1> HIDE DEF q1
  <1>q2. /\ q2 \in Seq(Instruction) /\ Len(q2) = 9
       /\ Piece(q2, 0, q1) /\ Piece(q2, 8, Step("pins", "UART5"))
    <2>1. Step("pins", "UART5") \in Seq(Instruction) /\ Len(Step("pins", "UART5")) = 1
      BY Zenon, <1>1, <1>2, BlockLengths
    <2>2. 8 \in Nat
      BY Zenon
    <2>3. /\ q2 \in Seq(Instruction) /\ Len(q2) = (8) + Len(Step("pins", "UART5"))
          /\ Piece(q2, 0, q1) /\ Piece(q2, 8, Step("pins", "UART5"))
      BY Zenon, <1>q1, <2>1, <2>2, Grow
    <2>4. (8) + 1 = 9
      OBVIOUS
    <2> QED BY Zenon, <2>1, <2>3, <2>4
  <1> HIDE DEF q2
  <1>q3. /\ q3 \in Seq(Instruction) /\ Len(q3) = 10
       /\ Piece(q3, 0, q2) /\ Piece(q3, 9, Step("init", "UART5"))
    <2>1. Step("init", "UART5") \in Seq(Instruction) /\ Len(Step("init", "UART5")) = 1
      BY Zenon, <1>1, <1>2, BlockLengths
    <2>2. 9 \in Nat
      BY Zenon
    <2>3. /\ q3 \in Seq(Instruction) /\ Len(q3) = (9) + Len(Step("init", "UART5"))
          /\ Piece(q3, 0, q2) /\ Piece(q3, 9, Step("init", "UART5"))
      BY Zenon, <1>q2, <2>1, <2>2, Grow
    <2>4. (9) + 1 = 10
      OBVIOUS
    <2> QED BY Zenon, <2>1, <2>3, <2>4
  <1> HIDE DEF q3
  <1>q4. /\ q4 \in Seq(Instruction) /\ Len(q4) = 18
       /\ Piece(q4, 0, q3) /\ Piece(q4, 10, Prepare("UART7"))
    <2>1. Prepare("UART7") \in Seq(Instruction) /\ Len(Prepare("UART7")) = 8
      BY Zenon, <1>1, <1>2, BlockLengths
    <2>2. 10 \in Nat
      BY Zenon
    <2>3. /\ q4 \in Seq(Instruction) /\ Len(q4) = (10) + Len(Prepare("UART7"))
          /\ Piece(q4, 0, q3) /\ Piece(q4, 10, Prepare("UART7"))
      BY Zenon, <1>q3, <2>1, <2>2, Grow
    <2>4. (10) + 8 = 18
      OBVIOUS
    <2> QED BY Zenon, <2>1, <2>3, <2>4
  <1> HIDE DEF q4
  <1>q5. /\ q5 \in Seq(Instruction) /\ Len(q5) = 19
       /\ Piece(q5, 0, q4) /\ Piece(q5, 18, Step("pins", "UART7"))
    <2>1. Step("pins", "UART7") \in Seq(Instruction) /\ Len(Step("pins", "UART7")) = 1
      BY Zenon, <1>1, <1>2, BlockLengths
    <2>2. 18 \in Nat
      BY Zenon
    <2>3. /\ q5 \in Seq(Instruction) /\ Len(q5) = (18) + Len(Step("pins", "UART7"))
          /\ Piece(q5, 0, q4) /\ Piece(q5, 18, Step("pins", "UART7"))
      BY Zenon, <1>q4, <2>1, <2>2, Grow
    <2>4. (18) + 1 = 19
      OBVIOUS
    <2> QED BY ZenonT(30), <2>1, <2>3, <2>4
  <1> HIDE DEF q5
  <1>q6. /\ q6 \in Seq(Instruction) /\ Len(q6) = 20
       /\ Piece(q6, 0, q5) /\ Piece(q6, 19, Step("init", "UART7"))
    <2>1. Step("init", "UART7") \in Seq(Instruction) /\ Len(Step("init", "UART7")) = 1
      BY Zenon, <1>1, <1>2, BlockLengths
    <2>2. 19 \in Nat
      BY Zenon
    <2>3. /\ q6 \in Seq(Instruction) /\ Len(q6) = (19) + Len(Step("init", "UART7"))
          /\ Piece(q6, 0, q5) /\ Piece(q6, 19, Step("init", "UART7"))
      BY Zenon, <1>q5, <2>1, <2>2, Grow
    <2>4. (19) + 1 = 20
      OBVIOUS
    <2> QED BY Zenon, <2>1, <2>3, <2>4
  <1> HIDE DEF q6
  <1>q7. /\ q7 \in Seq(Instruction) /\ Len(q7) = 20 + m
       /\ Piece(q7, 0, q6) /\ Piece(q7, 20, profile)
    <2>1. profile \in Seq(Instruction) /\ Len(profile) = m
      BY Zenon, <1>1, <1>2, BlockLengths
    <2>2. 20 \in Nat
      BY Zenon
    <2>3. /\ q7 \in Seq(Instruction) /\ Len(q7) = (20) + Len(profile)
          /\ Piece(q7, 0, q6) /\ Piece(q7, 20, profile)
      BY Zenon, <1>q6, <2>1, <2>2, Grow
    <2>4. (20) + m = 20 + m
      BY Zenon
    <2> QED BY Zenon, <2>1, <2>3, <2>4
  <1> HIDE DEF q7
  <1>q8. /\ q8 \in Seq(Instruction) /\ Len(q8) = 30 + m
       /\ Piece(q8, 0, q7) /\ Piece(q8, 20 + m, Prepare("PWM1"))
    <2>1. Prepare("PWM1") \in Seq(Instruction) /\ Len(Prepare("PWM1")) = 10
      BY Zenon, <1>1, <1>2, BlockLengths
    <2>2. 20 + m \in Nat
      OBVIOUS
    <2>3. /\ q8 \in Seq(Instruction) /\ Len(q8) = (20 + m) + Len(Prepare("PWM1"))
          /\ Piece(q8, 0, q7) /\ Piece(q8, 20 + m, Prepare("PWM1"))
      BY Zenon, <1>q7, <2>1, <2>2, Grow
    <2>4. (20 + m) + 10 = 30 + m
      OBVIOUS
    <2> QED BY Zenon, <2>1, <2>3, <2>4
  <1> HIDE DEF q8
  <1>q9. /\ q9 \in Seq(Instruction) /\ Len(q9) = 31 + m
       /\ Piece(q9, 0, q8) /\ Piece(q9, 30 + m, Step("init", "PWM1"))
    <2>1. Step("init", "PWM1") \in Seq(Instruction) /\ Len(Step("init", "PWM1")) = 1
      BY Zenon, <1>1, <1>2, BlockLengths
    <2>2. 30 + m \in Nat
      OBVIOUS
    <2>3. /\ q9 \in Seq(Instruction) /\ Len(q9) = (30 + m) + Len(Step("init", "PWM1"))
          /\ Piece(q9, 0, q8) /\ Piece(q9, 30 + m, Step("init", "PWM1"))
      BY Zenon, <1>q8, <2>1, <2>2, Grow
    <2>4. (30 + m) + 1 = 31 + m
      OBVIOUS
    <2> QED BY Zenon, <2>1, <2>3, <2>4
  <1> HIDE DEF q9
  <1>q10. /\ q10 \in Seq(Instruction) /\ Len(q10) = 32 + m
       /\ Piece(q10, 0, q9) /\ Piece(q10, 31 + m, Step("pins", "PWM1"))
    <2>1. Step("pins", "PWM1") \in Seq(Instruction) /\ Len(Step("pins", "PWM1")) = 1
      BY Zenon, <1>1, <1>2, BlockLengths
    <2>2. 31 + m \in Nat
      OBVIOUS
    <2>3. /\ q10 \in Seq(Instruction) /\ Len(q10) = (31 + m) + Len(Step("pins", "PWM1"))
          /\ Piece(q10, 0, q9) /\ Piece(q10, 31 + m, Step("pins", "PWM1"))
      BY Zenon, <1>q9, <2>1, <2>2, Grow
    <2>4. (31 + m) + 1 = 32 + m
      OBVIOUS
    <2> QED BY Zenon, <2>1, <2>3, <2>4
  <1> HIDE DEF q10
  <1>q11. /\ q11 \in Seq(Instruction) /\ Len(q11) = 39 + m
       /\ Piece(q11, 0, q10) /\ Piece(q11, 32 + m, Prepare("SARADC"))
    <2>1. Prepare("SARADC") \in Seq(Instruction) /\ Len(Prepare("SARADC")) = 7
      BY Zenon, <1>1, <1>2, BlockLengths
    <2>2. 32 + m \in Nat
      OBVIOUS
    <2>3. /\ q11 \in Seq(Instruction) /\ Len(q11) = (32 + m) + Len(Prepare("SARADC"))
          /\ Piece(q11, 0, q10) /\ Piece(q11, 32 + m, Prepare("SARADC"))
      BY Zenon, <1>q10, <2>1, <2>2, Grow
    <2>4. (32 + m) + 7 = 39 + m
      OBVIOUS
    <2> QED BY Zenon, <2>1, <2>3, <2>4
  <1> HIDE DEF q11
  <1>q12. /\ q12 \in Seq(Instruction) /\ Len(q12) = 40 + m
       /\ Piece(q12, 0, q11) /\ Piece(q12, 39 + m, Step("init", "SARADC"))
    <2>1. Step("init", "SARADC") \in Seq(Instruction) /\ Len(Step("init", "SARADC")) = 1
      BY Zenon, <1>1, <1>2, BlockLengths
    <2>2. 39 + m \in Nat
      OBVIOUS
    <2>3. /\ q12 \in Seq(Instruction) /\ Len(q12) = (39 + m) + Len(Step("init", "SARADC"))
          /\ Piece(q12, 0, q11) /\ Piece(q12, 39 + m, Step("init", "SARADC"))
      BY Zenon, <1>q11, <2>1, <2>2, Grow
    <2>4. (39 + m) + 1 = 40 + m
      OBVIOUS
    <2> QED BY Zenon, <2>1, <2>3, <2>4
  <1> HIDE DEF q12
  <1>p12. Piece(q12, 0, q12)
    BY Zenon, <1>q12, PieceWhole
  <1>p11. Piece(q12, 0, q11)
    BY Zenon, <1>q11, <1>q12, <1>q12, <1>p12, PieceIn
  <1>p10. Piece(q12, 0, q10)
    BY Zenon, <1>q10, <1>q11, <1>q12, <1>p11, PieceIn
  <1>p9. Piece(q12, 0, q9)
    BY Zenon, <1>q9, <1>q10, <1>q12, <1>p10, PieceIn
  <1>p8. Piece(q12, 0, q8)
    BY Zenon, <1>q8, <1>q9, <1>q12, <1>p9, PieceIn
  <1>p7. Piece(q12, 0, q7)
    BY Zenon, <1>q7, <1>q8, <1>q12, <1>p8, PieceIn
  <1>p6. Piece(q12, 0, q6)
    BY Zenon, <1>q6, <1>q7, <1>q12, <1>p7, PieceIn
  <1>p5. Piece(q12, 0, q5)
    BY Zenon, <1>q5, <1>q6, <1>q12, <1>p6, PieceIn
  <1>p4. Piece(q12, 0, q4)
    BY Zenon, <1>q4, <1>q5, <1>q12, <1>p5, PieceIn
  <1>p3. Piece(q12, 0, q3)
    BY Zenon, <1>q3, <1>q4, <1>q12, <1>p4, PieceIn
  <1>p2. Piece(q12, 0, q2)
    BY Zenon, <1>q2, <1>q3, <1>q12, <1>p3, PieceIn
  <1>p1. Piece(q12, 0, q1)
    BY Zenon, <1>q1, <1>q2, <1>q12, <1>p2, PieceIn
  <1>r1. Piece(q12, 0, Prepare("UART5"))
    BY Zenon, <1>p1 DEF q1
  <1>n. /\ 8 \in Nat /\ 9 \in Nat /\ 10 \in Nat /\ 18 \in Nat /\ 19 \in Nat /\ 20 \in Nat
        /\ 20 + m \in Nat /\ 30 + m \in Nat /\ 31 + m \in Nat /\ 32 + m \in Nat
        /\ 39 + m \in Nat
    OBVIOUS
  <1>in. \A q \in Seq(Instruction), s \in Seq(Instruction) : \A o \in Nat :
           Piece(q, o, s) /\ Piece(q12, 0, q) => Piece(q12, o, s)
    BY Zenon, <1>q12, PieceIn
  <1>r2. Piece(q12, 8, Step("pins", "UART5"))
    <2>1. Step("pins", "UART5") \in Seq(Instruction)
      BY Zenon, <1>1, <1>2
    <2>2. q2 \in Seq(Instruction) /\ Piece(q2, 8, Step("pins", "UART5"))
      BY Zenon, <1>q2
    <2>3. 8 \in Nat
      BY Zenon, <1>n
    <2> QED BY Zenon, <1>in, <1>p2, <2>1, <2>2, <2>3
  <1>r3. Piece(q12, 9, Step("init", "UART5"))
    <2>1. Step("init", "UART5") \in Seq(Instruction)
      BY Zenon, <1>1, <1>2
    <2>2. q3 \in Seq(Instruction) /\ Piece(q3, 9, Step("init", "UART5"))
      BY Zenon, <1>q3
    <2>3. 9 \in Nat
      BY Zenon, <1>n
    <2> QED BY Zenon, <1>in, <1>p3, <2>1, <2>2, <2>3
  <1>r4. Piece(q12, 10, Prepare("UART7"))
    <2>1. Prepare("UART7") \in Seq(Instruction)
      BY Zenon, <1>1, <1>2
    <2>2. q4 \in Seq(Instruction) /\ Piece(q4, 10, Prepare("UART7"))
      BY Zenon, <1>q4
    <2>3. 10 \in Nat
      BY Zenon, <1>n
    <2> QED BY Zenon, <1>in, <1>p4, <2>1, <2>2, <2>3
  <1>r5. Piece(q12, 18, Step("pins", "UART7"))
    <2>1. Step("pins", "UART7") \in Seq(Instruction)
      BY Zenon, <1>1, <1>2
    <2>2. q5 \in Seq(Instruction) /\ Piece(q5, 18, Step("pins", "UART7"))
      BY Zenon, <1>q5
    <2>3. 18 \in Nat
      BY Zenon, <1>n
    <2> QED BY Zenon, <1>in, <1>p5, <2>1, <2>2, <2>3
  <1>r6. Piece(q12, 19, Step("init", "UART7"))
    <2>1. Step("init", "UART7") \in Seq(Instruction)
      BY Zenon, <1>1, <1>2
    <2>2. q6 \in Seq(Instruction) /\ Piece(q6, 19, Step("init", "UART7"))
      BY Zenon, <1>q6
    <2>3. 19 \in Nat
      BY Zenon, <1>n
    <2> QED BY Zenon, <1>in, <1>p6, <2>1, <2>2, <2>3
  <1>r7. Piece(q12, 20, profile)
    <2>1. profile \in Seq(Instruction)
      BY Zenon, <1>1, <1>2
    <2>2. q7 \in Seq(Instruction) /\ Piece(q7, 20, profile)
      BY Zenon, <1>q7
    <2>3. 20 \in Nat
      BY Zenon, <1>n
    <2> QED BY Zenon, <1>in, <1>p7, <2>1, <2>2, <2>3
  <1>r8. Piece(q12, 20 + m, Prepare("PWM1"))
    <2>1. Prepare("PWM1") \in Seq(Instruction)
      BY Zenon, <1>1, <1>2
    <2>2. q8 \in Seq(Instruction) /\ Piece(q8, 20 + m, Prepare("PWM1"))
      BY Zenon, <1>q8
    <2>3. 20 + m \in Nat
      BY Zenon, <1>n
    <2> QED BY Zenon, <1>in, <1>p8, <2>1, <2>2, <2>3
  <1>r9. Piece(q12, 30 + m, Step("init", "PWM1"))
    <2>1. Step("init", "PWM1") \in Seq(Instruction)
      BY Zenon, <1>1, <1>2
    <2>2. q9 \in Seq(Instruction) /\ Piece(q9, 30 + m, Step("init", "PWM1"))
      BY Zenon, <1>q9
    <2>3. 30 + m \in Nat
      BY Zenon, <1>n
    <2> QED BY Zenon, <1>in, <1>p9, <2>1, <2>2, <2>3
  <1>r10. Piece(q12, 31 + m, Step("pins", "PWM1"))
    <2>1. Step("pins", "PWM1") \in Seq(Instruction)
      BY Zenon, <1>1, <1>2
    <2>2. q10 \in Seq(Instruction) /\ Piece(q10, 31 + m, Step("pins", "PWM1"))
      BY Zenon, <1>q10
    <2>3. 31 + m \in Nat
      BY Zenon, <1>n
    <2> QED BY Zenon, <1>in, <1>p10, <2>1, <2>2, <2>3
  <1>r11. Piece(q12, 32 + m, Prepare("SARADC"))
    <2>1. Prepare("SARADC") \in Seq(Instruction)
      BY Zenon, <1>1, <1>2
    <2>2. q11 \in Seq(Instruction) /\ Piece(q11, 32 + m, Prepare("SARADC"))
      BY Zenon, <1>q11
    <2>3. 32 + m \in Nat
      BY Zenon, <1>n
    <2> QED BY Zenon, <1>in, <1>p11, <2>1, <2>2, <2>3
  <1>r12. Piece(q12, 39 + m, Step("init", "SARADC"))
    <2>1. Step("init", "SARADC") \in Seq(Instruction)
      BY Zenon, <1>1, <1>2
    <2>2. q12 \in Seq(Instruction) /\ Piece(q12, 39 + m, Step("init", "SARADC"))
      BY Zenon, <1>q12
    <2>3. 39 + m \in Nat
      BY Zenon, <1>n
    <2> QED BY Zenon, <1>in, <1>p12, <2>1, <2>2, <2>3
  <1> QED
    BY Zenon, <1>0, <1>q12, <1>r1, <1>r2, <1>r3, <1>r4, <1>r5, <1>r6, <1>r7, <1>r8, <1>r9, <1>r10, <1>r11, <1>r12

-----------------------------------------------------------------------------
(* What the preparation of a unit leaves in the CRU *)

LEMMA Tags ==
  ASSUME NEW u \in Unit
  PROVE  /\ \A f \in Range(Leaf[u]) : f[1] = "gate"
         /\ \A f \in Range(Selector[u]) : f[1] = "sel"
         /\ \A f \in Range(ResetLine[u]) : f[1] = "reset"
         /\ Pclk[u][1] = "gate" /\ Pclk[u] \notin Range(Leaf[u])
  <1>1. \A f \in Range(Leaf[u]) : f[1] = "gate"
    BY UnitIs DEF Units, Leaf, Range
  <1>2. \A f \in Range(Selector[u]) : f[1] = "sel"
    BY UnitIs DEF Units, Selector, Range
  <1>3. \A f \in Range(ResetLine[u]) : f[1] = "reset"
    BY UnitIs DEF Units, ResetLine, Range
  <1>4. Pclk[u][1] = "gate" /\ Pclk[u] \notin Range(Leaf[u])
    BY UnitIs DEF Units, Pclk, Leaf, Range
  <1> QED BY Zenon, <1>1, <1>2, <1>3, <1>4

Selectors ==
  {<<"sel", 51, 0>>, <<"sel", 55, 0>>, <<"sel", 38, 12>>, <<"sel", 59, 2>>, <<"sel", 59, 12>>,
   <<"sel", 40, 14>>, <<"sel", 40, 6>>}

LEMMA SelectorFields ==
  /\ Range(Selector["UART5"]) = {<<"sel", 51, 0>>}
  /\ Range(Selector["UART7"]) = {<<"sel", 55, 0>>}
  /\ Range(Selector["I2C7"]) = {<<"sel", 38, 12>>}
  /\ Range(Selector["SPI0"]) = {<<"sel", 59, 2>>}
  /\ Range(Selector["PWM1"]) = {<<"sel", 59, 12>>}
  /\ Range(Selector["SARADC"]) = {<<"sel", 40, 14>>, <<"sel", 40, 6>>}
  <1> USE DEF Range, Selector
  <1>1. Range(Selector["UART5"]) = {<<"sel", 51, 0>>}
    OBVIOUS
  <1>2. Range(Selector["UART7"]) = {<<"sel", 55, 0>>}
    OBVIOUS
  <1>3. Range(Selector["I2C7"]) = {<<"sel", 38, 12>>}
    OBVIOUS
  <1>4. Range(Selector["SPI0"]) = {<<"sel", 59, 2>>}
    OBVIOUS
  <1>5. Range(Selector["PWM1"]) = {<<"sel", 59, 12>>}
    OBVIOUS
  <1>6. Range(Selector["SARADC"]) = {<<"sel", 40, 14>>, <<"sel", 40, 6>>}
    OBVIOUS
  <1> QED BY Zenon, <1>1, <1>2, <1>3, <1>4, <1>5, <1>6

LEMMA OwnSelector ==
  ASSUME NEW u \in Unit, NEW w \in Unit, NEW f \in Range(Selector[u]), f \in Range(Selector[w])
  PROVE  u = w
  BY SelectorFields, UnitIs DEF Units

LEMMA ResetFields ==
  /\ Range(ResetLine["UART5"]) = {<<"reset", 12, 6>>, <<"reset", 13, 9>>}
  /\ Range(ResetLine["UART7"]) = {<<"reset", 12, 8>>, <<"reset", 13, 15>>}
  /\ Range(ResetLine["I2C7"]) = {<<"reset", 10, 14>>, <<"reset", 11, 6>>}
  /\ Range(ResetLine["SPI0"]) = {<<"reset", 14, 6>>, <<"reset", 14, 11>>}
  /\ Range(ResetLine["PWM1"]) = {<<"reset", 15, 3>>, <<"reset", 15, 4>>}
  /\ Range(ResetLine["SARADC"]) = {<<"reset", 11, 14>>}
  <1> USE DEF Range, ResetLine
  <1>1. Range(ResetLine["UART5"]) = {<<"reset", 12, 6>>, <<"reset", 13, 9>>}
    OBVIOUS
  <1>2. Range(ResetLine["UART7"]) = {<<"reset", 12, 8>>, <<"reset", 13, 15>>}
    OBVIOUS
  <1>3. Range(ResetLine["I2C7"]) = {<<"reset", 10, 14>>, <<"reset", 11, 6>>}
    OBVIOUS
  <1>4. Range(ResetLine["SPI0"]) = {<<"reset", 14, 6>>, <<"reset", 14, 11>>}
    OBVIOUS
  <1>5. Range(ResetLine["PWM1"]) = {<<"reset", 15, 3>>, <<"reset", 15, 4>>}
    OBVIOUS
  <1>6. Range(ResetLine["SARADC"]) = {<<"reset", 11, 14>>}
    OBVIOUS
  <1> QED BY Zenon, <1>1, <1>2, <1>3, <1>4, <1>5, <1>6

LEMMA OwnReset ==
  ASSUME NEW u \in Unit, NEW w \in Unit, NEW f \in Range(ResetLine[u]), f \in Range(ResetLine[w])
  PROVE  u = w
  BY ResetFields, UnitIs DEF Units

LEMMA Counts ==
  ASSUME NEW u \in Unit
  PROVE  /\ Len(Leaf[u]) \in {1, 2} /\ Len(Selector[u]) \in {1, 2} /\ Len(ResetLine[u]) \in {1, 2}
  <1>1. Len(Leaf[u]) \in {1, 2}
    BY UnitIs DEF Units, Leaf
  <1>2. Len(Selector[u]) \in {1, 2}
    BY UnitIs DEF Units, Selector
  <1>3. Len(ResetLine[u]) \in {1, 2}
    BY UnitIs DEF Units, ResetLine
  <1> QED BY Zenon, <1>1, <1>2, <1>3

LEMMA WriteSeq ==
  ASSUME NEW s \in Seq(Assigned), NEW v \in {0, 1}
  PROVE  /\ Write(s, v) \in Seq(Instruction) /\ Len(Write(s, v)) = Len(s)
         /\ \A i \in 1 .. Len(s) :
              Write(s, v)[i] = [do |-> "write", field |-> s[i], value |-> v]
  <1>1. Write(s, v) \in Seq(Writing) /\ Len(Write(s, v)) = Len(s)
    BY Zenon, WriteTyped
  <1>2. Write(s, v) \in Seq(Instruction)
    BY <1>1 DEF Instruction
  <1>3. \A i \in 1 .. Len(s) : Write(s, v)[i] = [do |-> "write", field |-> s[i], value |-> v]
    BY Zenon DEF Write
  <1> QED BY Zenon, <1>1, <1>2, <1>3

\* The six parts of Prepare(u), each with what it writes: leaves closed,
\* selectors, bus clock open, leaves open, resets asserted, resets released.
Leaves(u) == Len(Leaf[u])
Muxes(u) == Len(Selector[u])
Resets(u) == Len(ResetLine[u])

LEMMA Parts ==
  ASSUME NEW u \in Unit
  PROVE  LET l == Leaves(u)
             s == Muxes(u)
             r == Resets(u)
         IN /\ Len(Prepare(u)) = 2 * l + s + 1 + 2 * r
            /\ Piece(Prepare(u), 0, Write(Leaf[u], 1))
            /\ Piece(Prepare(u), l, Write(Selector[u], 1))
            /\ Piece(Prepare(u), l + s, Write(<<Pclk[u]>>, 0))
            /\ Piece(Prepare(u), l + s + 1, Write(Leaf[u], 0))
            /\ Piece(Prepare(u), 2 * l + s + 1, Write(ResetLine[u], 1))
            /\ Piece(Prepare(u), 2 * l + s + 1 + r, Write(ResetLine[u], 0))
  <1> DEFINE l == Leaves(u)
             s == Muxes(u)
             r == Resets(u)
  <1>l. l \in Nat /\ s \in Nat /\ r \in Nat
    BY Counts DEF Leaves, Muxes, Resets
  <1> DEFINE w1 == Write(Leaf[u], 1)
             w2 == Write(Selector[u], 1)
             w3 == Write(<<Pclk[u]>>, 0)
             w4 == Write(Leaf[u], 0)
             w5 == Write(ResetLine[u], 1)
             w6 == Write(ResetLine[u], 0)
             q2 == w1 \o w2
             q3 == q2 \o w3
             q4 == q3 \o w4
             q5 == w5 \o w6
             q6 == q4 \o q5
  <1>0. Prepare(u) = q6
    BY Zenon DEF Prepare, peripheral_clock_enable, reset_pulse
  <1>1. w1 \in Seq(Instruction) /\ Len(w1) = l /\ w2 \in Seq(Instruction) /\ Len(w2) = s
    BY Zenon, FieldsTyped, WriteSeq DEF Leaves, Muxes, Resets
  <1>2. w3 \in Seq(Instruction) /\ Len(w3) = 1
    <2>1. <<Pclk[u]>> \in Seq(Assigned) /\ Len(<<Pclk[u]>>) = 1
      BY FieldsTyped
    <2> QED BY Zenon, <2>1, WriteSeq
  <1>3. w4 \in Seq(Instruction) /\ Len(w4) = l
    BY Zenon, FieldsTyped, WriteSeq DEF Leaves, Muxes, Resets
  <1>4. w5 \in Seq(Instruction) /\ Len(w5) = r /\ w6 \in Seq(Instruction) /\ Len(w6) = r
    BY Zenon, FieldsTyped, WriteSeq DEF Leaves, Muxes, Resets
  <1> HIDE DEF w1, w2, w3, w4, w5, w6, l, s, r
  <1>5. /\ q2 \in Seq(Instruction) /\ Len(q2) = l + s
        /\ Piece(q2, 0, w1) /\ Piece(q2, l, w2)
    BY Zenon, <1>l, <1>1, Grow
  <1> HIDE DEF q2
  <1>6. /\ q3 \in Seq(Instruction) /\ Len(q3) = l + s + 1
        /\ Piece(q3, 0, q2) /\ Piece(q3, l + s, w3)
    <2> DEFINE k == l + s
    <2>1. k \in Nat /\ Len(q2) = k
      BY <1>l, <1>5
    <2>2. /\ q3 \in Seq(Instruction) /\ Len(q3) = k + Len(w3)
          /\ Piece(q3, 0, q2) /\ Piece(q3, k, w3)
      <3> HIDE DEF k
      <3> QED BY Zenon, <1>2, <1>5, <2>1, Grow
    <2> QED BY Zenon, <1>2, <2>2
  <1> HIDE DEF q3
  <1>7. /\ q4 \in Seq(Instruction) /\ Len(q4) = 2 * l + s + 1
        /\ Piece(q4, 0, q3) /\ Piece(q4, l + s + 1, w4)
    <2>1. /\ q4 \in Seq(Instruction) /\ Len(q4) = (l + s + 1) + l
          /\ Piece(q4, 0, q3) /\ Piece(q4, l + s + 1, w4)
      <3>1. l + s + 1 \in Nat
        BY <1>l
      <3> QED BY Zenon, <1>3, <1>6, <3>1, Grow
    <2>2. (l + s + 1) + l = 2 * l + s + 1
      BY <1>l
    <2> QED BY Zenon, <2>1, <2>2
  <1> HIDE DEF q4
  <1>8. /\ q5 \in Seq(Instruction) /\ Len(q5) = r + r
        /\ Piece(q5, 0, w5) /\ Piece(q5, r, w6)
    <2>1. r \in Nat /\ w5 \in Seq(Instruction) /\ w6 \in Seq(Instruction)
          /\ Len(w5) = r /\ Len(w6) = r
      BY Zenon, <1>l, <1>4
    <2> HIDE DEF w5, w6, r
    <2>2. /\ q5 \in Seq(Instruction) /\ Len(q5) = r + Len(w6)
          /\ Piece(q5, 0, w5) /\ Piece(q5, r, w6)
      BY Zenon, <2>1, Grow
    <2> QED BY Zenon, <2>1, <2>2
  <1> HIDE DEF q5
  <1>9. /\ q6 \in Seq(Instruction) /\ Len(q6) = 2 * l + s + 1 + 2 * r
        /\ Piece(q6, 0, q4) /\ Piece(q6, 2 * l + s + 1, q5)
    <2>0. 2 * l + s + 1 \in Nat
      BY <1>l
    <2>1. /\ q6 \in Seq(Instruction) /\ Len(q6) = (2 * l + s + 1) + (r + r)
          /\ Piece(q6, 0, q4) /\ Piece(q6, 2 * l + s + 1, q5)
      BY ZenonT(30), <1>7, <1>8, <2>0, Grow
    <2>2. (2 * l + s + 1) + (r + r) = 2 * l + s + 1 + 2 * r
      BY <1>l
    <2> QED BY Zenon, <2>1, <2>2
  <1> HIDE DEF q6
  <1>10. Piece(q6, l + s + 1, w4) /\ Piece(q6, 0, q3)
    <2>1. l + s + 1 \in Nat
      BY <1>l
    <2> QED BY Zenon, <1>3, <1>6, <1>7, <1>9, <2>1, PieceIn
  <1>11. Piece(q6, l + s, w3) /\ Piece(q6, 0, q2)
    <2>1. l + s \in Nat
      BY <1>l
    <2> QED BY Zenon, <1>2, <1>5, <1>6, <1>9, <1>10, <2>1, PieceIn
  <1>12. Piece(q6, 0, w1) /\ Piece(q6, l, w2)
    BY Zenon, <1>l, <1>1, <1>5, <1>9, <1>11, PieceIn
  <1>13. Piece(q6, 2 * l + s + 1, w5) /\ Piece(q6, 2 * l + s + 1 + r, w6)
    <2> DEFINE o == 2 * l + s + 1
    <2>1. o \in Nat
      BY <1>l
    <2>a. q6 \in Seq(Instruction) /\ Piece(q6, o, q5)
      BY Zenon, <1>9
    <2>2. Piece(q6, o + 0, w5) /\ Piece(q6, o + r, w6)
      <3> HIDE DEF o
      <3> QED BY Zenon, <1>l, <1>4, <1>8, <2>1, <2>a, PieceWithin
    <2>3. o + 0 = o
      BY <2>1
    <2> QED BY Zenon, <2>2, <2>3
  <1> QED BY Zenon, <1>0, <1>9, <1>10, <1>11, <1>12, <1>13 DEF w1, w2, w3, w4, w5, w6, l, s, r

\* The writes x + 1 to y of the preparation of u put v into the fields F, and
\* into each of them.
Over(u, x, y, F, v) ==
  /\ \A i \in x + 1 .. y : Prepare(u)[i].field \in F /\ Prepare(u)[i].value = v
  /\ \A f \in F : \E i \in x + 1 .. y : Prepare(u)[i].field = f

\* Mid is the number of writes before the resets, Pulse that before they are
\* released.
Mid(u) == 2 * Leaves(u) + Muxes(u) + 1
Pulse(u) == Mid(u) + Resets(u)

LEMMA Overs ==
  ASSUME NEW u \in Unit, NEW s \in Seq(Assigned), NEW v \in {0, 1}, NEW x \in Nat, NEW y \in Nat,
         y = x + Len(s), Piece(Prepare(u), x, Write(s, v))
  PROVE  Over(u, x, y, Range(s), v)
  <1> DEFINE p == Prepare(u)
             m == Len(s)
  <1>0. m \in Nat /\ y = x + m
    OBVIOUS
  <1>1. /\ Len(Write(s, v)) = m
        /\ \A i \in 1 .. m : Write(s, v)[i] = [do |-> "write", field |-> s[i], value |-> v]
    BY Zenon, WriteSeq
  <1>2. \A i \in 1 .. m : p[x + i] = Write(s, v)[i]
    BY Zenon, <1>1 DEF Piece
  <1>3. \A i \in 1 .. m : p[x + i].field = s[i] /\ p[x + i].value = v
    <2> SUFFICES ASSUME NEW i \in 1 .. m PROVE p[x + i].field = s[i] /\ p[x + i].value = v
      BY Zenon
    <2>1. p[x + i] = [do |-> "write", field |-> s[i], value |-> v]
      BY Zenon, <1>1, <1>2
    <2> DEFINE w == p[x + i]
    <2>2. w = [do |-> "write", field |-> s[i], value |-> v]
      BY Zenon, <2>1
    <2> HIDE DEF w
    <2>3. w.field = s[i] /\ w.value = v
      BY Zenon, <2>2
    <2> QED BY Zenon, <2>3 DEF w
  <1>4. \A i \in 1 .. m : s[i] \in Range(s)
    BY DEF Range
  <1>5. \A f \in Range(s) : \E i \in 1 .. m : f = s[i]
    BY DEF Range
  <1> HIDE DEF p, m
  <1>6. \A i \in x + 1 .. y : p[i].field \in Range(s) /\ p[i].value = v
    <2> SUFFICES ASSUME NEW i \in x + 1 .. y PROVE p[i].field \in Range(s) /\ p[i].value = v
      BY Zenon
    <2>1. i - x \in 1 .. m /\ x + (i - x) = i
      BY <1>0
    <2> QED BY Zenon, <1>3, <1>4, <2>1
  <1>7. \A f \in Range(s) : \E i \in x + 1 .. y : p[i].field = f
    <2> SUFFICES ASSUME NEW f \in Range(s) PROVE \E i \in x + 1 .. y : p[i].field = f
      BY Zenon
    <2>1. PICK i \in 1 .. m : f = s[i]
      BY Zenon, <1>5
    <2>2. x + i \in x + 1 .. y
      BY <1>0
    <2> QED BY Zenon, <1>3, <2>1, <2>2
  <1> QED BY Zenon, <1>6, <1>7 DEF Over, p

LEMMA Sections ==
  ASSUME NEW u \in Unit
  PROVE  \E a, b \in Nat :
           /\ a <= b /\ b + 1 <= Mid(u) /\ Mid(u) <= Pulse(u)
           /\ Mid(u) \in Nat /\ Pulse(u) \in Nat
           /\ Len(Prepare(u)) \in Nat /\ Pulse(u) <= Len(Prepare(u))
           /\ Over(u, 0, a, Range(Leaf[u]), 1) /\ Over(u, a, b, Range(Selector[u]), 1)
           /\ Over(u, b, b + 1, {Pclk[u]}, 0) /\ Over(u, b + 1, Mid(u), Range(Leaf[u]), 0)
           /\ Over(u, Mid(u), Pulse(u), Range(ResetLine[u]), 1)
           /\ Over(u, Pulse(u), Len(Prepare(u)), Range(ResetLine[u]), 0)
  <1> DEFINE l == Leaves(u)
             s == Muxes(u)
             r == Resets(u)
             N == Len(Prepare(u))
  <1>1. l \in Nat /\ s \in Nat /\ r \in Nat
    BY Counts DEF Leaves, Muxes, Resets
  <1>2. l = Len(Leaf[u]) /\ s = Len(Selector[u]) /\ r = Len(ResetLine[u])
    BY Zenon DEF Leaves, Muxes, Resets
  <1>3. /\ N = 2 * l + s + 1 + 2 * r
        /\ Piece(Prepare(u), 0, Write(Leaf[u], 1))
        /\ Piece(Prepare(u), l, Write(Selector[u], 1))
        /\ Piece(Prepare(u), l + s, Write(<<Pclk[u]>>, 0))
        /\ Piece(Prepare(u), l + s + 1, Write(Leaf[u], 0))
        /\ Piece(Prepare(u), 2 * l + s + 1, Write(ResetLine[u], 1))
        /\ Piece(Prepare(u), 2 * l + s + 1 + r, Write(ResetLine[u], 0))
    BY Zenon, Parts
  <1>4. Mid(u) = 2 * l + s + 1 /\ Pulse(u) = 2 * l + s + 1 + r
    BY Zenon DEF Mid, Pulse
  <1>p. <<Pclk[u]>> \in Seq(Assigned) /\ Len(<<Pclk[u]>>) = 1 /\ Range(<<Pclk[u]>>) = {Pclk[u]}
    BY FieldsTyped DEF Range
  <1> DEFINE a == l
             b == l + s
             d == Mid(u)
             e == Pulse(u)
  <1>5. /\ a \in Nat /\ b \in Nat /\ d \in Nat /\ e \in Nat /\ N \in Nat /\ b + 1 \in Nat
        /\ a = 0 + l /\ b = a + s /\ d = (b + 1) + l /\ e = d + r /\ N = e + r
    <2> HIDE DEF l, s, r, N
    <2> QED BY <1>1, <1>3, <1>4
  <1>6. /\ Piece(Prepare(u), a, Write(Selector[u], 1)) /\ Piece(Prepare(u), b, Write(<<Pclk[u]>>, 0))
        /\ Piece(Prepare(u), b + 1, Write(Leaf[u], 0))
        /\ Piece(Prepare(u), d, Write(ResetLine[u], 1)) /\ Piece(Prepare(u), e, Write(ResetLine[u], 0))
    BY Zenon, <1>3, <1>4
  <1> HIDE DEF l, s, r, N, a, b, d, e
  <1>7. Over(u, 0, a, Range(Leaf[u]), 1)
    BY Zenon, <1>2, <1>3, <1>5, FieldsTyped, Overs
  <1>8. Over(u, a, b, Range(Selector[u]), 1)
    BY Zenon, <1>2, <1>6, <1>5, FieldsTyped, Overs
  <1>9. Over(u, b, b + 1, {Pclk[u]}, 0)
    BY Zenon, <1>p, <1>6, <1>5, Overs
  <1>10. Over(u, b + 1, d, Range(Leaf[u]), 0)
    BY Zenon, <1>2, <1>6, <1>5, FieldsTyped, Overs
  <1>11. Over(u, d, e, Range(ResetLine[u]), 1)
    BY Zenon, <1>2, <1>6, <1>5, FieldsTyped, Overs
  <1>12. Over(u, e, N, Range(ResetLine[u]), 0)
    BY Zenon, <1>2, <1>6, <1>5, FieldsTyped, Overs
  <1>13. a <= b /\ b + 1 <= d /\ d <= e /\ e <= N
    BY <1>1, <1>5
  <1> QED BY Zenon, <1>5, <1>7, <1>8, <1>9, <1>10, <1>11, <1>12, <1>13 DEF d, e, N

\* The first c writes of the preparation of u leave v in the field f.
Holds(u, c, f, v) ==
  \E j \in 1 .. c :
    /\ Prepare(u)[j].field = f
    /\ \A k \in j .. c : Prepare(u)[k].field = f => Prepare(u)[k].value = v

\* A selector is written after the unit's own leaf clocks are closed.
LEMMA SelectorHolds ==
  ASSUME NEW u \in Unit, NEW w \in Unit, NEW i \in 1 .. Len(Prepare(u)),
         Prepare(u)[i].field \in Range(Selector[w])
  PROVE  w = u /\ \A g \in Range(Leaf[u]) : Holds(u, i - 1, g, 1)
  <1> DEFINE p == Prepare(u)
             N == Len(p)
             d == Mid(u)
             e == Pulse(u)
  <1>1. PICK a \in Nat, b \in Nat :
           /\ a <= b /\ b + 1 <= d /\ d <= e /\ d \in Nat /\ e \in Nat /\ N \in Nat /\ e <= N
           /\ Over(u, 0, a, Range(Leaf[u]), 1) /\ Over(u, a, b, Range(Selector[u]), 1)
           /\ Over(u, b, b + 1, {Pclk[u]}, 0) /\ Over(u, b + 1, d, Range(Leaf[u]), 0)
           /\ Over(u, d, e, Range(ResetLine[u]), 1) /\ Over(u, e, N, Range(ResetLine[u]), 0)
    BY Zenon, Sections
  <1>2. p[i].field[1] = "sel"
    BY Zenon, Tags
  <1> HIDE DEF d, e, N
  <1>i. i \in Nat /\ 1 <= i /\ i <= N
    BY <1>1 DEF N
  <1>3. ~(i <= a)
    <2> SUFFICES ASSUME i <= a PROVE FALSE
      BY Zenon
    <2>1. i \in 0 + 1 .. a
      BY <1>1, <1>i
    <2>2. p[i].field \in Range(Leaf[u])
      BY Zenon, <1>1, <2>1 DEF Over
    <2> QED BY Zenon, <1>2, <2>2, Tags
  <1>4. ~(b < i /\ i <= d)
    <2> SUFFICES ASSUME b < i, i <= d PROVE FALSE
      BY Zenon
    <2>1. i \in b + 1 .. b + 1 \/ i \in (b + 1) + 1 .. d
      BY <1>1, <1>i
    <2>2. p[i].field \in Range(Leaf[u]) \/ p[i].field = Pclk[u]
      BY Zenon, <1>1, <2>1 DEF Over
    <2> QED BY Zenon, <1>2, <2>2, Tags
  <1>5. ~(d < i)
    <2> SUFFICES ASSUME d < i PROVE FALSE
      BY Zenon
    <2>1. i \in d + 1 .. e \/ i \in e + 1 .. N
      BY <1>1, <1>i
    <2>2. p[i].field \in Range(ResetLine[u])
      BY Zenon, <1>1, <2>1 DEF Over
    <2> QED BY Zenon, <1>2, <2>2, Tags
  <1>6. a < i /\ i <= b /\ i \in a + 1 .. b
    BY <1>1, <1>i, <1>3, <1>4, <1>5
  <1>7. w = u
    <2>1. p[i].field \in Range(Selector[u])
      BY Zenon, <1>1, <1>6 DEF Over
    <2> QED BY ZenonT(30), <2>1, OwnSelector
  <1>8. ASSUME NEW g \in Range(Leaf[u])
        PROVE  Holds(u, i - 1, g, 1)
    <2>1. PICK j \in 0 + 1 .. a : p[j].field = g
      BY Zenon, <1>1 DEF Over
    <2>2. j \in 1 .. i - 1
      BY <1>i, <1>6
    <2>3. ASSUME NEW k \in j .. i - 1
          PROVE  p[k].value = 1
      <3>1. k \in 0 + 1 .. a \/ k \in a + 1 .. b
        BY <1>1, <1>i, <1>6
      <3> QED BY Zenon, <1>1, <3>1 DEF Over
    <2> QED BY Zenon, <2>1, <2>2, <2>3 DEF Holds
  <1> QED BY Zenon, <1>7, <1>8

\* When a unit's resets are pulsed, and from then on, its clocks are open.
LEMMA ClocksHold ==
  ASSUME NEW u \in Unit, NEW c \in Mid(u) .. Len(Prepare(u)), NEW g \in {Pclk[u]} \cup Range(Leaf[u])
  PROVE  Holds(u, c, g, 0)
  <1> DEFINE p == Prepare(u)
             N == Len(p)
             d == Mid(u)
             e == Pulse(u)
  <1>1. PICK a \in Nat, b \in Nat :
           /\ a <= b /\ b + 1 <= d /\ d <= e /\ d \in Nat /\ e \in Nat /\ N \in Nat /\ e <= N
           /\ Over(u, 0, a, Range(Leaf[u]), 1) /\ Over(u, a, b, Range(Selector[u]), 1)
           /\ Over(u, b, b + 1, {Pclk[u]}, 0) /\ Over(u, b + 1, d, Range(Leaf[u]), 0)
           /\ Over(u, d, e, Range(ResetLine[u]), 1) /\ Over(u, e, N, Range(ResetLine[u]), 0)
    BY Zenon, Sections
  <1>c. c \in Nat /\ d <= c /\ c <= N
    BY <1>1
  <1> HIDE DEF d, e, N
  <1>2. g[1] = "gate"
    BY Zenon, Tags
  <1>3. PICK j \in b + 1 .. d : p[j].field = g
    <2>1. CASE g = Pclk[u]
      <3>1. \E j \in b + 1 .. b + 1 : p[j].field = g
        BY Zenon, <1>1, <2>1 DEF Over
      <3> QED BY <1>1, <3>1
    <2>2. CASE g \in Range(Leaf[u])
      <3>1. \E j \in (b + 1) + 1 .. d : p[j].field = g
        BY Zenon, <1>1, <2>2 DEF Over
      <3> QED BY <1>1, <3>1
    <2> QED BY Zenon, <2>1, <2>2
  <1>4. j \in 1 .. c
    BY <1>1, <1>c
  <1>5. ASSUME NEW k \in j .. c, p[k].field = g
        PROVE  p[k].value = 0
    <2>k. k \in Nat /\ b + 1 <= k /\ k <= N
      BY <1>1, <1>c
    <2>1. ~(d < k)
      <3> SUFFICES ASSUME d < k PROVE FALSE
        BY Zenon
      <3>1. k \in d + 1 .. e \/ k \in e + 1 .. N
        BY <1>1, <2>k
      <3>2. p[k].field \in Range(ResetLine[u])
        BY Zenon, <1>1, <3>1 DEF Over
      <3> QED BY Zenon, <1>2, <1>5, <3>2, Tags
    <2>2. k \in b + 1 .. b + 1 \/ k \in (b + 1) + 1 .. d
      BY <1>1, <2>k, <2>1
    <2> QED BY Zenon, <1>1, <2>2 DEF Over
  <1> QED BY Zenon, <1>3, <1>4, <1>5 DEF Holds

\* The resets are asserted together, and at the end released.
LEMMA ResetsHold ==
  ASSUME NEW u \in Unit, NEW g \in Range(ResetLine[u])
  PROVE  Holds(u, Pulse(u), g, 1) /\ Holds(u, Len(Prepare(u)), g, 0)
  <1> DEFINE p == Prepare(u)
             N == Len(p)
             d == Mid(u)
             e == Pulse(u)
  <1>1. PICK a \in Nat, b \in Nat :
           /\ a <= b /\ b + 1 <= d /\ d <= e /\ d \in Nat /\ e \in Nat /\ N \in Nat /\ e <= N
           /\ Over(u, 0, a, Range(Leaf[u]), 1) /\ Over(u, a, b, Range(Selector[u]), 1)
           /\ Over(u, b, b + 1, {Pclk[u]}, 0) /\ Over(u, b + 1, d, Range(Leaf[u]), 0)
           /\ Over(u, d, e, Range(ResetLine[u]), 1) /\ Over(u, e, N, Range(ResetLine[u]), 0)
    BY Zenon, Sections
  <1> HIDE DEF d, e, N
  <1>2. Holds(u, e, g, 1)
    <2>1. PICK j \in d + 1 .. e : p[j].field = g
      BY Zenon, <1>1 DEF Over
    <2>2. j \in 1 .. e /\ \A k \in j .. e : k \in d + 1 .. e
      BY <1>1
    <2> QED BY <1>1, <2>1, <2>2 DEF Over, Holds
  <1>3. Holds(u, N, g, 0)
    <2>1. PICK j \in e + 1 .. N : p[j].field = g
      BY Zenon, <1>1 DEF Over
    <2>2. j \in 1 .. N /\ \A k \in j .. N : k \in e + 1 .. N
      BY <1>1
    <2> QED BY <1>1, <2>1, <2>2 DEF Over, Holds
  <1> QED BY Zenon, <1>2, <1>3 DEF e, N

\* At the end the selectors have what CPU3 wants.
LEMMA SelectedHolds ==
  ASSUME NEW u \in Unit, NEW g \in Range(Selector[u])
  PROVE  Holds(u, Len(Prepare(u)), g, 1)
  <1> DEFINE p == Prepare(u)
             N == Len(p)
             d == Mid(u)
             e == Pulse(u)
  <1>1. PICK a \in Nat, b \in Nat :
           /\ a <= b /\ b + 1 <= d /\ d <= e /\ d \in Nat /\ e \in Nat /\ N \in Nat /\ e <= N
           /\ Over(u, 0, a, Range(Leaf[u]), 1) /\ Over(u, a, b, Range(Selector[u]), 1)
           /\ Over(u, b, b + 1, {Pclk[u]}, 0) /\ Over(u, b + 1, d, Range(Leaf[u]), 0)
           /\ Over(u, d, e, Range(ResetLine[u]), 1) /\ Over(u, e, N, Range(ResetLine[u]), 0)
    BY Zenon, Sections
  <1> HIDE DEF d, e, N
  <1>2. g[1] = "sel"
    BY Zenon, Tags
  <1>3. PICK j \in a + 1 .. b : p[j].field = g
    BY Zenon, <1>1 DEF Over
  <1>4. j \in 1 .. N
    BY <1>1
  <1>5. ASSUME NEW k \in j .. N, p[k].field = g
        PROVE  p[k].value = 1
    <2>1. \/ k \in a + 1 .. b \/ k \in b + 1 .. b + 1 \/ k \in (b + 1) + 1 .. d
          \/ k \in d + 1 .. e \/ k \in e + 1 .. N
      BY <1>1
    <2>2. CASE k \in a + 1 .. b
      BY Zenon, <1>1, <2>2 DEF Over
    <2>3. CASE k \in b + 1 .. b + 1 \/ k \in (b + 1) + 1 .. d
      <3>1. p[k].field = Pclk[u] \/ p[k].field \in Range(Leaf[u])
        BY Zenon, <1>1, <2>3 DEF Over
      <3> QED BY Zenon, <1>2, <1>5, <3>1, Tags
    <2>4. CASE k \in d + 1 .. e \/ k \in e + 1 .. N
      <3>1. p[k].field \in Range(ResetLine[u])
        BY Zenon, <1>1, <2>4 DEF Over
      <3> QED BY Zenon, <1>2, <1>5, <3>1, Tags
    <2> QED BY Zenon, <2>1, <2>2, <2>3, <2>4
  <1> QED BY Zenon, <1>3, <1>4, <1>5 DEF Holds, N

\* A reset line is written in the preparation of its own unit, after the clocks.
LEMMA ResetsLater ==
  ASSUME NEW u \in Unit, NEW w \in Unit, NEW i \in 1 .. Len(Prepare(u)),
         Prepare(u)[i].field \in Range(ResetLine[w])
  PROVE  w = u /\ i - 1 \in Mid(u) .. Len(Prepare(u))
  <1> DEFINE p == Prepare(u)
             N == Len(p)
             d == Mid(u)
             e == Pulse(u)
  <1>1. PICK a \in Nat, b \in Nat :
           /\ a <= b /\ b + 1 <= d /\ d <= e /\ d \in Nat /\ e \in Nat /\ N \in Nat /\ e <= N
           /\ Over(u, 0, a, Range(Leaf[u]), 1) /\ Over(u, a, b, Range(Selector[u]), 1)
           /\ Over(u, b, b + 1, {Pclk[u]}, 0) /\ Over(u, b + 1, d, Range(Leaf[u]), 0)
           /\ Over(u, d, e, Range(ResetLine[u]), 1) /\ Over(u, e, N, Range(ResetLine[u]), 0)
    BY Zenon, Sections
  <1>2. p[i].field[1] = "reset"
    BY Zenon, Tags
  <1> HIDE DEF d, e, N
  <1>3. i \in Nat /\ 1 <= i /\ i <= N
    BY <1>1 DEF N
  <1>4. ~(i <= d)
    <2> SUFFICES ASSUME i <= d PROVE FALSE
      BY Zenon
    <2>1. \/ i \in 0 + 1 .. a \/ i \in a + 1 .. b
          \/ i \in b + 1 .. b + 1 \/ i \in (b + 1) + 1 .. d
      BY <1>1, <1>3
    <2>2. p[i].field \in Range(Leaf[u]) \/ p[i].field \in Range(Selector[u]) \/ p[i].field = Pclk[u]
      BY Zenon, <1>1, <2>1 DEF Over
    <2> QED BY Zenon, <1>2, <2>2, Tags
  <1>5. i \in d + 1 .. e \/ i \in e + 1 .. N
    BY <1>1, <1>3, <1>4
  <1>6. p[i].field \in Range(ResetLine[u])
    BY Zenon, <1>1, <1>5 DEF Over
  <1>7. i - 1 \in d .. N
    BY <1>1, <1>3, <1>4
  <1> QED BY ZenonT(30), <1>6, <1>7, OwnReset DEF d, N

-----------------------------------------------------------------------------
(* The program *)

\* The unit of the pin profile, and the length of its part.
Profile == IF spi_profile THEN "SPI0" ELSE "I2C7"
Extra == IF spi_profile THEN 10 ELSE 11
Present == {"UART5", "UART7", Profile, "PWM1", "SARADC"}

\* Where the preparation of a unit starts.
Start(u) ==
  IF u = "UART5" THEN 0 ELSE IF u = "UART7" THEN 10
  ELSE IF u = "PWM1" THEN 20 + Extra ELSE IF u = "SARADC" THEN 32 + Extra ELSE 20

\* p is the bring-up with a part of m instructions for the unit x of the profile.
Laid(p, m, x) ==
  /\ p \in Seq(Instruction) /\ Len(p) = 40 + m
  /\ Piece(p, 0, Prepare("UART5")) /\ Piece(p, 10, Prepare("UART7")) /\ Piece(p, 20, Prepare(x))
  /\ Piece(p, 20 + m, Prepare("PWM1")) /\ Piece(p, 32 + m, Prepare("SARADC"))
  /\ p[9] = [do |-> "pins", unit |-> "UART5"] /\ p[10] = [do |-> "init", unit |-> "UART5"]
  /\ p[19] = [do |-> "pins", unit |-> "UART7"] /\ p[20] = [do |-> "init", unit |-> "UART7"]
  /\ p[29] = [do |-> "pins", unit |-> x] /\ p[30] = [do |-> "init", unit |-> x]
  /\ p[31 + m] = [do |-> "init", unit |-> "PWM1"] /\ p[32 + m] = [do |-> "pins", unit |-> "PWM1"]
  /\ p[40 + m] = [do |-> "init", unit |-> "SARADC"]

LEMMA StepPiece ==
  ASSUME NEW p, NEW o \in Nat, NEW d \in {"pins", "init", "inputs"}, NEW u \in Units \cup {"GPIO"},
         Piece(p, o, Step(d, u))
  PROVE  p[o + 1] = [do |-> d, unit |-> u]
  <1>1. Len(Step(d, u)) = 1 /\ Step(d, u)[1] = [do |-> d, unit |-> u]
    BY Zenon, StepTyped
  <1>2. 1 \in 1 .. Len(Step(d, u))
    BY <1>1
  <1> QED BY Zenon, <1>1, <1>2 DEF Piece

LEMMA WithProfile ==
  ASSUME NEW x \in {"SPI0", "I2C7"}, NEW profile \in Seq(Instruction), NEW m \in Nat,
         Len(profile) = m, Piece(profile, 0, Prepare(x)),
         Piece(profile, 8, Step("pins", x)), Piece(profile, 9, Step("init", x))
  PROVE  Laid(InitializeWith(profile), m, x)
  <1> DEFINE p == InitializeWith(profile)
  <1>1. p \in Seq(Instruction) /\ Len(p) = 40 + m
    BY Zenon, Layout
  <1>2. /\ Piece(p, 0, Prepare("UART5")) /\ Piece(p, 10, Prepare("UART7"))
        /\ Piece(p, 20 + m, Prepare("PWM1")) /\ Piece(p, 32 + m, Prepare("SARADC"))
    BY Zenon, Layout
  <1>3. /\ Piece(p, 8, Step("pins", "UART5")) /\ Piece(p, 9, Step("init", "UART5"))
        /\ Piece(p, 18, Step("pins", "UART7")) /\ Piece(p, 19, Step("init", "UART7"))
        /\ Piece(p, 30 + m, Step("init", "PWM1")) /\ Piece(p, 31 + m, Step("pins", "PWM1"))
        /\ Piece(p, 39 + m, Step("init", "SARADC")) /\ Piece(p, 20, profile)
    BY Zenon, Layout
  <1> HIDE DEF p
  <1>4. x \in Units /\ x \in Unit
    BY Zenon, UnitIs DEF Units
  <1>5. /\ Step("pins", x) \in Seq(Instruction) /\ Step("init", x) \in Seq(Instruction)
        /\ Prepare(x) \in Seq(Instruction)
    BY Zenon, <1>4, StepTyped, Blocks
  <1>6. Piece(p, 20 + 0, Prepare(x)) /\ Piece(p, 20 + 8, Step("pins", x)) /\ Piece(p, 20 + 9, Step("init", x))
    BY Zenon, <1>1, <1>3, <1>5, PieceWithin
  <1>7. Piece(p, 20, Prepare(x)) /\ Piece(p, 28, Step("pins", x)) /\ Piece(p, 29, Step("init", x))
    BY <1>6
  <1>8. /\ p[8 + 1] = [do |-> "pins", unit |-> "UART5"] /\ p[9 + 1] = [do |-> "init", unit |-> "UART5"]
        /\ p[18 + 1] = [do |-> "pins", unit |-> "UART7"] /\ p[19 + 1] = [do |-> "init", unit |-> "UART7"]
    <2>1. "UART5" \in Units \cup {"GPIO"} /\ "UART7" \in Units \cup {"GPIO"}
      BY Zenon DEF Units
    <2> QED BY <1>3, <2>1, StepPiece
  <1>9. p[28 + 1] = [do |-> "pins", unit |-> x] /\ p[29 + 1] = [do |-> "init", unit |-> x]
    BY <1>4, <1>7, StepPiece
  <1>10. /\ p[(30 + m) + 1] = [do |-> "init", unit |-> "PWM1"]
         /\ p[(31 + m) + 1] = [do |-> "pins", unit |-> "PWM1"]
         /\ p[(39 + m) + 1] = [do |-> "init", unit |-> "SARADC"]
    <2>1. "PWM1" \in Units \cup {"GPIO"} /\ "SARADC" \in Units \cup {"GPIO"}
      BY Zenon DEF Units
    <2>2. 30 + m \in Nat /\ 31 + m \in Nat /\ 39 + m \in Nat
      OBVIOUS
    <2>3. \A o \in Nat : Piece(p, o, Step("init", "PWM1")) => p[o + 1] = [do |-> "init", unit |-> "PWM1"]
      BY ZenonT(30), <2>1, StepPiece
    <2>4. \A o \in Nat : Piece(p, o, Step("pins", "PWM1")) => p[o + 1] = [do |-> "pins", unit |-> "PWM1"]
      BY ZenonT(30), <2>1, StepPiece
    <2>5. \A o \in Nat :
            Piece(p, o, Step("init", "SARADC")) => p[o + 1] = [do |-> "init", unit |-> "SARADC"]
      BY ZenonT(30), <2>1, StepPiece
    <2> QED BY Zenon, <1>3, <2>2, <2>3, <2>4, <2>5
  <1>11. /\ 8 + 1 = 9 /\ 9 + 1 = 10 /\ 18 + 1 = 19 /\ 19 + 1 = 20 /\ 28 + 1 = 29 /\ 29 + 1 = 30
         /\ (30 + m) + 1 = 31 + m /\ (31 + m) + 1 = 32 + m /\ (39 + m) + 1 = 40 + m
    OBVIOUS
  <1>12. /\ p[9] = [do |-> "pins", unit |-> "UART5"] /\ p[10] = [do |-> "init", unit |-> "UART5"]
         /\ p[19] = [do |-> "pins", unit |-> "UART7"] /\ p[20] = [do |-> "init", unit |-> "UART7"]
         /\ p[29] = [do |-> "pins", unit |-> x] /\ p[30] = [do |-> "init", unit |-> x]
    BY Zenon, <1>8, <1>9, <1>11
  <1>13. /\ p[31 + m] = [do |-> "init", unit |-> "PWM1"] /\ p[32 + m] = [do |-> "pins", unit |-> "PWM1"]
         /\ p[40 + m] = [do |-> "init", unit |-> "SARADC"]
    BY Zenon, <1>10, <1>11
  <1>14. Laid(p, m, x)
    BY Zenon, <1>1, <1>2, <1>7, <1>12, <1>13 DEF Laid
  <1> QED BY Zenon, <1>14 DEF p

LEMMA GrowOne ==
  ASSUME NEW q \in Seq(Instruction), NEW k \in Nat, Len(q) = k,
         NEW d \in {"pins", "init", "inputs"}, NEW u \in Units \cup {"GPIO"}
  PROVE  /\ q \o Step(d, u) \in Seq(Instruction) /\ Len(q \o Step(d, u)) = k + 1
         /\ Piece(q \o Step(d, u), 0, q) /\ Piece(q \o Step(d, u), k, Step(d, u))
  <1> DEFINE s == Step(d, u)
  <1>1. s \in Seq(Instruction) /\ Len(s) = 1
    BY Zenon, StepTyped
  <1> HIDE DEF s
  <1>2. /\ q \o s \in Seq(Instruction) /\ Len(q \o s) = k + Len(s)
        /\ Piece(q \o s, 0, q) /\ Piece(q \o s, k, s)
    BY Zenon, <1>1, Grow
  <1>3. Len(q \o s) = k + 1
    BY Zenon, <1>1, <1>2
  <1> QED BY Zenon, <1>2, <1>3 DEF s

LEMMA Program ==
  ASSUME spi_profile \in BOOLEAN
  PROVE  /\ Laid(peripherals_initialize, Extra, Profile)
         /\ ~spi_profile => peripherals_initialize[31] = [do |-> "inputs", unit |-> "GPIO"]
  <1> USE DEF Units
  <1>0. /\ Prepare("SPI0") \in Seq(Instruction) /\ Prepare("I2C7") \in Seq(Instruction)
        /\ Len(Prepare("SPI0")) = 8 /\ Len(Prepare("I2C7")) = 8
    BY Zenon, Blocks, BlockLengths, UnitIs
  <1>s. /\ Step("pins", "SPI0") \in Seq(Instruction) /\ Len(Step("pins", "SPI0")) = 1
        /\ Step("init", "SPI0") \in Seq(Instruction) /\ Len(Step("init", "SPI0")) = 1
        /\ Step("pins", "I2C7") \in Seq(Instruction) /\ Len(Step("pins", "I2C7")) = 1
        /\ Step("init", "I2C7") \in Seq(Instruction) /\ Len(Step("init", "I2C7")) = 1
        /\ Step("inputs", "GPIO") \in Seq(Instruction) /\ Len(Step("inputs", "GPIO")) = 1
    BY Zenon, StepTyped
  <1>1. Laid(InitializeSpi, 10, "SPI0")
    <2> DEFINE q2 == Prepare("SPI0") \o Step("pins", "SPI0")
               q3 == q2 \o Step("init", "SPI0")
    <2>1. /\ q2 \in Seq(Instruction) /\ Len(q2) = 8 + 1
          /\ Piece(q2, 0, Prepare("SPI0")) /\ Piece(q2, 8, Step("pins", "SPI0"))
      BY Zenon, <1>0, <1>s, GrowOne
    <2> HIDE DEF q2
    <2>a. Len(q2) = 9
      BY <2>1
    <2>2. /\ q3 \in Seq(Instruction) /\ Len(q3) = 9 + 1
          /\ Piece(q3, 0, q2) /\ Piece(q3, 9, Step("init", "SPI0"))
      BY Zenon, <1>s, <2>1, <2>a, GrowOne
    <2> HIDE DEF q3
    <2>b. Len(q3) = 10
      BY <2>2
    <2>3. Piece(q3, 0, Prepare("SPI0")) /\ Piece(q3, 8, Step("pins", "SPI0"))
      BY Zenon, <1>0, <1>s, <2>1, <2>2, PieceIn
    <2>5. Laid(InitializeWith(q3), 10, "SPI0")
      BY Zenon, <2>2, <2>3, <2>b, WithProfile
    <2> QED BY Zenon, <2>5 DEF InitializeSpi, q2, q3
  <1>2. Laid(InitializeI2c, 11, "I2C7") /\ InitializeI2c[31] = [do |-> "inputs", unit |-> "GPIO"]
    <2> DEFINE q2 == Prepare("I2C7") \o Step("pins", "I2C7")
               q3 == q2 \o Step("init", "I2C7")
               q4 == q3 \o Step("inputs", "GPIO")
    <2>1. /\ q2 \in Seq(Instruction) /\ Len(q2) = 8 + 1
          /\ Piece(q2, 0, Prepare("I2C7")) /\ Piece(q2, 8, Step("pins", "I2C7"))
      BY Zenon, <1>0, <1>s, GrowOne
    <2> HIDE DEF q2
    <2>a. Len(q2) = 9
      BY <2>1
    <2>2. /\ q3 \in Seq(Instruction) /\ Len(q3) = 9 + 1
          /\ Piece(q3, 0, q2) /\ Piece(q3, 9, Step("init", "I2C7"))
      BY Zenon, <1>s, <2>1, <2>a, GrowOne
    <2> HIDE DEF q3
    <2>b. Len(q3) = 10
      BY <2>2
    <2>3. /\ q4 \in Seq(Instruction) /\ Len(q4) = 10 + 1
          /\ Piece(q4, 0, q3) /\ Piece(q4, 10, Step("inputs", "GPIO"))
      BY Zenon, <1>s, <2>2, <2>b, GrowOne
    <2> HIDE DEF q4
    <2>c. Len(q4) = 11
      BY <2>3
    <2>4. Piece(q4, 0, q2) /\ Piece(q4, 9, Step("init", "I2C7"))
      BY Zenon, <1>s, <2>1, <2>2, <2>3, PieceIn
    <2>5. Piece(q4, 0, Prepare("I2C7")) /\ Piece(q4, 8, Step("pins", "I2C7"))
      BY Zenon, <1>0, <1>s, <2>1, <2>3, <2>4, PieceIn
    <2>7. Laid(InitializeWith(q4), 11, "I2C7")
      BY Zenon, <2>3, <2>4, <2>5, <2>c, WithProfile
    <2>8. Piece(InitializeWith(q4), 20, q4) /\ InitializeWith(q4) \in Seq(Instruction)
      BY <2>3, <2>c, Layout
    <2>9. Piece(InitializeWith(q4), 20 + 10, Step("inputs", "GPIO"))
      BY Zenon, <1>s, <2>3, <2>8, PieceWithin
    <2>10. 20 + 10 = 30 /\ 30 + 1 = 31
      OBVIOUS
    <2>11. InitializeWith(q4)[30 + 1] = [do |-> "inputs", unit |-> "GPIO"]
      BY <2>9, <2>10, StepPiece
    <2> QED BY Zenon, <2>7, <2>10, <2>11 DEF InitializeI2c, q2, q3, q4
  <1> QED BY Zenon, <1>1, <1>2 DEF peripherals_initialize, Extra, Profile

\* Where an instruction other than a write stands.
Steps == {9, 10, 19, 20, 29, 30, 31 + Extra, 32 + Extra, 40 + Extra}
           \cup (IF spi_profile THEN {} ELSE {31})

LEMMA ProfileCases ==
  ASSUME spi_profile \in BOOLEAN
  PROVE  /\ Present \subseteq Unit /\ Extra \in {10, 11} /\ Profile \in {"SPI0", "I2C7"}
         /\ Extra = 10 <=> spi_profile
         /\ Profile = "SPI0" <=> spi_profile
  BY UnitIs DEF Units, Present, Profile, Extra

LEMMA Lengths ==
  ASSUME spi_profile \in BOOLEAN, NEW u \in Present
  PROVE  /\ Len(Prepare(u)) \in Nat /\ Start(u) \in Nat
         /\ Len(Prepare(u)) = IF u = "PWM1" THEN 10 ELSE IF u = "SARADC" THEN 7 ELSE 8
  <1>1. Profile \in {"SPI0", "I2C7"} /\ Extra \in {10, 11}
    BY Zenon, ProfileCases
  <1>2. Len(Prepare(u)) = IF u = "PWM1" THEN 10 ELSE IF u = "SARADC" THEN 7 ELSE 8
    BY Zenon, <1>1, BlockLengths DEF Present
  <1>3. Start(u) \in Nat
    BY <1>1 DEF Start
  <1> QED BY <1>2, <1>3

LEMMA InPlace ==
  ASSUME spi_profile \in BOOLEAN, NEW u \in Present
  PROVE  Piece(peripherals_initialize, Start(u), Prepare(u))
  <1>1. Laid(peripherals_initialize, Extra, Profile)
    BY Zenon, Program
  <1>2. Profile \in {"SPI0", "I2C7"}
    BY Zenon, ProfileCases
  <1> QED BY Zenon, <1>1, <1>2 DEF Present, Start, Laid

LEMMA Fetched ==
  ASSUME spi_profile \in BOOLEAN, NEW u \in Present, NEW c \in 1 .. Len(Prepare(u))
  PROVE  peripherals_initialize[Start(u) + c] = Prepare(u)[c]
  BY Zenon, InPlace DEF Piece

LEMMA StepsAre ==
  ASSUME spi_profile \in BOOLEAN, NEW i \in Steps
  PROVE  LET w == peripherals_initialize[i]
         IN /\ w.do \in {"pins", "init", "inputs"}
            /\ w.do = "init" =>
                 /\ w.unit \in Present
                 /\ i = Start(w.unit) + Len(Prepare(w.unit))
                          + (IF w.unit \in {"PWM1", "SARADC"} THEN 1 ELSE 2)
            /\ w.do = "pins" /\ w.unit = "SPI0" <=> spi_profile /\ i = 29
            /\ w.do = "inputs" /\ w.unit = "GPIO" <=> ~spi_profile /\ i = 31
  <1> DEFINE p == peripherals_initialize
  <1>1. /\ Laid(p, Extra, Profile)
        /\ ~spi_profile => p[31] = [do |-> "inputs", unit |-> "GPIO"]
    BY Zenon, Program
  <1>2. /\ Extra \in {10, 11} /\ Profile \in {"SPI0", "I2C7"}
        /\ Extra = 10 <=> spi_profile
        /\ Profile = "SPI0" <=> spi_profile
    BY Zenon, ProfileCases
  <1>3. ASSUME NEW u \in Present
        PROVE  Len(Prepare(u)) = IF u = "PWM1" THEN 10 ELSE IF u = "SARADC" THEN 7 ELSE 8
    BY Zenon, Lengths
  <1>4. /\ "UART5" \in Present /\ Start("UART5") = 0 /\ Len(Prepare("UART5")) = 8
        /\ "UART7" \in Present /\ Start("UART7") = 10 /\ Len(Prepare("UART7")) = 8
        /\ Profile \in Present /\ Start(Profile) = 20 /\ Len(Prepare(Profile)) = 8
    BY Zenon, <1>2, <1>3 DEF Present, Start
  <1>5. /\ "PWM1" \in Present /\ Start("PWM1") = 20 + Extra /\ Len(Prepare("PWM1")) = 10
        /\ "SARADC" \in Present /\ Start("SARADC") = 32 + Extra /\ Len(Prepare("SARADC")) = 7
    BY Zenon, <1>2, <1>3 DEF Present, Start
  <1> DEFINE w == p[i]
  <1>6. CASE i = 9
    <2>1. w = [do |-> "pins", unit |-> "UART5"]
      BY Zenon, <1>1, <1>6 DEF Laid
    <2> HIDE DEF w
    <2>2. w.do = "pins" /\ w.unit = "UART5" /\ i # 29 /\ i # 31
      BY <1>6, <2>1
    <2> QED BY Zenon, <2>2 DEF w
  <1>7. CASE i = 10
    <2>1. w = [do |-> "init", unit |-> "UART5"]
      BY Zenon, <1>1, <1>7 DEF Laid
    <2> HIDE DEF w
    <2>2. w.do = "init" /\ w.unit = "UART5" /\ i # 29 /\ i # 31 /\ 0 + 8 + 2 = i
      BY <1>7, <2>1
    <2> QED BY Zenon, <1>4, <2>2 DEF w
  <1>8. CASE i = 19
    <2>1. w = [do |-> "pins", unit |-> "UART7"]
      BY Zenon, <1>1, <1>8 DEF Laid
    <2> HIDE DEF w
    <2>2. w.do = "pins" /\ w.unit = "UART7" /\ i # 29 /\ i # 31
      BY <1>8, <2>1
    <2> QED BY Zenon, <2>2 DEF w
  <1>9. CASE i = 20
    <2>1. w = [do |-> "init", unit |-> "UART7"]
      BY Zenon, <1>1, <1>9 DEF Laid
    <2> HIDE DEF w
    <2>2. w.do = "init" /\ w.unit = "UART7" /\ i # 29 /\ i # 31 /\ 10 + 8 + 2 = i
      BY <1>9, <2>1
    <2> QED BY Zenon, <1>4, <2>2 DEF w
  <1>10. CASE i = 29
    <2>1. w = [do |-> "pins", unit |-> Profile]
      BY Zenon, <1>1, <1>10 DEF Laid
    <2> HIDE DEF w
    <2>2. w.do = "pins" /\ w.unit = Profile /\ i # 31
      BY <1>10, <2>1
    <2> QED BY Zenon, <1>2, <1>10, <2>2 DEF w
  <1>11. CASE i = 30
    <2>1. w = [do |-> "init", unit |-> Profile]
      BY Zenon, <1>1, <1>11 DEF Laid
    <2> HIDE DEF w
    <2>2. w.do = "init" /\ w.unit = Profile /\ i # 29 /\ i # 31 /\ 20 + 8 + 2 = i
      BY <1>11, <2>1
    <2> QED BY Zenon, <1>2, <1>4, <2>2 DEF w
  <1>12. CASE i = 31 + Extra
    <2>1. w = [do |-> "init", unit |-> "PWM1"]
      BY Zenon, <1>1, <1>12 DEF Laid
    <2> HIDE DEF w
    <2>2. w.do = "init" /\ w.unit = "PWM1" /\ i # 29 /\ i # 31 /\ (20 + Extra) + 10 + 1 = i
      BY <1>2, <1>12, <2>1
    <2> QED BY Zenon, <1>5, <2>2 DEF w
  <1>13. CASE i = 32 + Extra
    <2>1. w = [do |-> "pins", unit |-> "PWM1"]
      BY Zenon, <1>1, <1>13 DEF Laid
    <2> HIDE DEF w
    <2>2. w.do = "pins" /\ w.unit = "PWM1" /\ i # 29 /\ i # 31
      BY <1>2, <1>13, <2>1
    <2> QED BY Zenon, <2>2 DEF w
  <1>14. CASE i = 40 + Extra
    <2>1. w = [do |-> "init", unit |-> "SARADC"]
      BY Zenon, <1>1, <1>14 DEF Laid
    <2> HIDE DEF w
    <2>2. w.do = "init" /\ w.unit = "SARADC" /\ i # 29 /\ i # 31 /\ (32 + Extra) + 7 + 1 = i
      BY <1>2, <1>14, <2>1
    <2> QED BY Zenon, <1>5, <2>2 DEF w
  <1>15. CASE ~spi_profile /\ i = 31
    <2>1. w = [do |-> "inputs", unit |-> "GPIO"]
      BY Zenon, <1>1, <1>15
    <2> HIDE DEF w
    <2>2. w.do = "inputs" /\ w.unit = "GPIO" /\ i # 29
      BY <1>15, <2>1
    <2> QED BY Zenon, <1>15, <2>2 DEF w
  <1> QED BY Zenon, <1>6, <1>7, <1>8, <1>9, <1>10, <1>11, <1>12, <1>13, <1>14, <1>15 DEF Steps

\* Every instruction is a write of a unit's preparation or a step.
LEMMA Covered ==
  ASSUME spi_profile \in BOOLEAN, NEW i \in 1 .. Len(peripherals_initialize)
  PROVE  \/ i \in Steps
         \/ \E u \in Present : \E c \in 1 .. Len(Prepare(u)) : i = Start(u) + c
  <1>1. /\ Extra \in {10, 11} /\ Profile \in {"SPI0", "I2C7"}
        /\ Extra = 10 <=> spi_profile
    BY Zenon, ProfileCases
  <1>2. Len(peripherals_initialize) = 40 + Extra
    BY Zenon, Program DEF Laid
  <1>3. ASSUME NEW u \in Present
        PROVE  Len(Prepare(u)) = IF u = "PWM1" THEN 10 ELSE IF u = "SARADC" THEN 7 ELSE 8
    BY Zenon, Lengths
  <1>4. /\ "UART5" \in Present /\ Start("UART5") = 0 /\ Len(Prepare("UART5")) = 8
        /\ "UART7" \in Present /\ Start("UART7") = 10 /\ Len(Prepare("UART7")) = 8
        /\ Profile \in Present /\ Start(Profile) = 20 /\ Len(Prepare(Profile)) = 8
    BY Zenon, <1>1, <1>3 DEF Present, Start
  <1>5. /\ "PWM1" \in Present /\ Start("PWM1") = 20 + Extra /\ Len(Prepare("PWM1")) = 10
        /\ "SARADC" \in Present /\ Start("SARADC") = 32 + Extra /\ Len(Prepare("SARADC")) = 7
    BY Zenon, <1>1, <1>3 DEF Present, Start
  <1>i. i \in Nat /\ 1 <= i /\ i <= 40 + Extra
    BY <1>1, <1>2
  <1>6. CASE i <= 8
    <2>1. i \in 1 .. 8 /\ i = 0 + i
      BY <1>i, <1>6
    <2> QED BY Zenon, <1>4, <2>1
  <1>7. CASE 10 < i /\ i <= 18
    <2>1. i - 10 \in 1 .. 8 /\ i = 10 + (i - 10)
      BY <1>i, <1>7
    <2> QED BY Zenon, <1>4, <2>1
  <1>8. CASE 20 < i /\ i <= 28
    <2>1. i - 20 \in 1 .. 8 /\ i = 20 + (i - 20)
      BY <1>i, <1>8
    <2> QED BY Zenon, <1>4, <2>1
  <1>9. CASE 20 + Extra < i /\ i <= 30 + Extra
    <2>1. i - (20 + Extra) \in 1 .. 10 /\ i = (20 + Extra) + (i - (20 + Extra))
      BY <1>1, <1>i, <1>9
    <2> QED BY ZenonT(30), <1>5, <2>1
  <1>10. CASE 32 + Extra < i /\ i <= 39 + Extra
    <2>1. i - (32 + Extra) \in 1 .. 7 /\ i = (32 + Extra) + (i - (32 + Extra))
      BY <1>1, <1>i, <1>10
    <2> QED BY ZenonT(30), <1>5, <2>1
  <1>11. \/ i <= 8 \/ (10 < i /\ i <= 18) \/ (20 < i /\ i <= 28)
         \/ (20 + Extra < i /\ i <= 30 + Extra) \/ (32 + Extra < i /\ i <= 39 + Extra)
         \/ i \in {9, 10, 19, 20, 29, 30, 31 + Extra, 32 + Extra, 40 + Extra}
         \/ Extra = 11 /\ i = 31
    BY <1>1, <1>i
  <1>12. CASE i \in {9, 10, 19, 20, 29, 30, 31 + Extra, 32 + Extra, 40 + Extra}
    BY Zenon, <1>12 DEF Steps
  <1>13. CASE Extra = 11 /\ i = 31
    BY Zenon, <1>1, <1>13 DEF Steps
  <1> QED BY Zenon, <1>6, <1>7, <1>8, <1>9, <1>10, <1>11, <1>12, <1>13

\* A preparation is followed by a step of the program.
LEMMA StepAfter ==
  ASSUME spi_profile \in BOOLEAN, NEW u \in Present
  PROVE  Start(u) + Len(Prepare(u)) + 1 \in Steps
  <1>1. /\ Extra \in {10, 11} /\ Profile \in {"SPI0", "I2C7"}
    BY Zenon, ProfileCases
  <1>2. Len(Prepare(u)) = IF u = "PWM1" THEN 10 ELSE IF u = "SARADC" THEN 7 ELSE 8
    BY Zenon, Lengths
  <1>3. CASE u = "PWM1"
    <2>1. Start(u) = 20 + Extra /\ Len(Prepare(u)) = 10
      BY Zenon, <1>2, <1>3 DEF Start
    <2>2. (20 + Extra) + 10 + 1 = 31 + Extra
      BY <1>1
    <2> QED BY Zenon, <2>1, <2>2 DEF Steps
  <1>4. CASE u = "SARADC"
    <2>1. Start(u) = 32 + Extra /\ Len(Prepare(u)) = 7
      BY Zenon, <1>2, <1>4 DEF Start
    <2>2. (32 + Extra) + 7 + 1 = 40 + Extra
      BY <1>1
    <2> QED BY Zenon, <2>1, <2>2 DEF Steps
  <1>5. CASE u \in {"UART5", "UART7", "SPI0", "I2C7"}
    <2>1. Start(u) \in {0, 10, 20} /\ Len(Prepare(u)) = 8
      BY Zenon, <1>2, <1>5 DEF Start
    <2>2. 0 + 8 + 1 = 9 /\ 10 + 8 + 1 = 19 /\ 20 + 8 + 1 = 29
      OBVIOUS
    <2> QED BY <2>1, <2>2 DEF Steps
  <1> QED BY Zenon, <1>1, <1>3, <1>4, <1>5 DEF Present

-----------------------------------------------------------------------------
(* The bits of a field *)

Plain == {"gate", "reset"} \X Nat \X (0 .. 15)

LEMMA FieldIs ==
  ASSUME NEW f \in Assigned
  PROVE  f \in Selectors \/ f \in Plain
  <1>1. PICK u \in Unit : f \in {Pclk[u]} \cup Range(Leaf[u] \o Selector[u] \o ResetLine[u])
    BY Zenon DEF Assigned
  <1>2. /\ Leaf[u] \in Seq(Assigned) /\ Selector[u] \in Seq(Assigned)
        /\ ResetLine[u] \in Seq(Assigned) /\ Leaf[u] \o Selector[u] \in Seq(Assigned)
    BY FieldsTyped
  <1>3. \/ f = Pclk[u] \/ f \in Range(Leaf[u]) \/ f \in Range(Selector[u])
        \/ f \in Range(ResetLine[u])
    BY Zenon, <1>1, <1>2, RangeSplit
  <1>4. Pclk[u] \in Plain
    BY UnitIs DEF Units, Pclk, Plain
  <1>5. Range(Leaf[u]) \subseteq Plain
    BY UnitIs DEF Units, Leaf, Range, Plain
  <1>6. Range(Selector[u]) \subseteq Selectors
    BY SelectorFields, UnitIs DEF Units, Selectors
  <1>7. Range(ResetLine[u]) \subseteq Plain
    BY UnitIs, ResetFields DEF Units, Plain
  <1> QED BY Zenon, <1>3, <1>4, <1>5, <1>6, <1>7

\* A gate or a reset line is one bit; the selectors are one, two or eight.
LEMMA Masks ==
  /\ \A f \in Plain : Mask(f) = {0} /\ f[1] # "sel"
  /\ Mask(<<"sel", 51, 0>>) = {0, 1} /\ Mask(<<"sel", 55, 0>>) = {0, 1}
  /\ Mask(<<"sel", 59, 2>>) = {0, 1} /\ Mask(<<"sel", 59, 12>>) = {0, 1}
  /\ Mask(<<"sel", 38, 12>>) = {0} /\ Mask(<<"sel", 40, 14>>) = {0}
  /\ Mask(<<"sel", 40, 6>>) = 0 .. 7
  <1>1. ASSUME NEW f \in Plain PROVE Mask(f) = {0} /\ f[1] # "sel"
    BY DEF Plain, Mask
  <1>2. /\ Mask(<<"sel", 51, 0>>) = {0, 1} /\ Mask(<<"sel", 55, 0>>) = {0, 1}
        /\ Mask(<<"sel", 59, 2>>) = {0, 1} /\ Mask(<<"sel", 59, 12>>) = {0, 1}
    BY DEF Mask
  <1>3. Mask(<<"sel", 38, 12>>) = {0} /\ Mask(<<"sel", 40, 14>>) = {0}
    BY DEF Mask
  <1>4. Mask(<<"sel", 40, 6>>) = 0 .. 7
    BY DEF Mask
  <1> QED BY Zenon, <1>1, <1>2, <1>3, <1>4

LEMMA Shape ==
  ASSUME NEW f \in Assigned
  PROVE  /\ f[1] \in {"gate", "sel", "reset"} /\ f[2] \in Nat /\ f[3] \in Nat
         /\ \A b \in Mask(f) : b \in Nat /\ f[3] + b \in 0 .. 15
  <1>1. CASE f \in Plain
    BY <1>1, Masks DEF Plain
  <1>2. CASE f \in Selectors
    <2>1. f[1] = "sel" /\ f[2] \in Nat /\ f[3] \in Nat
      BY <1>2 DEF Selectors
    <2>2. CASE f \in {<<"sel", 51, 0>>, <<"sel", 55, 0>>, <<"sel", 59, 2>>, <<"sel", 59, 12>>}
      BY <2>1, <2>2, Masks
    <2>3. CASE f \in {<<"sel", 38, 12>>, <<"sel", 40, 14>>}
      BY <2>1, <2>3, Masks
    <2>4. CASE f = <<"sel", 40, 6>>
      BY <2>1, <2>4, Masks
    <2> QED BY Zenon, <1>2, <2>2, <2>3, <2>4 DEF Selectors
  <1> QED BY Zenon, <1>1, <1>2, FieldIs

\* Two fields have no bit in common.
LEMMA Apart ==
  ASSUME NEW f \in Assigned, NEW g \in Assigned, f # g, NEW b \in Mask(f), NEW d \in Mask(g)
  PROVE  Place(f, b) # Place(g, d)
  <1> SUFFICES ASSUME f[1] = g[1], f[2] = g[2], f[3] + b = g[3] + d PROVE FALSE
    BY DEF Place
  <1>1. CASE f \in Plain /\ g \in Plain
    <2>1. b = 0 /\ d = 0
      BY Zenon, <1>1, Masks
    <2> QED BY <1>1, <2>1 DEF Plain
  <1>2. CASE f \in Selectors /\ g \in Selectors
    <2>1. \/ f = <<"sel", 59, 2>> /\ g = <<"sel", 59, 12>>
          \/ g = <<"sel", 59, 2>> /\ f = <<"sel", 59, 12>>
          \/ f = <<"sel", 40, 14>> /\ g = <<"sel", 40, 6>>
          \/ g = <<"sel", 40, 14>> /\ f = <<"sel", 40, 6>>
      BY <1>2 DEF Selectors
    <2> QED BY <2>1, Masks
  <1>3. ASSUME NEW h \in Selectors PROVE h[1] = "sel"
    BY DEF Selectors
  <1> QED BY Zenon, <1>1, <1>2, <1>3, Masks, FieldIs

LEMMA Placed ==
  ASSUME NEW f \in Assigned, NEW b \in Mask(f)
  PROVE  Place(f, b) \in Bit /\ Place(f, b) \in FieldBits(f) /\ Place(f, b) \in OwnBits
  <1>1. Place(f, b) \in Bit
    <2>1. f[1] \in {"gate", "sel", "reset"} /\ f[2] \in Nat /\ f[3] + b \in 0 .. 15
      BY Zenon, Shape
    <2> QED BY <2>1 DEF Place, Bit
  <1>2. Place(f, b) \in FieldBits(f)
    BY Zenon DEF FieldBits
  <1> QED BY Zenon, <1>1, <1>2 DEF OwnBits

\* One store changes the bits of one field, to the value.
LEMMA Hiword ==
  ASSUME cru \subseteq Bit, NEW f \in Assigned, NEW v \in {0, 1}, hiword_update(f, v)
  PROVE  /\ cru' \subseteq Bit
         /\ \A x \in Bit \ FieldBits(f) : x \in cru' <=> x \in cru
         /\ \A b \in Mask(f) : Place(f, b) \in cru' <=> b \in Bits(f, v)
  <1> DEFINE mask == Mask(f)
             bits == Bits(f, v)
             shift == f[3]
             shifted == {b + shift : b \in mask}
             word == {b + 16 : b \in shifted} \cup {b + shift : b \in bits \cap mask}
  <1>1. /\ f[1] \in {"gate", "sel", "reset"} /\ f[2] \in Nat /\ shift \in Nat
        /\ \A b \in mask : b \in Nat /\ shift + b \in 0 .. 15
    BY Zenon, Shape
  <1>2. cru' = {x \in cru : x[1] = f[1] /\ x[2] = f[2] => x[3] + 16 \notin word}
                 \cup {<<f[1], f[2], b>> : b \in {b \in 0 .. 15 : b \in word /\ b + 16 \in word}}
    BY Zenon DEF hiword_update, write32
  <1> HIDE DEF mask, bits, shift
  <1>3. ASSUME NEW x \in 0 .. 15
        PROVE  /\ x + 16 \in word <=> \E b \in mask : x = shift + b
               /\ x \in word <=> \E b \in bits \cap mask : x = shift + b
    <2>1. \A b \in mask : /\ x + 16 # b + shift /\ x # (b + shift) + 16
                          /\ x = b + shift <=> x = shift + b
                          /\ x + 16 = (b + shift) + 16 <=> x = shift + b
      BY <1>1
    <2> QED BY Zenon, <2>1
  <1> HIDE DEF word
  <1>4. ASSUME NEW x \in Bit
        PROVE  /\ x[3] \in 0 .. 15 /\ x = <<x[1], x[2], x[3]>>
               /\ x \in FieldBits(f) <=> x[1] = f[1] /\ x[2] = f[2] /\ x[3] + 16 \in word
    <2>1. x[3] \in 0 .. 15 /\ x = <<x[1], x[2], x[3]>>
      BY DEF Bit
    <2>2. x[3] + 16 \in word <=> \E b \in mask : x[3] = shift + b
      BY Zenon, <1>3, <2>1
    <2>3. ASSUME NEW b PROVE x = Place(f, b) <=> x[1] = f[1] /\ x[2] = f[2] /\ x[3] = shift + b
      BY <2>1 DEF Place, shift
    <2>4. x \in FieldBits(f) <=> \E b \in mask : x = Place(f, b)
      BY Zenon DEF FieldBits, mask
    <2> QED BY Zenon, <2>1, <2>2, <2>3, <2>4
  <1>5. cru' \subseteq Bit
    <2>1. ASSUME NEW b \in 0 .. 15 PROVE <<f[1], f[2], b>> \in Bit
      BY <1>1 DEF Bit
    <2> QED BY Zenon, <1>2, <2>1
  <1>6. ASSUME NEW x \in Bit \ FieldBits(f) PROVE x \in cru' <=> x \in cru
    <2>1. ~(x[1] = f[1] /\ x[2] = f[2] /\ x[3] + 16 \in word)
      BY Zenon, <1>4
    <2>2. ASSUME NEW b \in 0 .. 15, b + 16 \in word PROVE x # <<f[1], f[2], b>>
      <3> SUFFICES ASSUME x = <<f[1], f[2], b>> PROVE FALSE
        BY Zenon
      <3>1. x[1] = f[1] /\ x[2] = f[2] /\ x[3] = b
        OBVIOUS
      <3> QED BY Zenon, <2>1, <2>2, <3>1
    <2> QED BY Zenon, <1>2, <2>1, <2>2
  <1>7. ASSUME NEW b \in Mask(f) PROVE Place(f, b) \in cru' <=> b \in Bits(f, v)
    <2> DEFINE x == Place(f, b)
    <2>1. x \in Bit /\ x \in FieldBits(f)
      BY Zenon, Placed
    <2>2. x = <<f[1], f[2], shift + b>>
      BY Zenon DEF Place, shift
    <2>3. shift + b \in 0 .. 15 /\ b \in Nat /\ b \in mask
      BY Zenon, <1>1 DEF mask
    <2> HIDE DEF x
    <2>4. x[1] = f[1] /\ x[2] = f[2] /\ x[3] = shift + b
      BY <2>2
    <2>5. (shift + b) + 16 \in word
      BY Zenon, <2>1, <2>4, <1>4
    <2>6. shift + b \in word <=> b \in bits
      <3>1. \A d \in mask : shift + b = shift + d => b = d
        BY <1>1, <2>3
      <3>2. shift + b \in word <=> \E d \in bits \cap mask : shift + b = shift + d
        BY Zenon, <1>3, <2>3
      <3> QED BY Zenon, <2>3, <3>1, <3>2
    <2>7. x \in cru' <=> shift + b \in word
      <3>1. ~(x[1] = f[1] /\ x[2] = f[2] => x[3] + 16 \notin word)
        BY Zenon, <2>4, <2>5
      <3>2. \A d \in 0 .. 15 : x = <<f[1], f[2], d>> => d = shift + b
        BY <2>2
      <3> QED BY Zenon, <1>2, <2>2, <2>3, <2>5, <3>1, <3>2
    <2> QED BY Zenon, <2>6, <2>7 DEF x, bits
  <1> QED BY Zenon, <1>5, <1>6, <1>7

LEMMA FieldWritten ==
  ASSUME cru \subseteq Bit, NEW f \in Assigned, NEW v \in {0, 1}, hiword_update(f, v)
  PROVE  /\ Reads(f, v)'
         /\ \A g \in Assigned : g # f => \A w : Reads(g, w)' <=> Reads(g, w)
  <1>1. Reads(f, v)'
    BY Zenon, Hiword DEF Reads
  <1>2. ASSUME NEW g \in Assigned, g # f, NEW b \in Mask(g)
        PROVE  Place(g, b) \in cru' <=> Place(g, b) \in cru
    <2>1. Place(g, b) \in Bit
      BY Zenon, Placed
    <2>2. Place(g, b) \notin FieldBits(f)
      BY Zenon, <1>2, Apart DEF FieldBits
    <2> QED BY Zenon, <2>1, <2>2, Hiword
  <1> QED BY Zenon, <1>1, <1>2 DEF Reads

-----------------------------------------------------------------------------
(* The CRU during the bring-up *)

BootTyped ==
  /\ spi_profile \in BOOLEAN /\ boot \in 0 .. Len(peripherals_initialize)
  /\ cru \subseteq Bit

\* The first c writes of the preparation of u are the last ones made.
Prefix(u, c) ==
  boot = Start(u) + c \/ (c = Len(Prepare(u)) /\ boot = Start(u) + c + 1)

\* A field holds what the preparation under way wrote to it last.
CruInv ==
  \A u \in Present : \A c \in 0 .. Len(Prepare(u)) : \A f \in Assigned, v \in {0, 1} :
    Holds(u, c, f, v) /\ Prefix(u, c) => Reads(f, v)

LEMMA SameProgram ==
  ASSUME spi_profile' = spi_profile
  PROVE  /\ Present' = Present /\ Extra' = Extra /\ Profile' = Profile
         /\ peripherals_initialize' = peripherals_initialize
         /\ \A u : Start(u)' = Start(u)
  BY Zenon DEF Present, Extra, Profile, peripherals_initialize, Start

LEMMA WriteIs ==
  ASSUME NEW w \in Instruction
  PROVE  /\ w.do = "write" => w.field \in Assigned /\ w.value \in {0, 1}
         /\ w.do \in {"write", "pins", "init", "inputs"}
  BY Zenon DEF Instruction, Writing

LEMMA BootTypedStep ==
  ASSUME BootTyped, BootStep, LinuxBitsKept
  PROVE  BootTyped' /\ LinuxBitsKept'
  <1> DEFINE p == peripherals_initialize
             w == p[boot + 1]
             n0 == Len(p)
  <1>1. p \in Seq(Instruction) /\ n0 \in Nat
    BY Program DEF BootTyped, Laid
  <1>2. boot \in Nat /\ boot < n0 /\ boot' = boot + 1 /\ spi_profile' = spi_profile /\ linux' = linux
    BY <1>1 DEF BootTyped, BootStep, Booting
  <1>3. boot + 1 \in 1 .. n0 /\ boot' \in 0 .. n0
    <2> HIDE DEF n0
    <2> QED BY <1>1, <1>2
  <1>4. w \in Instruction
    BY <1>1, <1>3
  <1>5. p' = p
    BY Zenon, <1>2, SameProgram
  <1>6. cru \subseteq Bit
    BY Zenon DEF BootTyped
  <1>7. IF w.do = "write" THEN hiword_update(w.field, w.value) ELSE cru' = cru
    BY Zenon DEF BootStep, Current
  <1> HIDE DEF w
  <1>8. w.do = "write" => w.field \in Assigned /\ w.value \in {0, 1}
    BY Zenon, <1>4, WriteIs
  <1>9. cru' \subseteq Bit /\ \A x \in Bit \ OwnBits : x \in cru' <=> x \in cru
    <2>1. CASE w.do = "write"
      <3>1. w.field \in Assigned /\ w.value \in {0, 1} /\ hiword_update(w.field, w.value)
        BY Zenon, <1>7, <1>8, <2>1
      <3>2. FieldBits(w.field) \subseteq OwnBits
        BY Zenon, <3>1 DEF OwnBits
      <3> QED BY Zenon, <1>6, <3>1, <3>2, Hiword
    <2>2. CASE w.do # "write"
      BY Zenon, <1>6, <1>7, <2>2
    <2> QED BY Zenon, <2>1, <2>2
  <1>10. cru' \ OwnBits = cru \ OwnBits
    BY Zenon, <1>6, <1>9
  <1>11. boot' \in 0 .. Len(p)' /\ spi_profile' \in BOOLEAN
    BY Zenon, <1>2, <1>3, <1>5 DEF BootTyped
  <1>12. BootTyped'
    BY Zenon, <1>9, <1>11 DEF BootTyped
  <1> QED BY Zenon, <1>2, <1>10, <1>12 DEF LinuxBitsKept

LEMMA LinuxStep ==
  ASSUME BootTyped, LinuxBitsKept, CruInv, NEW x \in Foreign, LinuxUpdate(x)
  PROVE  BootTyped' /\ LinuxBitsKept' /\ CruInv'
  <1>1. /\ cru \subseteq Bit /\ spi_profile' = spi_profile /\ boot' = boot
        /\ \/ linux' = linux \ {x} /\ cru' = cru \ {x}
           \/ linux' = linux \cup {x} /\ cru' = cru \cup {x}
    BY Zenon DEF BootTyped, LinuxUpdate
  <1>2. x \in Bit /\ x \notin OwnBits
    BY Zenon, CruAssumption
  <1>3. ASSUME NEW g \in Assigned, NEW v PROVE Reads(g, v)' <=> Reads(g, v)
    BY Zenon, <1>1, <1>2, Placed DEF Reads
  <1>4. LinuxBitsKept'
    <2>1. cru \ OwnBits = linux
      BY Zenon DEF LinuxBitsKept
    <2>2. cru' \ OwnBits = linux'
      BY Zenon, <1>1, <1>2, <2>1
    <2> QED BY Zenon, <2>2 DEF LinuxBitsKept
  <1>5. BootTyped'
    BY Zenon, <1>1, <1>2, SameProgram DEF BootTyped
  <1>6. CruInv'
    <2> SUFFICES ASSUME NEW u \in Present', NEW c \in 0 .. Len(Prepare(u)), NEW g \in Assigned,
                        NEW v \in {0, 1}, Holds(u, c, g, v), Prefix(u, c)'
                 PROVE  Reads(g, v)'
      BY Zenon DEF CruInv
    <2>1. u \in Present /\ Start(u)' = Start(u)
      BY Zenon, <1>1, SameProgram
    <2>2. Prefix(u, c)
      BY Zenon, <1>1, <2>1 DEF Prefix
    <2> QED BY Zenon, <1>3, <2>1, <2>2 DEF CruInv
  <1> QED BY Zenon, <1>4, <1>5, <1>6

LEMMA HoldsBefore ==
  ASSUME NEW u \in Unit, NEW c \in 1 .. Len(Prepare(u)), NEW f, NEW v, Holds(u, c, f, v)
  PROVE  /\ Prepare(u)[c].field = f => Prepare(u)[c].value = v
         /\ Prepare(u)[c].field # f => Holds(u, c - 1, f, v)
  <1> DEFINE p == Prepare(u)
  <1>1. PICK j \in 1 .. c : p[j].field = f /\ \A k \in j .. c : p[k].field = f => p[k].value = v
    BY Zenon DEF Holds
  <1>2. c \in Nat /\ c \in j .. c
    OBVIOUS
  <1>3. p[c].field = f => p[c].value = v
    BY Zenon, <1>1, <1>2
  <1>4. ASSUME p[c].field # f
        PROVE  Holds(u, c - 1, f, v)
    <2>1. j # c
      BY Zenon, <1>1, <1>4
    <2>2. j \in 1 .. c - 1 /\ \A k \in j .. c - 1 : k \in j .. c
      BY <1>2, <2>1
    <2> QED BY Zenon, <1>1, <2>2 DEF Holds
  <1> QED BY Zenon, <1>3, <1>4

LEMMA CruBootStep ==
  ASSUME BootTyped, CruInv, BootStep
  PROVE  CruInv'
  <1> SUFFICES ASSUME NEW u \in Present', NEW c \in 0 .. Len(Prepare(u)), NEW f \in Assigned,
                      NEW v \in {0, 1}, Holds(u, c, f, v), Prefix(u, c)'
               PROVE  Reads(f, v)'
    BY Zenon DEF CruInv
  <1> DEFINE p == peripherals_initialize
             w == p[boot + 1]
             N == Len(Prepare(u))
             s == Start(u)
  <1>1. boot \in Nat /\ boot' = boot + 1 /\ spi_profile' = spi_profile /\ spi_profile \in BOOLEAN
    BY Program DEF BootTyped, BootStep, Laid
  <1>2. u \in Present /\ Start(u)' = s
    BY Zenon, <1>1, SameProgram
  <1>3. u \in Unit /\ N \in Nat /\ s \in Nat
    BY Zenon, <1>1, <1>2, ProfileCases, Lengths
  <1>4. IF w.do = "write" THEN hiword_update(w.field, w.value) ELSE cru' = cru
    BY Zenon DEF BootStep, Current
  <1>5. cru \subseteq Bit
    BY Zenon DEF BootTyped
  <1>c. c \in Nat /\ c <= N
    BY <1>3
  <1>6. c # 0
    BY DEF Holds
  <1>7. c \in 1 .. N
    BY <1>3, <1>6, <1>c
  <1>8. boot + 1 = s + c \/ (c = N /\ boot + 1 = s + c + 1)
    BY Zenon, <1>1, <1>2 DEF Prefix
  <1>9. CASE boot + 1 = s + c
    <2>1. w = Prepare(u)[c]
      <3>1. p[s + c] = Prepare(u)[c]
        BY Zenon, <1>1, <1>2, <1>7, Fetched
      <3> QED BY Zenon, <1>9, <3>1
    <2>2. w \in Writing
      BY <1>3, <1>7, <2>1, PrepareTyped
    <2> HIDE DEF w
    <2>3. w.do = "write" /\ w.field \in Assigned /\ w.value \in {0, 1}
      BY Zenon, <2>2 DEF Writing
    <2>4. CASE w.field = f
      <3>1. w.value = v
        BY <1>3, <1>7, <2>1, <2>4, HoldsBefore
      <3> QED BY Zenon, <1>4, <1>5, <2>3, <2>4, <3>1, FieldWritten
    <2>5. CASE w.field # f
      <3>1. Holds(u, c - 1, f, v)
        BY Zenon, <1>3, <1>7, <2>1, <2>5, HoldsBefore
      <3>2. c - 1 \in 0 .. N /\ boot = s + (c - 1)
        BY <1>1, <1>3, <1>7, <1>9
      <3>3. Reads(f, v)
        BY Zenon, <1>2, <3>1, <3>2 DEF CruInv, Prefix
      <3> QED BY Zenon, <1>4, <1>5, <2>3, <2>5, <3>3, FieldWritten
    <2> QED BY Zenon, <2>4, <2>5
  <1>10. CASE c = N /\ boot + 1 = s + c + 1
    <2>1. boot + 1 \in Steps
      BY Zenon, <1>1, <1>2, <1>10, StepAfter
    <2>2. w.do # "write"
      BY Zenon, <1>1, <2>1, StepsAre
    <2>3. boot = s + c
      BY <1>1, <1>3, <1>c, <1>10
    <2>4. Reads(f, v)
      BY Zenon, <1>2, <2>3 DEF CruInv, Prefix
    <2> QED BY Zenon, <1>4, <2>2, <2>4 DEF Reads
  <1> QED BY Zenon, <1>8, <1>9, <1>10

\* A unit is set up with its clocks and out of reset, its selectors change with
\* its leaf clocks closed and its reset lines with its clocks open.
LEMMA InOrder ==
  ASSUME BootTyped, CruInv
  PROVE  BringUpInOrder
  <1> SUFFICES ASSUME Booting
               PROVE  /\ Current.do = "write" =>
                           \A w \in Unit :
                             /\ Current.field \in Range(Selector[w]) =>
                                  \A g \in Range(Leaf[w]) : Reads(g, 1)
                             /\ Current.field \in Range(ResetLine[w]) => Clocked(w)
                      /\ Current.do = "init" => /\ Clocked(Current.unit) /\ Selected(Current.unit)
                                                /\ OutOfReset(Current.unit)
    BY Zenon DEF BringUpInOrder
  <1> DEFINE p == peripherals_initialize
             i == boot + 1
  <1>1. spi_profile \in BOOLEAN /\ boot \in Nat /\ boot < Len(p) /\ Len(p) \in Nat
    BY Program DEF BootTyped, Booting, Laid
  <1>2. i \in 1 .. Len(p) /\ Current = p[i]
    BY <1>1 DEF Current
  <1> HIDE DEF i
  <1>3. ASSUME Current.do = "write", NEW w \in Unit
        PROVE  /\ Current.field \in Range(Selector[w]) => \A g \in Range(Leaf[w]) : Reads(g, 1)
               /\ Current.field \in Range(ResetLine[w]) => Clocked(w)
    <2>1. i \notin Steps
      BY Zenon, <1>1, <1>2, <1>3, StepsAre
    <2>2. PICK u \in Present : \E c \in 1 .. Len(Prepare(u)) : i = Start(u) + c
      BY Zenon, <1>1, <1>2, <2>1, Covered
    <2>3. PICK c \in 1 .. Len(Prepare(u)) : i = Start(u) + c
      BY Zenon, <2>2
    <2>4. u \in Unit /\ Start(u) \in Nat /\ Len(Prepare(u)) \in Nat
      BY Zenon, <1>1, ProfileCases, Lengths
    <2>5. Current = Prepare(u)[c]
      BY Zenon, <1>1, <1>2, <2>3, Fetched
    <2>6. c - 1 \in 0 .. Len(Prepare(u)) /\ boot = Start(u) + (c - 1)
      BY <1>1, <2>3, <2>4 DEF i
    <2>7. ASSUME Current.field \in Range(Selector[w]), NEW g \in Range(Leaf[w]) PROVE Reads(g, 1)
      <3>1. w = u /\ Holds(u, c - 1, g, 1)
        BY Zenon, <2>4, <2>5, <2>7, SelectorHolds
      <3>2. g \in Assigned
        BY <2>7, FieldsTyped DEF Range
      <3> QED BY Zenon, <2>6, <3>1, <3>2 DEF CruInv, Prefix
    <2>8. ASSUME Current.field \in Range(ResetLine[w]), NEW g \in {Pclk[w]} \cup Range(Leaf[w])
          PROVE  Reads(g, 0)
      <3>1. w = u /\ c - 1 \in Mid(u) .. Len(Prepare(u))
        BY Zenon, <2>4, <2>5, <2>8, ResetsLater
      <3>2. Holds(u, c - 1, g, 0)
        BY Zenon, <2>4, <2>8, <3>1, ClocksHold
      <3>3. g \in Assigned
        BY <2>8, FieldsTyped DEF Range
      <3> QED BY Zenon, <2>6, <3>2, <3>3 DEF CruInv, Prefix
    <2> QED BY Zenon, <2>7, <2>8 DEF Clocked
  <1>4. ASSUME Current.do = "init"
        PROVE  Clocked(Current.unit) /\ Selected(Current.unit) /\ OutOfReset(Current.unit)
    <2> DEFINE u == Current.unit
               N == Len(Prepare(u))
    <2>1. i \in Steps
      <3> SUFFICES ASSUME i \notin Steps PROVE FALSE
        BY Zenon
      <3>1. PICK w \in Present : \E c \in 1 .. Len(Prepare(w)) : i = Start(w) + c
        BY Zenon, <1>1, <1>2, Covered
      <3>2. PICK c \in 1 .. Len(Prepare(w)) : i = Start(w) + c
        BY Zenon, <3>1
      <3>3. Current = Prepare(w)[c] /\ Prepare(w) \in Seq(Writing)
        BY Zenon, <1>1, <1>2, <3>2, Fetched, PrepareTyped, ProfileCases
      <3>4. Current \in Writing
        BY <3>3
      <3> QED BY Zenon, <1>4, <3>4 DEF Writing
    <2>2. /\ u \in Present
          /\ i = Start(u) + N + 1 \/ i = Start(u) + N + 2
      BY Zenon, <1>1, <1>2, <1>4, <2>1, StepsAre
    <2>3. u \in Unit /\ Start(u) \in Nat /\ N \in Nat
      BY Zenon, <1>1, <2>2, ProfileCases, Lengths
    <2>4. Prefix(u, N) /\ N \in 0 .. N
      <3> DEFINE s == Start(u)
      <3>1. s \in Nat /\ (i = s + N + 1 \/ i = s + N + 2) /\ i = boot + 1
        BY Zenon, <2>2, <2>3 DEF i
      <3> HIDE DEF s, N
      <3>2. boot = s + N \/ boot = s + N + 1
        BY <1>1, <2>3, <3>1
      <3>3. N \in 0 .. N
        BY <2>3
      <3> QED BY Zenon, <3>2, <3>3 DEF Prefix, s, N
    <2>5. ASSUME NEW g \in {Pclk[u]} \cup Range(Leaf[u])
          PROVE  Reads(g, 0)
      <3>1. g \in Assigned
        BY <2>3, FieldsTyped DEF Range
      <3>2. Mid(u) <= N /\ Mid(u) \in Nat
        <4>1. Mid(u) \in Nat /\ Pulse(u) \in Nat /\ Mid(u) <= Pulse(u) /\ Pulse(u) <= N
          BY ZenonT(30), <2>3, Sections
        <4> HIDE DEF N
        <4> QED BY <2>3, <4>1
      <3>3. Holds(u, N, g, 0)
        BY <2>3, <2>4, <3>2, ClocksHold
      <3> QED BY Zenon, <2>2, <2>4, <3>1, <3>3 DEF CruInv
    <2>6. ASSUME NEW g \in Range(ResetLine[u])
          PROVE  Reads(g, 0)
      <3>1. g \in Assigned
        BY <2>3, FieldsTyped DEF Range
      <3>2. Holds(u, N, g, 0)
        BY Zenon, <2>3, ResetsHold
      <3> QED BY Zenon, <2>2, <2>4, <3>1, <3>2 DEF CruInv
    <2>7. ASSUME NEW g \in Range(Selector[u])
          PROVE  Reads(g, 1)
      <3>1. g \in Assigned
        BY <2>3, FieldsTyped DEF Range
      <3>2. Holds(u, N, g, 1)
        BY Zenon, <2>3, SelectedHolds
      <3> QED BY Zenon, <2>2, <2>4, <3>1, <3>2 DEF CruInv
    <2> QED BY Zenon, <2>5, <2>6, <2>7 DEF Clocked, Selected, OutOfReset
  <1> QED BY Zenon, <1>3, <1>4

\* At the end of the first half of its reset pulse a unit is held in reset
\* with its clocks running.
Pulsed == \A u \in Present : boot = Start(u) + Pulse(u) => InReset(u) /\ Clocked(u)

LEMMA PulsedOnce ==
  BootTyped /\ CruInv => Pulsed
  <1> SUFFICES ASSUME BootTyped, CruInv, NEW u \in Present, boot = Start(u) + Pulse(u)
               PROVE  InReset(u) /\ Clocked(u)
    BY Zenon DEF Pulsed
  <1> DEFINE N == Len(Prepare(u))
             e == Pulse(u)
  <1>1. u \in Unit /\ N \in Nat
    BY Zenon, ProfileCases, Lengths DEF BootTyped
  <1>2. Mid(u) \in Nat /\ e \in Nat /\ Mid(u) <= e /\ e <= N
    BY ZenonT(30), <1>1, Sections
  <1>3. Prefix(u, e)
    BY Zenon DEF Prefix
  <1>4. e \in 0 .. N /\ e \in Mid(u) .. N
    BY <1>1, <1>2
  <1>5. ASSUME NEW g \in {Pclk[u]} \cup Range(Leaf[u])
        PROVE  Reads(g, 0)
    <2>1. g \in Assigned
      BY <1>1, FieldsTyped DEF Range
    <2>2. Holds(u, e, g, 0)
      BY Zenon, <1>1, <1>4, ClocksHold
    <2> QED BY Zenon, <1>3, <1>4, <2>1, <2>2 DEF CruInv
  <1>6. ASSUME NEW g \in Range(ResetLine[u])
        PROVE  Reads(g, 1)
    <2>1. g \in Assigned
      BY <1>1, FieldsTyped DEF Range
    <2>2. Holds(u, e, g, 1)
      BY Zenon, <1>1, ResetsHold
    <2> QED BY Zenon, <1>3, <1>4, <2>1, <2>2 DEF CruInv
  <1> QED BY Zenon, <1>5, <1>6 DEF InReset, Clocked

LEMMA BootStart ==
  ASSUME BootInit
  PROVE  BootTyped /\ LinuxBitsKept /\ CruInv
  <1>1. spi_profile \in BOOLEAN /\ boot = 0
    BY Zenon DEF BootInit
  <1>2. cru \subseteq Bit /\ cru \ OwnBits = linux
    BY Zenon, CruAssumption DEF BootInit
  <1>3. Len(peripherals_initialize) \in Nat
    BY <1>1, Program DEF Laid
  <1>4. BootTyped /\ LinuxBitsKept
    BY <1>1, <1>2, <1>3 DEF BootTyped, LinuxBitsKept
  <1>5. ASSUME NEW u \in Present, NEW c \in 0 .. Len(Prepare(u)), NEW f, NEW v,
               Holds(u, c, f, v), Prefix(u, c)
        PROVE  FALSE
    <2>1. Start(u) \in Nat /\ Len(Prepare(u)) \in Nat
      BY Zenon, <1>1, Lengths
    <2>2. c = 0
      BY <1>1, <1>5, <2>1 DEF Prefix
    <2> QED BY <1>5, <2>2 DEF Holds
  <1> QED BY Zenon, <1>4, <1>5 DEF CruInv

LEMMA CurrentIs ==
  ASSUME BootTyped, Booting
  PROVE  /\ Current.do = "inputs" /\ Current.unit = "GPIO" <=> ~spi_profile /\ boot = 30
         /\ Current.do = "pins" /\ Current.unit = "SPI0" <=> spi_profile /\ boot = 28
  <1> DEFINE p == peripherals_initialize
             i == boot + 1
  <1>1. spi_profile \in BOOLEAN /\ boot \in Nat /\ boot < Len(p) /\ Len(p) \in Nat
    BY Program DEF BootTyped, Booting, Laid
  <1>2. i \in 1 .. Len(p) /\ Current = p[i] /\ (boot = 30 <=> i = 31) /\ (boot = 28 <=> i = 29)
    BY <1>1 DEF Current
  <1> HIDE DEF i
  <1>3. CASE i \in Steps
    BY <1>1, <1>2, <1>3, StepsAre
  <1>4. CASE i \notin Steps
    <2>1. PICK w \in Present : \E c \in 1 .. Len(Prepare(w)) : i = Start(w) + c
      BY Zenon, <1>1, <1>2, <1>4, Covered
    <2>2. PICK c \in 1 .. Len(Prepare(w)) : i = Start(w) + c
      BY Zenon, <2>1
    <2>3. Current = Prepare(w)[c] /\ Prepare(w) \in Seq(Writing)
      BY Zenon, <1>1, <1>2, <2>2, Fetched, PrepareTyped, ProfileCases
    <2>4. Current \in Writing
      BY <2>3
    <2>5. Current.do = "write"
      BY Zenon, <2>4 DEF Writing
    <2>6. i # 29 /\ (~spi_profile => i # 31)
      BY Zenon, <1>4 DEF Steps
    <2> QED BY Zenon, <1>2, <2>5, <2>6
  <1> QED BY Zenon, <1>3, <1>4

\* When the program ends every unit has had its reset pulse.
LEMMA AllPulsed ==
  ASSUME BootTyped, ~Booting, NEW u \in Present
  PROVE  boot >= Start(u) + Pulse(u)
  <1> DEFINE p == peripherals_initialize
             s == Start(u)
             N == Len(Prepare(u))
             m == Len(p)
  <1>1. spi_profile \in BOOLEAN /\ m \in Nat /\ boot = m
    BY Program DEF BootTyped, Booting, Laid
  <1>2. s \in Nat /\ N \in Nat /\ u \in Unit
    BY Zenon, <1>1, Lengths, ProfileCases
  <1>3. Pulse(u) \in Nat /\ Pulse(u) <= N
    BY Zenon, <1>2, Sections
  <1>4. s + N <= m
    BY Zenon, <1>1, InPlace DEF Piece
  <1> HIDE DEF s, N, m
  <1>5. boot >= s + Pulse(u)
    BY <1>1, <1>2, <1>3, <1>4
  <1> QED BY Zenon, <1>5 DEF s
=============================================================================
