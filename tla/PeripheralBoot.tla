---------------------------- MODULE PeripheralBoot ----------------------------
(***************************************************************************)
(* peripherals_initialize (zephyr/app/src/main.c) up to the service: the   *)
(* clocks, resets and pins of the controllers CPU3 owns, in registers it   *)
(* shares with Linux.  A CRU field is <<bank, register, shift>>; a gate    *)
(* holds 1 when closed and a reset line 1 when asserted.  A 32-bit word,   *)
(* and all registers together, are the set of their bits that are 1.       *)
(***************************************************************************)
EXTENDS Integers, Sequences, Functions

CONSTANTS
  Foreign,   \* bits Linux changes meanwhile in the registers CPU3 writes to
  Contents   \* what the registers may hold at first

VARIABLES
  spi_profile,   \* the build: LZAMP_BUILD_PIN_PROFILE_SPI0
  boot,          \* steps of the bring-up taken
  cru,           \* the bits <<bank, register, bit>> of the CRU that are 1
  linux          \* history: the bits that are not CPU3's as Linux has them

bootVars == <<boot, cru, linux>>

Pclk ==
  [UART5 |-> <<"gate", 12, 6>>, UART7 |-> <<"gate", 12, 8>>,
   I2C7 |-> <<"gate", 10, 14>>, SPI0 |-> <<"gate", 14, 6>>,
   PWM1 |-> <<"gate", 15, 3>>, SARADC |-> <<"gate", 11, 14>>]
Leaf ==
  [UART5 |-> << <<"gate", 13, 9>> >>, UART7 |-> << <<"gate", 13, 15>> >>,
   I2C7 |-> << <<"gate", 11, 6>> >>, SPI0 |-> << <<"gate", 14, 11>> >>,
   PWM1 |-> << <<"gate", 15, 4>>, <<"gate", 15, 5>> >>,
   SARADC |-> << <<"gate", 11, 15>> >>]
Selector ==
  [UART5 |-> << <<"sel", 51, 0>> >>, UART7 |-> << <<"sel", 55, 0>> >>,
   I2C7 |-> << <<"sel", 38, 12>> >>, SPI0 |-> << <<"sel", 59, 2>> >>,
   PWM1 |-> << <<"sel", 59, 12>> >>,
   SARADC |-> << <<"sel", 40, 14>>, <<"sel", 40, 6>> >>]
ResetLine ==
  [UART5 |-> << <<"reset", 12, 6>>, <<"reset", 13, 9>> >>,
   UART7 |-> << <<"reset", 12, 8>>, <<"reset", 13, 15>> >>,
   I2C7 |-> << <<"reset", 10, 14>>, <<"reset", 11, 6>> >>,
   SPI0 |-> << <<"reset", 14, 6>>, <<"reset", 14, 11>> >>,
   PWM1 |-> << <<"reset", 15, 3>>, <<"reset", 15, 4>> >>,
   SARADC |-> << <<"reset", 11, 14>> >>]

Unit == DOMAIN Pclk
Assigned ==
  UNION {{Pclk[u]} \cup Range(Leaf[u] \o Selector[u] \o ResetLine[u]) : u \in Unit}

(* The mask of a field, and the value CPU3 wants in it: XIN24M is 2 of a   *)
(* two-bit parent and the divider of 1 MHz is 23.                          *)
Mask(field) ==
  CASE field \in {<<"sel", 51, 0>>, <<"sel", 55, 0>>, <<"sel", 59, 2>>, <<"sel", 59, 12>>} ->
         {0, 1}
    [] field = <<"sel", 40, 6>> -> 0 .. 7
    [] OTHER -> {0}
Target(field) ==
  CASE field \in {<<"sel", 51, 0>>, <<"sel", 55, 0>>, <<"sel", 59, 2>>, <<"sel", 59, 12>>} ->
         {1}
    [] field = <<"sel", 40, 6>> -> {0, 1, 2, 4}
    [] OTHER -> {0}

(* A value is 0, or 1 for the one CPU3 wants.                              *)
Bits(field, value) == IF value = 1 THEN Target(field) ELSE {}

Bit == {"gate", "sel", "reset"} \X Nat \X (0 .. 15)
Place(field, b) == <<field[1], field[2], field[3] + b>>
FieldBits(field) == {Place(field, b) : b \in Mask(field)}
OwnBits == UNION {FieldBits(f) : f \in Assigned}

ASSUME CruAssumption ==
  /\ Foreign \subseteq Bit \ OwnBits
  /\ \A c \in Contents : c \subseteq Bit

Reads(field, value) ==
  \A b \in Mask(field) : Place(field, b) \in cru <=> b \in Bits(field, value)

Clocked(u) == \A g \in {Pclk[u]} \cup Range(Leaf[u]) : Reads(g, 0)
Selected(u) == \A f \in Range(Selector[u]) : Reads(f, 1)
InReset(u) == \A l \in Range(ResetLine[u]) : Reads(l, 1)
OutOfReset(u) == \A l \in Range(ResetLine[u]) : Reads(l, 0)

-----------------------------------------------------------------------------
(* The program: writes to the CRU, pins and register set-up of a unit *)

Write(fields, value) ==
  [i \in 1 .. Len(fields) |-> [do |-> "write", field |-> fields[i], value |-> value]]
Step(do, unit) == <<[do |-> do, unit |-> unit]>>

\* Mutant: the parent is switched under a running leaf clock.
ClockEnableUngated(u) ==
  Write(Selector[u], 1) \o Write(<<Pclk[u]>>, 0) \o Write(Leaf[u], 0)

peripheral_clock_enable(u) ==
  Write(Leaf[u], 1) \o Write(Selector[u], 1)
    \o Write(<<Pclk[u]>>, 0) \o Write(Leaf[u], 0)

\* Mutant: a reset that is never asserted.
ResetPulseMissing(u) == Write(ResetLine[u], 0)

reset_pulse(u) == Write(ResetLine[u], 1) \o Write(ResetLine[u], 0)

Prepare(u) == peripheral_clock_enable(u) \o reset_pulse(u)

InitializeWith(profile) ==
  Prepare("UART5") \o Step("pins", "UART5") \o Step("init", "UART5")
  \o Prepare("UART7") \o Step("pins", "UART7") \o Step("init", "UART7")
  \o profile
  \o Prepare("PWM1") \o Step("init", "PWM1") \o Step("pins", "PWM1")
  \o Prepare("SARADC") \o Step("init", "SARADC")

InitializeSpi ==
  InitializeWith(Prepare("SPI0") \o Step("pins", "SPI0") \o Step("init", "SPI0"))
InitializeI2c ==
  InitializeWith(Prepare("I2C7") \o Step("pins", "I2C7") \o Step("init", "I2C7")
                   \o Step("inputs", "GPIO"))

peripherals_initialize == IF spi_profile THEN InitializeSpi ELSE InitializeI2c

Booting == boot < Len(peripherals_initialize)
Current == peripherals_initialize[boot + 1]

-----------------------------------------------------------------------------
BootInit ==
  /\ spi_profile \in BOOLEAN /\ boot = 0
  /\ cru \in Contents /\ linux = cru \ OwnBits

(* The CRU changes a bit only where the mask, the upper half of the word,  *)
(* is set.                                                                 *)
write32(word, bank, register) ==
  cru' = {x \in cru : x[1] = bank /\ x[2] = register => x[3] + 16 \notin word}
           \cup {<<bank, register, b>> : b \in {b \in 0 .. 15 : b \in word /\ b + 16 \in word}}

\* Mutant: the mask is not shifted with the value.
HiwordMaskInPlace(field, value) ==
  write32({b + 16 : b \in Mask(field)}
            \cup {b + field[3] : b \in Bits(field, value) \cap Mask(field)},
          field[1], field[2])

hiword_update(field, value) ==
  LET shifted_mask == {b + field[3] : b \in Mask(field)}
      word == {b + 16 : b \in shifted_mask}
                \cup {b + field[3] : b \in Bits(field, value) \cap Mask(field)}
  IN  write32(word, field[1], field[2])

BootStep ==
  /\ Booting
  /\ boot' = boot + 1
  /\ IF Current.do = "write" THEN hiword_update(Current.field, Current.value)
     ELSE UNCHANGED cru
  /\ UNCHANGED <<spi_profile, linux>>

\* A clock or reset driver of Linux, at any time.
LinuxUpdate(x) ==
  /\ \/ x \in linux /\ linux' = linux \ {x} /\ cru' = cru \ {x}
     \/ x \notin linux /\ linux' = linux \cup {x} /\ cru' = cru \cup {x}
  /\ UNCHANGED <<spi_profile, boot>>

-----------------------------------------------------------------------------
(* Properties *)

\* The words CPU3 puts together from masks, shifts and values change no bit
\* outside its own fields: all others are as Linux last left them, however its
\* writes fall between those of CPU3 (docs/architecture.md: "Zephyr may touch
\* only assigned leaf clock and reset bits using Rockchip hiword-mask writes").
LinuxBitsKept == cru \ OwnBits = linux

\* Whatever was left in the CRU, a selector is written only while the unit's
\* leaf clocks are closed (rk3588_peripheral_clock.c: "Stop the leaf clock
\* before switching its instance-local output mux"), a reset line only while
\* its unit is clocked, and a unit's registers are set up only while it has
\* the clocks CPU3 wants and is out of reset.
BringUpInOrder ==
  Booting =>
    /\ Current.do = "write" =>
         \A u \in Unit :
           /\ Current.field \in Range(Selector[u]) => \A g \in Range(Leaf[u]) : Reads(g, 1)
           /\ Current.field \in Range(ResetLine[u]) => Clocked(u)
    /\ Current.do = "init" =>
         Clocked(Current.unit) /\ Selected(Current.unit) /\ OutOfReset(Current.unit)
=============================================================================
