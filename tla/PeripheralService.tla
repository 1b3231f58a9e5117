-------------------------- MODULE PeripheralService --------------------------
(***************************************************************************)
(* lzamp_peripheral_service_execute and the polling drivers under it: GPIO *)
(* lines, I2C7, SPI0, two UARTs, PWM7 and the SARADC.  CPU3 first brings   *)
(* the controllers up (PeripheralBoot), whatever an earlier session has    *)
(* left in them.  Then requests are served one after the other; the        *)
(* devices act on their own between the driver's register accesses, also   *)
(* after a driver has given up waiting for them.                           *)
(*                                                                         *)
(* A step of a driver is one register write or one look at a status        *)
(* register that the device can come between.  Each wait may end by its    *)
(* timeout.  A request has the fields of its payload; the number n of the  *)
(* request stands for the data it moves, so that a reply can be told from  *)
(* the reply to an earlier request.                                        *)
(***************************************************************************)
EXTENDS PeripheralBoot, FiniteSets

CONSTANTS
  Request,      \* [op, arg0, arg1, arg2, length]
  Left,         \* bound: levels an earlier session may have left in DR
  MaxRequests,  \* bound: requests served
  UartDepth     \* bound: bytes waiting in a UART

INLINE_BYTES == 8
Owned == {25, 28, 29}          \* LZAMP_GPIO3_PD1, PD4, PD5
Port == {5, 7}

Payload == [op : STRING, arg0 : Nat, arg1 : Nat, arg2 : Nat, length : Nat]

ASSUME PeripheralAssumption ==
  /\ Request \subseteq Payload
  /\ Left \subseteq SUBSET Owned /\ MaxRequests \in Nat /\ UartDepth \in Nat

VARIABLES
  n,         \* requests begun
  request,   \* the one executed last
  pc,        \* where its driver is; boot, then idle between requests
  index,     \* bytes the driver has moved
  status,    \* ret of the driver so far
  result,    \* what the last request ended with
  gpio, i2c, adc, spi, pwm, uart,   \* registers and device state
  wanted     \* the level last asked for, for each configured output

driverVars == <<spi_profile, n, request, pc, index, status, result>>
devices == <<gpio, i2c, adc, spi, pwm, uart>>
vars == <<bootVars, driverVars, devices, wanted>>

NoOne == [op |-> "NONE", arg0 |-> 0, arg1 |-> 0, arg2 |-> 0, length |-> 0]

(* lzamp_rk3588_pinctrl_profile: the lines that are GPIO lines at first.   *)
ProfileMux == IF spi_profile THEN {} ELSE Owned

(* pwm_set: 24 MHz, rounded: (24000000 * ns + 500000000) / 1000000000.     *)
Ticks(ns) == (6 * ns + 125) \div 250

I2cOff == [con |-> "off", ipd |-> {}, done |-> {}]
AdcIdle == [busy |-> 0, end |-> FALSE, data |-> 0]
SpiIdle == [enabled |-> FALSE, ser |-> {}, tx |-> <<>>, rx |-> <<>>, read |-> <<>>]
PwmOff == [period |-> 0, duty |-> 0, lock |-> FALSE, enable |-> FALSE, out |-> <<0, 0>>]
UartUnit == [p \in Port |-> IF p = 5 THEN "UART5" ELSE "UART7"]

(* After power-on the lines are GPIO inputs and the controllers are idle.  *)
Cold ==
  /\ gpio = [mux |-> Owned, ddr |-> {}, dr |-> {}, output_mask |-> {}]
  /\ i2c = I2cOff /\ adc = AdcIdle /\ pwm = PwmOff
  /\ uart = [p \in Port |-> 0]

(* A session ends between two requests, and so may leave lines driven, a   *)
(* transfer's late bit in IPD, a conversion it gave up, a running PWM and  *)
(* unread bytes, but no unit in reset.  Another profile needs a reboot.    *)
LeftBehind ==
  /\ \A u \in Unit : OutOfReset(u)
  /\ \E driven, dr \in Left :
       gpio = [mux |-> ProfileMux, ddr |-> driven \cap ProfileMux,
               dr |-> dr \cap ProfileMux, output_mask |-> {}]
  /\ i2c = [I2cOff EXCEPT !.ipd = {"MBTF"}]
  /\ adc = [AdcIdle EXCEPT !.busy = MaxRequests + 1]
  /\ \E r \in Request :
       /\ r.op = "PWM_SET" /\ r.arg1 < r.arg0
       /\ pwm = [PwmOff EXCEPT !.period = Ticks(r.arg0), !.duty = Ticks(r.arg1),
                               !.enable = TRUE, !.out = <<Ticks(r.arg0), Ticks(r.arg1)>>]
  /\ uart = [p \in Port |-> UartDepth]

Init ==
  /\ BootInit
  /\ n = 0 /\ request = NoOne /\ pc = "boot" /\ index = 0 /\ status = "OK"
  /\ result = [request |-> NoOne, status |-> "OK", n |-> 0, data |-> <<>>]
  /\ spi = SpiIdle
  /\ Cold \/ LeftBehind
  /\ wanted = [l \in {} |-> 0]

(* A step of the bring-up, with what the resets and the drivers' init      *)
(* functions do to the devices.  uart_init empties the FIFO, i2c_init      *)
(* clears CON and IPD, spi_init disables, pwm_init stops, saradc_init      *)
(* clears END; output_mask is CPU3's own memory.                           *)
BringUp ==
  /\ pc = "boot" /\ BootStep
  /\ LET Does(do, u) == Current.do = do /\ Current.unit = u
         Cleared(u) == (InReset(u) /\ Clocked(u))'
     IN /\ uart' = [p \in Port |->
                     IF Cleared(UartUnit[p]) \/ Does("init", UartUnit[p]) THEN 0
                     ELSE uart[p]]
        /\ i2c' = IF Cleared("I2C7") \/ Does("init", "I2C7") THEN I2cOff ELSE i2c
        /\ spi' = IF Cleared("SPI0") \/ Does("init", "SPI0") THEN SpiIdle ELSE spi
        /\ pwm' = IF Cleared("PWM1") THEN PwmOff
                  ELSE IF Does("init", "PWM1") THEN [pwm EXCEPT !.enable = FALSE] ELSE pwm
        /\ adc' = IF Cleared("SARADC") THEN AdcIdle
                  ELSE IF Does("init", "SARADC") THEN [adc EXCEPT !.end = FALSE] ELSE adc
        /\ gpio' = IF Does("inputs", "GPIO") THEN [gpio EXCEPT !.mux = Owned, !.ddr = {}]
                   ELSE IF Does("pins", "SPI0") THEN [gpio EXCEPT !.mux = {}] ELSE gpio
  /\ UNCHANGED <<n, request, pc, index, status, result, wanted>>

(* The service is ready.  It does not look at the CRU, whose bits are      *)
(* forgotten to bound the model.                                           *)
ServiceReady ==
  /\ pc = "boot" /\ ~Booting
  /\ pc' = "idle"
  /\ cru' = {} /\ linux' = {}
  /\ UNCHANGED <<boot, spi_profile, n, request, index, status, result, devices, wanted>>

Unavailable(r) ==
  CASE r.op = "GPIO_CONFIG" -> spi_profile /\ r.arg1 <= 1 /\ r.arg2 <= 1
    [] r.op = "GPIO_WRITE" -> spi_profile /\ r.arg1 <= 1
    [] r.op \in {"GPIO_READ", "I2C_WRITE", "I2C_READ", "I2C_WRITE_READ"} -> spi_profile
    [] r.op = "SPI_TRANSFER" -> ~spi_profile
    [] OTHER -> FALSE

(* The checks of the service and of the driver before any register access. *)
Invalid(r) ==
  CASE r.op = "GPIO_CONFIG" -> r.arg1 > 1 \/ r.arg2 > 1 \/ r.arg0 \notin Owned
    [] r.op = "GPIO_WRITE" -> r.arg1 > 1 \/ r.arg0 \notin Owned
    [] r.op = "GPIO_READ" -> r.arg0 \notin Owned
    [] r.op = "UART_WRITE" -> r.arg0 \notin Port
    [] r.op = "UART_READ" -> r.arg0 \notin Port \/ r.arg1 \notin 1 .. INLINE_BYTES
    [] r.op = "I2C_WRITE" -> r.arg0 > 127 \/ r.length = 0
    [] r.op = "I2C_READ" -> r.arg0 > 127 \/ r.arg1 \notin 1 .. INLINE_BYTES
    [] r.op = "I2C_WRITE_READ" ->
         r.arg0 > 127 \/ r.length \notin 1 .. 3 \/ r.arg1 \notin 1 .. INLINE_BYTES
    [] r.op = "SPI_TRANSFER" -> r.length = 0 \/ r.arg1 > 3 \/ r.arg0 > 1
    [] r.op = "PWM_SET" ->
         r.arg2 > 1 \/ r.arg0 = 0 \/ r.arg1 > r.arg0 \/ Ticks(r.arg0) = 0
    [] r.op \in {"PWM_STOP", "ADC_READ"} -> FALSE
    [] OTHER -> TRUE

(* The reply is built and the worker takes the next request.               *)
Finish(outcome, data) ==
  /\ pc' = "idle"
  /\ result' = [request |-> request', status |-> outcome, n |-> n', data |-> data]
  /\ status' = "OK" /\ index' = 0

Go(label) == pc' = label /\ UNCHANGED <<index, status, result>>

(* A driver's step other than its first.                                   *)
At(label) == pc = label /\ UNCHANGED <<spi_profile, n, request>>

Begin(r) ==
  /\ pc = "idle" /\ n < MaxRequests
  /\ n' = n + 1
  /\ request' = r
  /\ UNCHANGED spi_profile

Refuse(r) ==
  /\ Begin(r)
  /\ r.length > INLINE_BYTES \/ Unavailable(r) \/ Invalid(r)
  /\ Finish(IF r.length <= INLINE_BYTES /\ Unavailable(r)
              THEN "UNAVAILABLE" ELSE "INVALID", <<>>)
  /\ UNCHANGED <<devices, wanted>>

Accept(r, ops) ==
  /\ r.op \in ops
  /\ Begin(r)
  /\ r.length <= INLINE_BYTES /\ ~Unavailable(r) /\ ~Invalid(r)
-----------------------------------------------------------------------------
(* GPIO.                                                                   *)
GpioConfigureInput(r) ==
  /\ Accept(r, {"GPIO_CONFIG"}) /\ r.arg1 = 0
  /\ gpio' = [gpio EXCEPT !.mux = @ \cup {r.arg0}, !.ddr = @ \ {r.arg0},
                          !.output_mask = @ \ {r.arg0}]
  /\ wanted' = [l \in DOMAIN wanted \ {r.arg0} |-> wanted[l]]
  /\ Finish("OK", <<>>)
  /\ UNCHANGED <<i2c, adc, spi, pwm, uart>>

GpioConfigureOutput(r) ==
  /\ Accept(r, {"GPIO_CONFIG"}) /\ r.arg1 = 1
  /\ gpio' = [gpio EXCEPT !.mux = @ \cup {r.arg0}]
  /\ wanted' = [l \in DOMAIN wanted \cup {r.arg0} |->
                  IF l = r.arg0 THEN r.arg2 ELSE wanted[l]]
  /\ Go("gpio_level")
  /\ UNCHANGED <<i2c, adc, spi, pwm, uart>>

Level(line, value) == IF value = 1 THEN gpio.dr \cup {line} ELSE gpio.dr \ {line}

(* Mutant: the output is enabled first.                                    *)
GpioOutputFirst ==
  /\ At("gpio_level")
  /\ gpio' = [gpio EXCEPT !.ddr = @ \cup {request.arg0}]
  /\ Go("gpio_direction")
  /\ UNCHANGED <<i2c, adc, spi, pwm, uart, wanted>>

GpioOutputLevel ==
  /\ At("gpio_level")
  /\ gpio' = [gpio EXCEPT !.dr = Level(request.arg0, request.arg2)]
  /\ Go("gpio_direction")
  /\ UNCHANGED <<i2c, adc, spi, pwm, uart, wanted>>

GpioOutputDirection ==
  /\ At("gpio_direction")
  /\ gpio' = [gpio EXCEPT !.ddr = @ \cup {request.arg0},
                          !.output_mask = @ \cup {request.arg0}]
  /\ Finish("OK", <<>>)
  /\ UNCHANGED <<i2c, adc, spi, pwm, uart, wanted>>

GpioSet(r) ==
  /\ Accept(r, {"GPIO_WRITE"})
  /\ IF r.arg0 \in gpio.output_mask
       THEN /\ gpio' = [gpio EXCEPT !.dr = Level(r.arg0, r.arg1)]
            /\ wanted' = [wanted EXCEPT ![r.arg0] = r.arg1]
            /\ Finish("OK", <<>>)
       ELSE UNCHANGED <<gpio, wanted>> /\ Finish("NOT_OUTPUT", <<>>)
  /\ UNCHANGED <<i2c, adc, spi, pwm, uart>>

(* The level of an input is the world's.                                   *)
GpioGet(r) ==
  /\ Accept(r, {"GPIO_READ"})
  /\ \E level \in {0, 1} : Finish("OK", <<level>>)
  /\ UNCHANGED <<devices, wanted>>
-----------------------------------------------------------------------------
(* I2C7.  A transfer clears IPD and starts the controller; wait_ipd looks  *)
(* for NAK before the bit it wants and clears what it has seen.            *)
Wanted == IF request.op = "I2C_WRITE" THEN "MBTF" ELSE "MBRF"

I2cStart(r) ==
  /\ Accept(r, {"I2C_WRITE", "I2C_READ", "I2C_WRITE_READ"})
  /\ i2c' = [i2c EXCEPT !.con = "start", !.ipd = {}]
  /\ Go("i2c_wait")
  /\ UNCHANGED <<gpio, adc, spi, pwm, uart, wanted>>

I2cWaitEnds(ret) ==
  /\ status' = ret
  /\ pc' = "i2c_stop" /\ UNCHANGED <<index, result>>
  /\ UNCHANGED <<gpio, adc, spi, pwm, uart, wanted>>

I2cWait ==
  /\ At("i2c_wait")
  /\ \/ "NAK" \in i2c.ipd /\ I2cWaitEnds("NAK")
     \/ "NAK" \notin i2c.ipd /\ Wanted \in i2c.ipd /\ I2cWaitEnds("OK")
  /\ i2c' = [i2c EXCEPT !.ipd = {}]

I2cWaitTimeout ==
  /\ At("i2c_wait")
  /\ i2c.ipd \cap {"NAK", Wanted} = {}
  /\ I2cWaitEnds("TIMEOUT")
  /\ UNCHANGED i2c

I2cStop ==
  /\ At("i2c_stop")
  /\ i2c' = [i2c EXCEPT !.con = "stop"]
  /\ pc' = "i2c_stop_wait" /\ UNCHANGED <<index, status, result>>
  /\ UNCHANGED <<gpio, adc, spi, pwm, uart, wanted>>

(* Mutant: stop_bus returns at once when its wait fails.                   *)
I2cStopWaitHolds ==
  /\ At("i2c_stop_wait")
  /\ \/ /\ "STOP" \in i2c.ipd /\ "NAK" \notin i2c.ipd
        /\ i2c' = [i2c EXCEPT !.con = "off", !.ipd = {}]
        /\ Finish(status, IF status = "OK" THEN <<n>> ELSE <<>>)
     \/ /\ "NAK" \in i2c.ipd \/ "STOP" \notin i2c.ipd
        /\ UNCHANGED i2c
        /\ Finish(IF status = "OK" THEN "TIMEOUT" ELSE status, <<>>)
  /\ UNCHANGED <<gpio, adc, spi, pwm, uart, wanted>>

(* stop_bus switches the controller off whether or not STOP is seen; its   *)
(* failure is reported unless the transfer has already failed.             *)
I2cStopWait ==
  /\ At("i2c_stop_wait")
  /\ \/ /\ "STOP" \in i2c.ipd /\ "NAK" \notin i2c.ipd
        /\ i2c' = [i2c EXCEPT !.con = "off", !.ipd = {}]
        /\ Finish(status, IF status = "OK" THEN <<n>> ELSE <<>>)
     \/ /\ "NAK" \in i2c.ipd
        /\ i2c' = [i2c EXCEPT !.con = "off", !.ipd = {}]
        /\ Finish(IF status = "OK" THEN "TIMEOUT" ELSE status, <<>>)
     \/ /\ i2c.ipd \cap {"NAK", "STOP"} = {}
        /\ i2c' = [i2c EXCEPT !.con = "off"]
        /\ Finish(IF status = "OK" THEN "TIMEOUT" ELSE status, <<>>)
  /\ UNCHANGED <<gpio, adc, spi, pwm, uart, wanted>>

(* The controller: a transfer completes or is refused by the device, also  *)
(* while a stop is asked for; then the stop takes place.                   *)
I2cDevice ==
  /\ i2c.con # "off"
  /\ \/ /\ n \notin i2c.done
        /\ i2c' = [i2c EXCEPT !.ipd = @ \cup {Wanted}, !.done = @ \cup {n}]
     \/ n \notin i2c.done /\ i2c' = [i2c EXCEPT !.ipd = @ \cup {"NAK"}]
     \/ i2c.con = "stop" /\ i2c' = [i2c EXCEPT !.ipd = @ \cup {"STOP"}]
  /\ UNCHANGED <<driverVars, gpio, adc, spi, pwm, uart, wanted>>
-----------------------------------------------------------------------------
(* SARADC.  The service resets the converter before each sample.           *)
(* Mutant: without the reset a conversion given up before goes on.         *)
AdcResetSkipped(r) ==
  /\ Accept(r, {"ADC_READ"})
  /\ Go("adc_clear")
  /\ UNCHANGED <<devices, wanted>>

AdcReset(r) ==
  /\ Accept(r, {"ADC_READ"})
  /\ adc' = [adc EXCEPT !.busy = 0, !.end = FALSE]
  /\ Go("adc_clear")
  /\ UNCHANGED <<gpio, i2c, spi, pwm, uart, wanted>>

AdcClear ==
  /\ At("adc_clear")
  /\ IF request.arg0 >= 8
       THEN Finish("INVALID", <<>>) /\ UNCHANGED adc
       ELSE Go("adc_start") /\ adc' = [adc EXCEPT !.end = FALSE]
  /\ UNCHANGED <<gpio, i2c, spi, pwm, uart, wanted>>

AdcStart ==
  /\ At("adc_start")
  /\ adc' = [adc EXCEPT !.busy = n]
  /\ Go("adc_wait")
  /\ UNCHANGED <<gpio, i2c, spi, pwm, uart, wanted>>

AdcWait ==
  /\ At("adc_wait") /\ adc.end
  /\ adc' = [adc EXCEPT !.end = FALSE]
  /\ Finish("OK", <<adc.data>>)
  /\ UNCHANGED <<gpio, i2c, spi, pwm, uart, wanted>>

AdcTimeout ==
  /\ At("adc_wait") /\ ~adc.end
  /\ Finish("TIMEOUT", <<>>)
  /\ UNCHANGED <<devices, wanted>>

AdcDevice ==
  /\ adc.busy # 0
  /\ adc' = [busy |-> 0, end |-> TRUE, data |-> adc.busy]
  /\ UNCHANGED <<driverVars, gpio, i2c, spi, pwm, uart, wanted>>
-----------------------------------------------------------------------------
(* SPI0.  Bytes are <<n, i>>; switching the controller off empties both    *)
(* FIFOs.  The transfer holds the chip select from SER to its end.         *)
SpiStart(r) ==
  /\ Accept(r, {"SPI_TRANSFER"})
  /\ spi' = [enabled |-> TRUE, ser |-> {r.arg0}, tx |-> <<>>, rx |-> <<>>, read |-> <<>>]
  /\ Go("spi_tx")
  /\ UNCHANGED <<gpio, i2c, adc, pwm, uart, wanted>>

SpiTx ==
  /\ At("spi_tx")
  /\ spi' = [spi EXCEPT !.tx = Append(@, <<n, index + 1>>)]
  /\ Go("spi_rx")
  /\ UNCHANGED <<gpio, i2c, adc, pwm, uart, wanted>>

(* Mutant: RXDR is read once the byte has been sent, arrived or not.       *)
SpiRxUnwaited ==
  /\ At("spi_rx")
  /\ spi' = [spi EXCEPT !.rx = IF @ = <<>> THEN @ ELSE Tail(@),
                        !.read = IF spi.rx = <<>> THEN @ ELSE Append(@, Head(spi.rx))]
  /\ index' = index + 1
  /\ pc' = IF index' = request.length THEN "spi_busy" ELSE "spi_tx"
  /\ UNCHANGED <<status, result, gpio, i2c, adc, pwm, uart, wanted>>

SpiRx ==
  /\ At("spi_rx") /\ spi.rx # <<>>
  /\ spi' = [spi EXCEPT !.rx = Tail(@), !.read = Append(@, Head(spi.rx))]
  /\ index' = index + 1
  /\ pc' = IF index' = request.length THEN "spi_busy" ELSE "spi_tx"
  /\ UNCHANGED <<status, result, gpio, i2c, adc, pwm, uart, wanted>>

SpiDone ==
  /\ At("spi_busy") /\ spi.tx = <<>>
  /\ spi' = SpiIdle
  /\ Finish("OK", spi.read)
  /\ UNCHANGED <<gpio, i2c, adc, pwm, uart, wanted>>

(* Mutant: the wait for a received byte has no timeout.                    *)
SpiTimeoutNotRx ==
  /\ pc \in {"spi_tx", "spi_busy"} /\ UNCHANGED <<spi_profile, n, request>>
  /\ spi' = SpiIdle
  /\ Finish("TIMEOUT", <<>>)
  /\ UNCHANGED <<gpio, i2c, adc, pwm, uart, wanted>>

SpiTimeout ==
  /\ pc \in {"spi_tx", "spi_rx", "spi_busy"} /\ UNCHANGED <<spi_profile, n, request>>
  /\ spi' = SpiIdle
  /\ Finish("TIMEOUT", <<>>)
  /\ UNCHANGED <<gpio, i2c, adc, pwm, uart, wanted>>

SpiDevice ==
  /\ spi.enabled /\ spi.tx # <<>>
  /\ spi' = [spi EXCEPT !.tx = Tail(@), !.rx = Append(@, Head(spi.tx))]
  /\ UNCHANGED <<driverVars, gpio, i2c, adc, pwm, uart, wanted>>
-----------------------------------------------------------------------------
(* PWM7.  The channel takes over period and duty at the end of a period    *)
(* unless LOCK is set.                                                     *)
(* Mutant: period and duty are written unlocked.                           *)
PwmUnlocked(r) ==
  /\ Accept(r, {"PWM_SET"})
  /\ pwm' = pwm
  /\ Go("pwm_period")
  /\ UNCHANGED <<gpio, i2c, adc, spi, uart, wanted>>

PwmLock(r) ==
  /\ Accept(r, {"PWM_SET"})
  /\ pwm' = [pwm EXCEPT !.lock = TRUE]
  /\ Go("pwm_period")
  /\ UNCHANGED <<gpio, i2c, adc, spi, uart, wanted>>

PwmPeriod ==
  /\ At("pwm_period")
  /\ pwm' = [pwm EXCEPT !.period = Ticks(request.arg0)]
  /\ Go("pwm_duty")
  /\ UNCHANGED <<gpio, i2c, adc, spi, uart, wanted>>

PwmDuty ==
  /\ At("pwm_duty")
  /\ pwm' = [pwm EXCEPT !.duty = Ticks(request.arg1)]
  /\ Go("pwm_enable")
  /\ UNCHANGED <<gpio, i2c, adc, spi, uart, wanted>>

PwmEnable ==
  /\ At("pwm_enable")
  /\ pwm' = [pwm EXCEPT !.lock = FALSE, !.enable = TRUE]
  /\ Finish("OK", <<>>)
  /\ UNCHANGED <<gpio, i2c, adc, spi, uart, wanted>>

PwmStop(r) ==
  /\ Accept(r, {"PWM_STOP"})
  /\ pwm' = [pwm EXCEPT !.enable = FALSE]
  /\ Finish("OK", <<>>)
  /\ UNCHANGED <<gpio, i2c, adc, spi, uart, wanted>>

PwmDevice ==
  /\ pwm.enable /\ ~pwm.lock
  /\ pwm.out # <<pwm.period, pwm.duty>>
  /\ pwm' = [pwm EXCEPT !.out = <<pwm.period, pwm.duty>>]
  /\ UNCHANGED <<driverVars, gpio, i2c, adc, spi, uart, wanted>>
-----------------------------------------------------------------------------
(* UARTs.  A write may time out after some of its bytes; a read waits for  *)
(* the first byte only.                                                    *)
UartStart(r) ==
  /\ Accept(r, {"UART_WRITE", "UART_READ"})
  /\ Go(IF r.op = "UART_WRITE" THEN "uart_tx" ELSE "uart_wait")
  /\ UNCHANGED <<devices, wanted>>

UartTx ==
  /\ At("uart_tx")
  /\ \/ index = request.length /\ Finish("OK", <<>>)
     \/ /\ index < request.length
        /\ index' = index + 1 /\ UNCHANGED <<pc, status, result>>
     \/ index < request.length /\ Finish("TIMEOUT", <<>>)
  /\ UNCHANGED <<devices, wanted>>

UartWait ==
  /\ At("uart_wait")
  /\ IF uart[request.arg0] > 0 THEN Go("uart_rx") ELSE Finish("TIMEOUT", <<>>)
  /\ UNCHANGED <<devices, wanted>>

UartRx ==
  /\ At("uart_rx")
  /\ IF index < request.arg1 /\ uart[request.arg0] > 0
       THEN /\ uart' = [uart EXCEPT ![request.arg0] = @ - 1]
            /\ index' = index + 1 /\ UNCHANGED <<pc, status, result>>
       ELSE UNCHANGED uart /\ Finish("OK", [i \in 1 .. index |-> n])
  /\ UNCHANGED <<gpio, i2c, adc, spi, pwm, wanted>>

(* A byte during the bring-up is lost, or is like one after it.            *)
UartDevice(p) ==
  /\ pc # "boot" /\ uart[p] < UartDepth
  /\ uart' = [uart EXCEPT ![p] = @ + 1]
  /\ UNCHANGED <<driverVars, gpio, i2c, adc, spi, pwm, wanted>>
-----------------------------------------------------------------------------
Serve(r) ==
  \/ Refuse(r)
  \/ GpioConfigureInput(r) \/ GpioConfigureOutput(r) \/ GpioSet(r) \/ GpioGet(r)
  \/ I2cStart(r) \/ AdcReset(r) \/ SpiStart(r)
  \/ PwmLock(r) \/ PwmStop(r) \/ UartStart(r)

Drivers ==
  \/ GpioOutputLevel \/ GpioOutputDirection
  \/ I2cWait \/ I2cWaitTimeout \/ I2cStop \/ I2cStopWait
  \/ AdcClear \/ AdcStart \/ AdcWait \/ AdcTimeout
  \/ SpiTx \/ SpiRx \/ SpiDone \/ SpiTimeout
  \/ PwmPeriod \/ PwmDuty \/ PwmEnable
  \/ UartTx \/ UartWait \/ UartRx

Devices ==
  I2cDevice \/ AdcDevice \/ SpiDevice \/ PwmDevice \/ \E p \in Port : UartDevice(p)

(* The model's bound: no more requests come.                               *)
Bounded == pc = "idle" /\ n = MaxRequests /\ UNCHANGED vars

Serving ==
  /\ (\E r \in Request : Serve(r)) \/ Drivers \/ Devices \/ Bounded
  /\ UNCHANGED bootVars

LinuxWrites ==
  /\ pc = "boot" /\ \E f \in Foreign : LinuxUpdate(f)
  /\ UNCHANGED <<n, request, pc, index, status, result, devices, wanted>>

Next == BringUp \/ ServiceReady \/ LinuxWrites \/ Serving

Spec == Init /\ [][Next]_vars

(* The worker runs and every wait is bounded; no device need ever act.     *)
FairSpec ==
  /\ Spec
  /\ WF_vars(BringUp \/ ServiceReady \/ (Drivers /\ UNCHANGED bootVars))
-----------------------------------------------------------------------------
(* Type invariant of the service, the drivers and the devices.             *)
TypeOK ==
  /\ n \in 0 .. MaxRequests /\ index \in 0 .. INLINE_BYTES
  /\ pc = "boot" \/ gpio.output_mask \subseteq gpio.ddr
  /\ gpio.ddr \subseteq Owned
  /\ i2c.con \in {"off", "start", "stop"}
  /\ i2c.ipd \subseteq {"MBTF", "MBRF", "STOP", "NAK"}
  /\ adc.busy \in 0 .. MaxRequests + 1
  /\ Len(spi.tx) + Len(spi.rx) <= 1
  /\ \A p \in Port : uart[p] \in 0 .. UartDepth

Succeeded(ops) == result.request.op \in ops /\ result.status = "OK"

(* Nothing late is taken for the answer: an I2C request succeeds only if   *)
(* its own transfer took place, whatever bits one given up earlier raises  *)
(* in IPD, and the sample an ADC request returns was converted for it,     *)
(* also when the conversion before it timed out and ends late.             *)
RepliesAreFresh ==
  /\ Succeeded({"I2C_WRITE", "I2C_READ", "I2C_WRITE_READ"}) => result.n \in i2c.done
  /\ Succeeded({"ADC_READ"}) => result.data = <<result.n>>

(* An SPI request returns one byte for each byte it sent, in step.         *)
SpiBytesInStep ==
  Succeeded({"SPI_TRANSFER"}) =>
    result.data = [i \in 1 .. result.request.length |-> <<result.n, i>>]

(* Between requests both buses are free, however the last transfer ended:  *)
(* I2C7 is off, and SPI0 is off with no chip selected.                     *)
BusesReleased ==
  pc = "idle" => i2c.con = "off" /\ ~spi.enabled /\ spi.ser = {}

(* The PWM output never mixes the period of one request with the duty of   *)
(* another: each pair it takes over was asked for as a pair.               *)
PwmOutputIsAPair ==
  pwm.out = <<0, 0>> \/
  \E r \in Request : r.op = "PWM_SET" /\ pwm.out = <<Ticks(r.arg0), Ticks(r.arg1)>>

(* Once the service runs, a line is driven only at the level last asked    *)
(* for, from the moment its output is enabled; only the request that       *)
(* changes it comes in between.                                            *)
DrivenAsRequested ==
  pc # "boot" => \A l \in gpio.ddr :
    \/ l \in DOMAIN wanted /\ (l \in gpio.dr <=> wanted[l] = 1)
    \/ pc = "gpio_level" /\ request.arg0 = l

(* The service begins with nothing of an earlier session: no line driven,  *)
(* no late bit or conversion, no PWM output and no unread byte.            *)
BootedClean ==
  pc = "boot" /\ ~Booting =>
    /\ gpio.mux = ProfileMux /\ gpio.ddr = {}
    /\ spi_profile \/ i2c = I2cOff
    /\ spi = SpiIdle /\ adc = AdcIdle /\ pwm = PwmOff
    /\ \A p \in Port : uart[p] = 0

(* The bring-up ends and every request is answered: no wait of a driver    *)
(* depends on a device.                                                    *)
EveryRequestEnds == pc # "idle" ~> pc = "idle"
=============================================================================
