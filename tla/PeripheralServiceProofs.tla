------------------------ MODULE PeripheralServiceProofs ------------------------
(***************************************************************************)
(* What the peripheral service promises, for every set of requests, any    *)
(* number of them, and every order in which devices act.                   *)
(*                                                                         *)
(* The argument.  A driver's steps are the only ones at its labels and the *)
(* only ones, with those of its device, that touch its registers.  So each *)
(* controller has an invariant of its own, which the steps of the others   *)
(* cannot disturb: what is in its registers at each label was put there    *)
(* for the request being served.                                           *)
(*                                                                         *)
(* What an earlier session left is gone after the bring-up, because each   *)
(* unit passes through its reset with its clocks on (PeripheralBootProofs, *)
(* CleanInv) and the lines become inputs (GpioBoot).                       *)
(***************************************************************************)
EXTENDS PeripheralService, PeripheralBootProofs

-----------------------------------------------------------------------------
(* The steps by controller *)

GpioLabel == {"gpio_level", "gpio_direction"}
I2cLabel == {"i2c_wait", "i2c_stop", "i2c_stop_wait"}
AdcLabel == {"adc_clear", "adc_start", "adc_wait"}
SpiLabel == {"spi_tx", "spi_rx", "spi_busy"}
PwmLabel == {"pwm_period", "pwm_duty", "pwm_enable"}
UartLabel == {"uart_tx", "uart_wait", "uart_rx"}

GpioOp == {"GPIO_CONFIG", "GPIO_WRITE", "GPIO_READ"}
I2cOp == {"I2C_WRITE", "I2C_READ", "I2C_WRITE_READ"}
AdcOp == {"ADC_READ"}
SpiOp == {"SPI_TRANSFER"}
PwmOp == {"PWM_SET", "PWM_STOP"}
UartOp == {"UART_WRITE", "UART_READ"}

GpioStep ==
  \/ \E r \in Request :
       GpioConfigureInput(r) \/ GpioConfigureOutput(r) \/ GpioSet(r) \/ GpioGet(r)
  \/ GpioOutputLevel \/ GpioOutputDirection
I2cStep ==
  \/ \E r \in Request : I2cStart(r)
  \/ I2cWait \/ I2cWaitTimeout \/ I2cStop \/ I2cStopWait \/ I2cDevice
AdcStep ==
  \/ \E r \in Request : AdcReset(r)
  \/ AdcClear \/ AdcStart \/ AdcWait \/ AdcTimeout \/ AdcDevice
SpiStep ==
  \/ \E r \in Request : SpiStart(r)
  \/ SpiTx \/ SpiRx \/ SpiDone \/ SpiTimeout \/ SpiDevice
PwmStep ==
  \/ \E r \in Request : PwmLock(r) \/ PwmStop(r)
  \/ PwmPeriod \/ PwmDuty \/ PwmEnable \/ PwmDevice
UartStep ==
  \/ \E r \in Request : UartStart(r)
  \/ UartTx \/ UartWait \/ UartRx \/ \E p \in Port : UartDevice(p)

LEMMA PeripheralCases ==
  ASSUME [Next]_vars
  PROVE  \/ BringUp \/ ServiceReady \/ LinuxWrites
         \/ /\ \/ \E r \in Request : Refuse(r)
               \/ GpioStep \/ I2cStep \/ AdcStep \/ SpiStep \/ PwmStep \/ UartStep
            /\ UNCHANGED bootVars
         \/ UNCHANGED vars
  BY Zenon DEF Next, Serving, Serve, Drivers, Devices, Bounded, GpioStep, I2cStep, AdcStep,
         SpiStep, PwmStep, UartStep

\* What a step of one controller does to the driver's variables: nothing, or it
\* takes a request of its own, moves among its labels, and answers it.
Drives(labels, ops) ==
  \/ UNCHANGED <<n, request, pc, index, status, result>>
  \/ /\ pc \in labels \cup {"idle"} /\ pc' \in labels \cup {"idle"}
     /\ pc \in labels => request' = request /\ n' = n
     /\ pc = "idle" => request' \in Request /\ request'.op \in ops /\ n' = n + 1
     /\ \/ result' = result
        \/ /\ result'.request = request' /\ result'.n = n' /\ pc' = "idle"
     /\ pc' = "idle" => index' = 0 /\ status' = "OK"

LEMMA GpioFrame ==
  ASSUME GpioStep
  PROVE  /\ Drives(GpioLabel, GpioOp)
         /\ UNCHANGED <<spi_profile, i2c, adc, spi, pwm, uart>>
  <1>1. ASSUME NEW r \in Request, GpioConfigureInput(r) \/ GpioConfigureOutput(r)
        PROVE  Drives(GpioLabel, GpioOp) /\ UNCHANGED <<spi_profile, i2c, adc, spi, pwm, uart>>
    BY <1>1 DEF GpioConfigureInput, GpioConfigureOutput, Accept, Begin, Finish, Go, Drives,
         GpioLabel, GpioOp
  <1>2. ASSUME NEW r \in Request, GpioSet(r) \/ GpioGet(r)
        PROVE  Drives(GpioLabel, GpioOp) /\ UNCHANGED <<spi_profile, i2c, adc, spi, pwm, uart>>
    BY <1>2 DEF GpioSet, GpioGet, Accept, Begin, Finish, devices, Drives, GpioLabel, GpioOp
  <1>3. ASSUME GpioOutputLevel \/ GpioOutputDirection
        PROVE  Drives(GpioLabel, GpioOp) /\ UNCHANGED <<spi_profile, i2c, adc, spi, pwm, uart>>
    BY <1>3 DEF GpioOutputLevel, GpioOutputDirection, At, Finish, Go, Drives, GpioLabel, GpioOp
  <1> QED BY Zenon, <1>1, <1>2, <1>3 DEF GpioStep

LEMMA I2cFrame ==
  ASSUME I2cStep
  PROVE  /\ Drives(I2cLabel, I2cOp)
         /\ UNCHANGED <<spi_profile, gpio, adc, spi, pwm, uart, wanted>>
  <1>1. ASSUME NEW r \in Request, I2cStart(r)
        PROVE  Drives(I2cLabel, I2cOp)
               /\ UNCHANGED <<spi_profile, gpio, adc, spi, pwm, uart, wanted>>
    BY Zenon, <1>1 DEF I2cStart, Accept, Begin, Go, Drives, I2cLabel, I2cOp
  <1>2. ASSUME I2cWait \/ I2cWaitTimeout
        PROVE  Drives(I2cLabel, I2cOp)
               /\ UNCHANGED <<spi_profile, gpio, adc, spi, pwm, uart, wanted>>
    BY Zenon, <1>2 DEF I2cWait, I2cWaitTimeout, I2cWaitEnds, At, Drives, I2cLabel, I2cOp
  <1>3. ASSUME I2cStop \/ I2cStopWait
        PROVE  Drives(I2cLabel, I2cOp)
               /\ UNCHANGED <<spi_profile, gpio, adc, spi, pwm, uart, wanted>>
    BY <1>3 DEF I2cStop, I2cStopWait, At, Finish, Drives, I2cLabel, I2cOp
  <1>4. ASSUME I2cDevice
        PROVE  Drives(I2cLabel, I2cOp)
               /\ UNCHANGED <<spi_profile, gpio, adc, spi, pwm, uart, wanted>>
    BY Zenon, <1>4 DEF I2cDevice, driverVars, Drives
  <1> QED BY Zenon, <1>1, <1>2, <1>3, <1>4 DEF I2cStep

LEMMA AdcFrame ==
  ASSUME AdcStep
  PROVE  /\ Drives(AdcLabel, AdcOp)
         /\ UNCHANGED <<spi_profile, gpio, i2c, spi, pwm, uart, wanted>>
  <1>1. ASSUME NEW r \in Request, AdcReset(r)
        PROVE  Drives(AdcLabel, AdcOp)
               /\ UNCHANGED <<spi_profile, gpio, i2c, spi, pwm, uart, wanted>>
    BY Zenon, <1>1 DEF AdcReset, Accept, Begin, Go, Drives, AdcLabel, AdcOp
  <1>2. ASSUME AdcClear \/ AdcStart
        PROVE  Drives(AdcLabel, AdcOp)
               /\ UNCHANGED <<spi_profile, gpio, i2c, spi, pwm, uart, wanted>>
    BY <1>2 DEF AdcClear, AdcStart, At, Go, Finish, Drives, AdcLabel, AdcOp
  <1>3. ASSUME AdcWait \/ AdcTimeout
        PROVE  Drives(AdcLabel, AdcOp)
               /\ UNCHANGED <<spi_profile, gpio, i2c, spi, pwm, uart, wanted>>
    BY <1>3 DEF AdcWait, AdcTimeout, At, Finish, Drives, AdcLabel, AdcOp, devices
  <1>4. ASSUME AdcDevice
        PROVE  Drives(AdcLabel, AdcOp)
               /\ UNCHANGED <<spi_profile, gpio, i2c, spi, pwm, uart, wanted>>
    BY Zenon, <1>4 DEF AdcDevice, driverVars, Drives
  <1> QED BY Zenon, <1>1, <1>2, <1>3, <1>4 DEF AdcStep

LEMMA SpiFrame ==
  ASSUME SpiStep
  PROVE  /\ Drives(SpiLabel, SpiOp)
         /\ UNCHANGED <<spi_profile, gpio, i2c, adc, pwm, uart, wanted>>
  <1>1. ASSUME NEW r \in Request, SpiStart(r)
        PROVE  Drives(SpiLabel, SpiOp)
               /\ UNCHANGED <<spi_profile, gpio, i2c, adc, pwm, uart, wanted>>
    BY Zenon, <1>1 DEF SpiStart, Accept, Begin, Go, Drives, SpiLabel, SpiOp
  <1>2. ASSUME SpiTx \/ SpiRx
        PROVE  Drives(SpiLabel, SpiOp)
               /\ UNCHANGED <<spi_profile, gpio, i2c, adc, pwm, uart, wanted>>
    BY Zenon, <1>2 DEF SpiTx, SpiRx, At, Go, Drives, SpiLabel, SpiOp
  <1>3. ASSUME SpiDone \/ SpiTimeout
        PROVE  Drives(SpiLabel, SpiOp)
               /\ UNCHANGED <<spi_profile, gpio, i2c, adc, pwm, uart, wanted>>
    BY <1>3 DEF SpiDone, SpiTimeout, At, Finish, Drives, SpiLabel, SpiOp
  <1>4. ASSUME SpiDevice
        PROVE  Drives(SpiLabel, SpiOp)
               /\ UNCHANGED <<spi_profile, gpio, i2c, adc, pwm, uart, wanted>>
    BY Zenon, <1>4 DEF SpiDevice, driverVars, Drives
  <1> QED BY Zenon, <1>1, <1>2, <1>3, <1>4 DEF SpiStep

LEMMA PwmFrame ==
  ASSUME PwmStep
  PROVE  /\ Drives(PwmLabel, PwmOp)
         /\ UNCHANGED <<spi_profile, gpio, i2c, adc, spi, uart, wanted>>
  <1>1. ASSUME NEW r \in Request, PwmLock(r) \/ PwmStop(r)
        PROVE  Drives(PwmLabel, PwmOp)
               /\ UNCHANGED <<spi_profile, gpio, i2c, adc, spi, uart, wanted>>
    BY <1>1 DEF PwmLock, PwmStop, Accept, Begin, Go, Finish, Drives, PwmLabel, PwmOp
  <1>2. ASSUME PwmPeriod \/ PwmDuty \/ PwmEnable
        PROVE  Drives(PwmLabel, PwmOp)
               /\ UNCHANGED <<spi_profile, gpio, i2c, adc, spi, uart, wanted>>
    BY <1>2 DEF PwmPeriod, PwmDuty, PwmEnable, At, Go, Finish, Drives, PwmLabel, PwmOp
  <1>3. ASSUME PwmDevice
        PROVE  Drives(PwmLabel, PwmOp)
               /\ UNCHANGED <<spi_profile, gpio, i2c, adc, spi, uart, wanted>>
    BY Zenon, <1>3 DEF PwmDevice, driverVars, Drives
  <1> QED BY Zenon, <1>1, <1>2, <1>3 DEF PwmStep

LEMMA UartFrame ==
  ASSUME UartStep
  PROVE  /\ Drives(UartLabel, UartOp)
         /\ UNCHANGED <<spi_profile, gpio, i2c, adc, spi, pwm, wanted>>
  <1>1. ASSUME NEW r \in Request, UartStart(r)
        PROVE  Drives(UartLabel, UartOp)
               /\ UNCHANGED <<spi_profile, gpio, i2c, adc, spi, pwm, wanted>>
    BY Zenon, <1>1 DEF UartStart, Accept, Begin, Go, devices, Drives, UartLabel, UartOp
  <1>2. ASSUME UartTx \/ UartWait
        PROVE  Drives(UartLabel, UartOp)
               /\ UNCHANGED <<spi_profile, gpio, i2c, adc, spi, pwm, wanted>>
    BY <1>2 DEF UartTx, UartWait, At, Go, Finish, devices, Drives, UartLabel, UartOp
  <1>3. ASSUME UartRx
        PROVE  Drives(UartLabel, UartOp)
               /\ UNCHANGED <<spi_profile, gpio, i2c, adc, spi, pwm, wanted>>
    BY <1>3 DEF UartRx, At, Finish, Drives, UartLabel, UartOp
  <1>4. ASSUME NEW p \in Port, UartDevice(p)
        PROVE  Drives(UartLabel, UartOp)
               /\ UNCHANGED <<spi_profile, gpio, i2c, adc, spi, pwm, wanted>>
    BY Zenon, <1>4 DEF UartDevice, driverVars, Drives
  <1> QED BY Zenon, <1>1, <1>2, <1>3, <1>4 DEF UartStep

\* A refused request is answered at once and touches no register.
LEMMA RefuseFrame ==
  ASSUME NEW r \in Request, Refuse(r)
  PROVE  /\ pc = "idle" /\ pc' = "idle" /\ request' = r /\ n' = n + 1
         /\ result'.request = r /\ result'.status # "OK"
         /\ index' = 0 /\ status' = "OK"
         /\ UNCHANGED <<spi_profile, gpio, i2c, adc, spi, pwm, uart, wanted>>
  BY Zenon DEF Refuse, Begin, Finish, devices

\* The bring-up, the start of the service and Linux leave the driver alone.
LEMMA BootFrame ==
  ASSUME BringUp \/ ServiceReady \/ LinuxWrites
  PROVE  /\ pc = "boot" /\ pc' \in {"boot", "idle"}
         /\ UNCHANGED <<spi_profile, n, request, index, status, result, wanted>>
  BY Zenon DEF BringUp, ServiceReady, LinuxWrites, BootStep, LinuxUpdate

-----------------------------------------------------------------------------
(* Which request a label is about *)

Labels ==
  {"boot", "idle"} \cup GpioLabel \cup I2cLabel \cup AdcLabel \cup SpiLabel \cup PwmLabel
    \cup UartLabel

OpInv ==
  /\ pc \in Labels /\ n \in Nat /\ request \in Payload \cup {NoOne}
  /\ pc \in GpioLabel => request.op \in GpioOp
  /\ pc \in I2cLabel => request.op \in I2cOp
  /\ pc \in AdcLabel => request.op \in AdcOp
  /\ pc \in SpiLabel => request.op \in SpiOp
  /\ pc \in PwmLabel => request.op \in PwmOp
  /\ pc \in UartLabel => request.op \in UartOp
  /\ pc = "boot" => result.request.op = "NONE"
  /\ pc \in {"boot", "idle"} => index = 0 /\ status = "OK"

LEMMA OpStays ==
  ASSUME OpInv, [Next]_vars
  PROVE  OpInv'
  <1>0. Request \subseteq Payload
    BY Zenon, PeripheralAssumption
  <1> USE DEF GpioLabel, I2cLabel, AdcLabel, SpiLabel, PwmLabel, UartLabel, Labels
  <1>1. ASSUME GpioStep PROVE OpInv'
    BY <1>0, <1>1, GpioFrame DEF OpInv, Drives
  <1>2. ASSUME I2cStep PROVE OpInv'
    BY <1>0, <1>2, I2cFrame DEF OpInv, Drives
  <1>3. ASSUME AdcStep PROVE OpInv'
    BY <1>0, <1>3, AdcFrame DEF OpInv, Drives
  <1>4. ASSUME SpiStep PROVE OpInv'
    BY <1>0, <1>4, SpiFrame DEF OpInv, Drives
  <1>5. ASSUME PwmStep PROVE OpInv'
    BY <1>0, <1>5, PwmFrame DEF OpInv, Drives
  <1>6. ASSUME UartStep PROVE OpInv'
    BY <1>0, <1>6, UartFrame DEF OpInv, Drives
  <1>7. ASSUME NEW r \in Request, Refuse(r) PROVE OpInv'
    BY <1>0, <1>7, RefuseFrame DEF OpInv
  <1>8. ASSUME BringUp \/ ServiceReady \/ LinuxWrites PROVE OpInv'
    BY Zenon, <1>8, BootFrame DEF OpInv
  <1>9. ASSUME UNCHANGED vars PROVE OpInv'
    BY <1>9 DEF OpInv, vars, driverVars
  <1> QED
    BY <1>1, <1>2, <1>3, <1>4, <1>5, <1>6, <1>7, <1>8, <1>9, PeripheralCases

-----------------------------------------------------------------------------
(* Steps of the other controllers *)

\* The driver is not at these labels and answers no request of these kinds.
Elsewhere(labels, ops) ==
  \/ UNCHANGED <<n, request, pc, index, status, result>>
  \/ /\ pc \notin labels /\ pc' \notin labels /\ pc # "boot" /\ pc' # "boot"
     /\ result' = result \/ result'.request.op \notin ops \/ result'.status # "OK"

LEMMA Aside ==
  ASSUME NEW labels, NEW ops, NEW mine, NEW kinds, Drives(labels, ops),
         labels \cap mine = {}, mine \cap {"idle", "boot"} = {}, "boot" \notin labels,
         ops \cap kinds = {},
         pc \in labels => request.op \in ops
  PROVE  Elsewhere(mine, kinds)
  BY Zenon DEF Drives, Elsewhere

LEMMA I2cElsewhere ==
  ASSUME OpInv,
         \/ \E r \in Request : Refuse(r)
         \/ GpioStep \/ AdcStep \/ SpiStep \/ PwmStep \/ UartStep \/ UNCHANGED vars
  PROVE  Elsewhere(I2cLabel, I2cOp) /\ UNCHANGED i2c
  <1> USE DEF GpioLabel, I2cLabel, AdcLabel, SpiLabel, PwmLabel, UartLabel,
              GpioOp, I2cOp, AdcOp, SpiOp, PwmOp, UartOp
  <1>1. CASE \E r \in Request : Refuse(r)
    BY Zenon, <1>1, RefuseFrame DEF Elsewhere
  <1>2. CASE GpioStep
    BY <1>2, GpioFrame, Aside DEF OpInv
  <1>3. CASE AdcStep
    BY <1>3, AdcFrame, Aside DEF OpInv
  <1>4. CASE SpiStep
    BY <1>4, SpiFrame, Aside DEF OpInv
  <1>5. CASE PwmStep
    BY <1>5, PwmFrame, Aside DEF OpInv
  <1>6. CASE UartStep
    BY <1>6, UartFrame, Aside DEF OpInv
  <1>7. CASE UNCHANGED vars
    BY Zenon, <1>7 DEF vars, driverVars, devices, Elsewhere
  <1> QED BY Zenon, <1>1, <1>2, <1>3, <1>4, <1>5, <1>6, <1>7

LEMMA AdcElsewhere ==
  ASSUME OpInv,
         \/ \E r \in Request : Refuse(r)
         \/ GpioStep \/ I2cStep \/ SpiStep \/ PwmStep \/ UartStep \/ UNCHANGED vars
  PROVE  Elsewhere(AdcLabel, AdcOp) /\ UNCHANGED adc
  <1> USE DEF GpioLabel, I2cLabel, AdcLabel, SpiLabel, PwmLabel, UartLabel,
              GpioOp, I2cOp, AdcOp, SpiOp, PwmOp, UartOp
  <1>1. CASE \E r \in Request : Refuse(r)
    BY Zenon, <1>1, RefuseFrame DEF Elsewhere
  <1>2. CASE GpioStep
    BY SMTT(20), <1>2, GpioFrame, Aside DEF OpInv
  <1>3. CASE I2cStep
    BY <1>3, I2cFrame, Aside DEF OpInv
  <1>4. CASE SpiStep
    BY <1>4, SpiFrame, Aside DEF OpInv
  <1>5. CASE PwmStep
    BY <1>5, PwmFrame, Aside DEF OpInv
  <1>6. CASE UartStep
    BY <1>6, UartFrame, Aside DEF OpInv
  <1>7. CASE UNCHANGED vars
    BY Zenon, <1>7 DEF vars, driverVars, devices, Elsewhere
  <1> QED BY Zenon, <1>1, <1>2, <1>3, <1>4, <1>5, <1>6, <1>7

LEMMA SpiElsewhere ==
  ASSUME OpInv,
         \/ \E r \in Request : Refuse(r)
         \/ GpioStep \/ I2cStep \/ AdcStep \/ PwmStep \/ UartStep \/ UNCHANGED vars
  PROVE  Elsewhere(SpiLabel, SpiOp) /\ UNCHANGED spi
  <1> USE DEF GpioLabel, I2cLabel, AdcLabel, SpiLabel, PwmLabel, UartLabel,
              GpioOp, I2cOp, AdcOp, SpiOp, PwmOp, UartOp
  <1>1. CASE \E r \in Request : Refuse(r)
    BY Zenon, <1>1, RefuseFrame DEF Elsewhere
  <1>2. CASE GpioStep
    BY <1>2, GpioFrame, Aside DEF OpInv
  <1>3. CASE I2cStep
    BY <1>3, I2cFrame, Aside DEF OpInv
  <1>4. CASE AdcStep
    BY SMTT(20), <1>4, AdcFrame, Aside DEF OpInv
  <1>5. CASE PwmStep
    BY <1>5, PwmFrame, Aside DEF OpInv
  <1>6. CASE UartStep
    BY <1>6, UartFrame, Aside DEF OpInv
  <1>7. CASE UNCHANGED vars
    BY Zenon, <1>7 DEF vars, driverVars, devices, Elsewhere
  <1> QED BY Zenon, <1>1, <1>2, <1>3, <1>4, <1>5, <1>6, <1>7

LEMMA PwmElsewhere ==
  ASSUME OpInv,
         \/ \E r \in Request : Refuse(r)
         \/ GpioStep \/ I2cStep \/ AdcStep \/ SpiStep \/ UartStep \/ UNCHANGED vars
  PROVE  Elsewhere(PwmLabel, PwmOp) /\ UNCHANGED pwm
  <1> USE DEF GpioLabel, I2cLabel, AdcLabel, SpiLabel, PwmLabel, UartLabel,
              GpioOp, I2cOp, AdcOp, SpiOp, PwmOp, UartOp
  <1>1. CASE \E r \in Request : Refuse(r)
    BY Zenon, <1>1, RefuseFrame DEF Elsewhere
  <1>2. CASE GpioStep
    BY <1>2, GpioFrame, Aside DEF OpInv
  <1>3. CASE I2cStep
    BY <1>3, I2cFrame, Aside DEF OpInv
  <1>4. CASE AdcStep
    BY <1>4, AdcFrame, Aside DEF OpInv
  <1>5. CASE SpiStep
    BY <1>5, SpiFrame, Aside DEF OpInv
  <1>6. CASE UartStep
    BY <1>6, UartFrame, Aside DEF OpInv
  <1>7. CASE UNCHANGED vars
    BY Zenon, <1>7 DEF vars, driverVars, devices, Elsewhere
  <1> QED BY Zenon, <1>1, <1>2, <1>3, <1>4, <1>5, <1>6, <1>7

LEMMA GpioElsewhere ==
  ASSUME OpInv,
         \/ \E r \in Request : Refuse(r)
         \/ I2cStep \/ AdcStep \/ SpiStep \/ PwmStep \/ UartStep \/ UNCHANGED vars
  PROVE  Elsewhere(GpioLabel, GpioOp) /\ UNCHANGED <<gpio, wanted>>
  <1> USE DEF GpioLabel, I2cLabel, AdcLabel, SpiLabel, PwmLabel, UartLabel,
              GpioOp, I2cOp, AdcOp, SpiOp, PwmOp, UartOp
  <1>1. CASE \E r \in Request : Refuse(r)
    BY Zenon, <1>1, RefuseFrame DEF Elsewhere
  <1>2. CASE I2cStep
    BY <1>2, I2cFrame, Aside DEF OpInv
  <1>3. CASE AdcStep
    BY <1>3, AdcFrame, Aside DEF OpInv
  <1>4. CASE SpiStep
    BY <1>4, SpiFrame, Aside DEF OpInv
  <1>5. CASE PwmStep
    BY <1>5, PwmFrame, Aside DEF OpInv
  <1>6. CASE UartStep
    BY <1>6, UartFrame, Aside DEF OpInv
  <1>7. CASE UNCHANGED vars
    BY Zenon, <1>7 DEF vars, driverVars, devices, Elsewhere
  <1> QED BY Zenon, <1>1, <1>2, <1>3, <1>4, <1>5, <1>6, <1>7

-----------------------------------------------------------------------------
(* I2C7 *)

I2cType ==
  [con : {"off", "start", "stop"}, ipd : SUBSET {"MBTF", "MBRF", "STOP", "NAK"},
   done : SUBSET Nat]

\* IPD is cleared when a transfer starts and the controller is off when no
\* driver is at it, so that a transfer bit seen by the wait is of this request.
I2cInv ==
  /\ i2c \in I2cType
  /\ pc \notin I2cLabel => i2c.con = "off"
  /\ pc = "i2c_wait" /\ i2c.ipd \cap {"MBTF", "MBRF"} # {} => n \in i2c.done
  /\ pc \in {"i2c_stop", "i2c_stop_wait"} /\ status = "OK" => n \in i2c.done
  /\ Succeeded(I2cOp) => result.n \in i2c.done

LEMMA I2cDriverStays ==
  ASSUME OpInv, I2cInv, I2cStep
  PROVE  I2cInv'
  <1> USE DEF I2cLabel, I2cType
  <1>1. ASSUME NEW r \in Request, I2cStart(r) PROVE I2cInv'
    BY Zenon, <1>1 DEF I2cInv, I2cStart, Accept, Begin, Go, Succeeded
  <1>2. ASSUME I2cWait PROVE I2cInv'
    BY Zenon, <1>2 DEF I2cInv, I2cWait, I2cWaitEnds, At, Wanted, Succeeded
  <1>3. ASSUME I2cWaitTimeout PROVE I2cInv'
    BY Zenon, <1>3 DEF I2cInv, I2cWaitTimeout, I2cWaitEnds, At, Succeeded
  <1>4. ASSUME I2cStop PROVE I2cInv'
    BY Zenon, <1>4 DEF I2cInv, I2cStop, At, Succeeded
  <1>5. ASSUME I2cStopWait PROVE I2cInv'
    <2>1. /\ pc = "i2c_stop_wait" /\ pc' = "idle" /\ UNCHANGED n
          /\ i2c' \in I2cType /\ i2c'.con = "off" /\ i2c'.done = i2c.done
      BY ZenonT(30), <1>5 DEF I2cInv, I2cStopWait, At, Finish
    <2>2. result'.n = n /\ (result'.status = "OK" => status = "OK")
      BY <1>5 DEF I2cStopWait, At, Finish
    <2> QED BY Zenon, <2>1, <2>2 DEF I2cInv, Succeeded
  <1>6. ASSUME I2cDevice PROVE I2cInv'
    <2>1. UNCHANGED <<n, request, pc, status, result>>
      BY Zenon, <1>6 DEF I2cDevice, driverVars
    <2>2. CASE i2c' = [i2c EXCEPT !.ipd = @ \cup {Wanted}, !.done = @ \cup {n}]
      <3>1. Wanted \in {"MBTF", "MBRF"} /\ n \in Nat
        BY Zenon DEF Wanted, OpInv
      <3>2. /\ i2c' \in I2cType /\ i2c'.con = i2c.con /\ n \in i2c'.done
            /\ i2c.done \subseteq i2c'.done
        BY Zenon, <2>2, <3>1 DEF I2cInv
      <3> QED BY Zenon, <2>1, <3>2 DEF I2cInv, Succeeded
    <2>3. CASE \E b \in {"NAK", "STOP"} : i2c' = [i2c EXCEPT !.ipd = @ \cup {b}]
      <3>1. /\ i2c' \in I2cType /\ i2c'.con = i2c.con /\ i2c'.done = i2c.done
            /\ i2c'.ipd \cap {"MBTF", "MBRF"} = i2c.ipd \cap {"MBTF", "MBRF"}
        BY <2>3 DEF I2cInv
      <3> QED BY Zenon, <2>1, <3>1 DEF I2cInv, Succeeded
    <2> QED BY Zenon, <1>6, <2>2, <2>3 DEF I2cDevice
  <1> QED BY Zenon, <1>1, <1>2, <1>3, <1>4, <1>5, <1>6 DEF I2cStep

LEMMA I2cStays ==
  ASSUME OpInv, I2cInv, [Next]_vars
  PROVE  I2cInv'
  <1> USE DEF I2cLabel, I2cType
  <1>1. ASSUME Elsewhere(I2cLabel, I2cOp), UNCHANGED i2c PROVE I2cInv'
    BY Zenon, <1>1 DEF I2cInv, Elsewhere, Succeeded
  <1>2. ASSUME BringUp PROVE I2cInv'
    <2>1. i2c' = I2cOff \/ i2c' = i2c
      BY Zenon, <1>2 DEF BringUp
    <2>2. pc = "boot" /\ UNCHANGED <<pc, result, n, status>>
      BY Zenon, <1>2 DEF BringUp
    <2>3. ~Succeeded(I2cOp)
      BY Zenon, <2>2 DEF OpInv, Succeeded, I2cOp
    <2> QED BY <2>1, <2>2, <2>3 DEF I2cInv, I2cOff, Succeeded
  <1>3. ASSUME ServiceReady \/ LinuxWrites PROVE I2cInv'
    <2>1. i2c' = i2c /\ pc = "boot" /\ pc' \in {"boot", "idle"} /\ UNCHANGED <<result, n, status>>
      BY <1>3 DEF ServiceReady, LinuxWrites, devices
    <2> QED BY Zenon, <2>1 DEF I2cInv, Succeeded
  <1> QED BY Zenon, <1>1, <1>2, <1>3, PeripheralCases, I2cElsewhere, I2cDriverStays

-----------------------------------------------------------------------------
(* SARADC *)

AdcType == [busy : Nat, end : BOOLEAN, data : Nat]

\* The reset before each sample drops the conversion given up earlier.
AdcInv ==
  /\ adc \in AdcType
  /\ pc \in {"adc_clear", "adc_start"} => adc.busy = 0 /\ ~adc.end
  /\ pc = "adc_wait" => (adc.busy # 0 => adc.busy = n) /\ (adc.end => adc.data = n)
  /\ Succeeded(AdcOp) => result.data = <<result.n>>

LEMMA AdcDriverStays ==
  ASSUME OpInv, AdcInv, AdcStep
  PROVE  AdcInv'
  <1> USE DEF AdcLabel, AdcType
  <1>1. ASSUME NEW r \in Request, AdcReset(r) PROVE AdcInv'
    BY Zenon, <1>1 DEF AdcInv, AdcReset, Accept, Begin, Go, Succeeded
  <1>2. ASSUME AdcClear PROVE AdcInv'
    <2>1. CASE request.arg0 >= 8
      BY <1>2, <2>1 DEF AdcInv, AdcClear, At, Finish, Succeeded
    <2>2. CASE ~(request.arg0 >= 8)
      <3>1. /\ pc = "adc_clear" /\ pc' = "adc_start" /\ UNCHANGED <<result, n>>
            /\ adc' = [adc EXCEPT !.end = FALSE]
        BY Zenon, <1>2, <2>2 DEF AdcClear, At, Go
      <3>2. adc' \in AdcType /\ adc'.busy = adc.busy /\ adc'.end = FALSE
        BY Zenon, <3>1 DEF AdcInv
      <3> QED BY Zenon, <3>1, <3>2 DEF AdcInv, Succeeded
    <2> QED BY Zenon, <2>1, <2>2
  <1>3. ASSUME AdcStart PROVE AdcInv'
    BY Zenon, <1>3 DEF AdcInv, AdcStart, At, Go, Succeeded, OpInv
  <1>4. ASSUME AdcWait PROVE AdcInv'
    BY Zenon, <1>4 DEF AdcInv, AdcWait, At, Finish, Succeeded
  <1>5. ASSUME AdcTimeout PROVE AdcInv'
    BY Zenon, <1>5 DEF AdcInv, AdcTimeout, At, Finish, Succeeded, devices
  <1>6. ASSUME AdcDevice PROVE AdcInv'
    BY Zenon, <1>6 DEF AdcInv, AdcDevice, driverVars, Succeeded
  <1> QED BY Zenon, <1>1, <1>2, <1>3, <1>4, <1>5, <1>6 DEF AdcStep

LEMMA AdcStays ==
  ASSUME OpInv, AdcInv, [Next]_vars
  PROVE  AdcInv'
  <1> USE DEF AdcLabel, AdcType
  <1>1. ASSUME Elsewhere(AdcLabel, AdcOp), UNCHANGED adc PROVE AdcInv'
    BY Zenon, <1>1 DEF AdcInv, Elsewhere, Succeeded
  <1>2. ASSUME BringUp PROVE AdcInv'
    <2>1. adc' = AdcIdle \/ adc' = [adc EXCEPT !.end = FALSE] \/ adc' = adc
      BY Zenon, <1>2 DEF BringUp
    <2>2. pc = "boot" /\ UNCHANGED <<pc, result, n, status>>
      BY Zenon, <1>2 DEF BringUp
    <2>3. adc' \in AdcType
      <3>1. AdcIdle \in AdcType
        BY Zenon DEF AdcIdle
      <3>2. [adc EXCEPT !.end = FALSE] \in AdcType
        BY Zenon DEF AdcInv
      <3>3. adc \in AdcType
        BY Zenon DEF AdcInv
      <3> HIDE DEF AdcType
      <3> QED BY Zenon, <2>1, <3>1, <3>2, <3>3
    <2> QED BY Zenon, <2>2, <2>3 DEF AdcInv, Succeeded
  <1>3. ASSUME ServiceReady \/ LinuxWrites PROVE AdcInv'
    <2>1. adc' = adc /\ pc = "boot" /\ pc' \in {"boot", "idle"} /\ UNCHANGED <<result, n, status>>
      BY Zenon, <1>3 DEF ServiceReady, LinuxWrites, devices
    <2> QED BY Zenon, <2>1 DEF AdcInv, Succeeded
  <1> QED BY Zenon, <1>1, <1>2, <1>3, PeripheralCases, AdcElsewhere, AdcDriverStays

-----------------------------------------------------------------------------
(* SPI0 *)

SpiType ==
  [enabled : BOOLEAN, ser : SUBSET Nat, tx : Seq(Nat \X Nat), rx : Seq(Nat \X Nat),
   read : Seq(Nat \X Nat)]

\* One byte is under way while RXDR is waited for and none otherwise, and the
\* bytes read so far are those sent so far.
SpiInv ==
  /\ spi \in SpiType
  /\ pc \notin SpiLabel => spi = SpiIdle
  /\ pc \in SpiLabel =>
       /\ Len(spi.read) = index /\ \A i \in 1 .. index : spi.read[i] = <<n, i>>
       /\ pc # "spi_rx" => Len(spi.tx) = 0 /\ Len(spi.rx) = 0
       /\ pc = "spi_rx" => Len(spi.tx) + Len(spi.rx) = 1
       /\ \A i \in 1 .. Len(spi.tx) : spi.tx[i] = <<n, index + 1>>
       /\ \A i \in 1 .. Len(spi.rx) : spi.rx[i] = <<n, index + 1>>
  /\ pc = "spi_busy" => index = request.length
  /\ SpiBytesInStep

LEMMA SpiIdleTyped == SpiIdle \in SpiType /\ ~SpiIdle.enabled /\ SpiIdle.ser = {}
  BY DEF SpiIdle, SpiType

LEMMA SpiStartStays ==
  ASSUME OpInv, SpiInv, NEW r \in Request, SpiStart(r)
  PROVE  SpiInv'
  <1>1. /\ pc = "idle" /\ pc' = "spi_tx" /\ UNCHANGED <<index, result>> /\ index = 0
        /\ spi' = [enabled |-> TRUE, ser |-> {r.arg0}, tx |-> <<>>, rx |-> <<>>, read |-> <<>>]
    BY Zenon DEF SpiStart, Accept, Begin, Go, OpInv
  <1>2. r.arg0 \in Nat
    BY Zenon, PeripheralAssumption DEF Payload
  <1>3. /\ spi' \in SpiType
        /\ Len(spi'.tx) = 0 /\ Len(spi'.rx) = 0 /\ Len(spi'.read) = 0
    BY <1>1, <1>2 DEF SpiType
  <1>4. SpiBytesInStep'
    BY Zenon, <1>1 DEF SpiInv, SpiBytesInStep, Succeeded
  <1>5. \A i \in 1 .. 0 : FALSE
    OBVIOUS
  <1> QED BY Zenon, <1>1, <1>3, <1>4, <1>5 DEF SpiInv, SpiLabel

LEMMA SpiTxStays ==
  ASSUME OpInv, SpiInv, SpiTx
  PROVE  SpiInv'
  <1> DEFINE b == <<n, index + 1>>
  <1>1. /\ pc = "spi_tx" /\ pc' = "spi_rx" /\ UNCHANGED <<index, result, n, request>>
        /\ spi' = [spi EXCEPT !.tx = Append(@, b)]
    BY Zenon DEF SpiTx, At, Go
  <1>2. /\ spi \in SpiType /\ Len(spi.tx) = 0 /\ Len(spi.rx) = 0 /\ Len(spi.read) = index
        /\ \A i \in 1 .. index : spi.read[i] = <<n, i>>
    BY Zenon, <1>1 DEF SpiInv, SpiLabel
  <1>3. index \in Nat /\ b \in Nat \X Nat
    BY <1>2 DEF SpiType, OpInv
  <1>4. spi.tx \in Seq(Nat \X Nat)
    BY Zenon, <1>2 DEF SpiType
  <1>5. /\ Append(spi.tx, b) \in Seq(Nat \X Nat) /\ Len(Append(spi.tx, b)) = 1
        /\ Append(spi.tx, b)[1] = b
    <2> HIDE DEF b
    <2> QED BY <1>2, <1>3, <1>4
  <1>6. spi' \in SpiType /\ spi'.rx = spi.rx /\ spi'.read = spi.read /\ spi'.tx = Append(spi.tx, b)
    BY Zenon, <1>1, <1>2, <1>5 DEF SpiType
  <1>7. SpiBytesInStep'
    BY Zenon, <1>1 DEF SpiInv, SpiBytesInStep, Succeeded
  <1>8. Len(spi'.tx) = 1 /\ Len(spi'.rx) = 0 /\ \A i \in 1 .. 1 : spi'.tx[i] = b
    BY <1>2, <1>5, <1>6
  <1>9. /\ Len(spi'.tx) + Len(spi'.rx) = 1
        /\ \A i \in 1 .. Len(spi'.tx) : spi'.tx[i] = b
        /\ \A i \in 1 .. Len(spi'.rx) : spi'.rx[i] = b
    BY <1>8
  <1> QED BY Zenon, <1>1, <1>2, <1>6, <1>7, <1>9 DEF SpiInv, SpiLabel

LEMMA OneByte ==
  ASSUME NEW s \in Seq(Nat \X Nat), s # <<>>, Len(s) <= 1
  PROVE  Len(s) = 1 /\ Head(s) = s[1] /\ Len(Tail(s)) = 0 /\ Tail(s) \in Seq(Nat \X Nat)
  <1>1. Len(s) # 0
    BY Zenon, EmptySeq
  <1>2. Len(s) \in Nat
    OBVIOUS
  <1>3. Len(s) = 1
    <2> DEFINE k == Len(s)
    <2>1. k \in Nat /\ k <= 1 /\ k # 0
      BY Zenon, <1>1, <1>2
    <2> HIDE DEF k
    <2>2. k = 1
      BY <2>1
    <2> QED BY Zenon, <2>2 DEF k
  <1>4. Tail(s) \in Seq(Nat \X Nat) /\ Len(Tail(s)) = Len(s) - 1
    BY Zenon, HeadTailProperties
  <1> QED BY <1>3, <1>4

LEMMA SpiRxStays ==
  ASSUME OpInv, SpiInv, SpiRx
  PROVE  SpiInv'
  <1> DEFINE b == <<n, index + 1>>
             old == spi.read
             new == spi'.read
  <1>1. /\ pc = "spi_rx" /\ pc' \in {"spi_tx", "spi_busy"} /\ UNCHANGED <<result, n, request>>
        /\ index' = index + 1 /\ (pc' = "spi_busy" => index' = request.length)
        /\ spi.rx # <<>>
        /\ spi' = [spi EXCEPT !.rx = Tail(@), !.read = Append(@, Head(spi.rx))]
    BY Zenon DEF SpiRx, At
  <1>2. /\ spi \in SpiType /\ Len(spi.tx) + Len(spi.rx) = 1 /\ Len(old) = index
        /\ \A i \in 1 .. index : old[i] = <<n, i>>
        /\ \A i \in 1 .. Len(spi.rx) : spi.rx[i] = b
    BY Zenon, <1>1 DEF SpiInv, SpiLabel
  <1>3. index \in Nat /\ b \in Nat \X Nat
    BY <1>2 DEF SpiType, OpInv
  <1>4. /\ spi.rx \in Seq(Nat \X Nat) /\ spi.tx \in Seq(Nat \X Nat) /\ old \in Seq(Nat \X Nat)
    BY Zenon, <1>2 DEF SpiType
  <1>5. Len(spi.rx) <= 1 /\ Len(spi.tx) = 1 - Len(spi.rx)
    <2> DEFINE x == Len(spi.rx)
               y == Len(spi.tx)
    <2>1. x \in Nat /\ y \in Nat
      BY <1>4
    <2>2. y + x = 1
      BY Zenon, <1>2
    <2> HIDE DEF x, y
    <2>3. x <= 1 /\ y = 1 - x
      BY <2>1, <2>2
    <2> QED BY Zenon, <2>3 DEF x, y
  <1>6. /\ Len(spi.rx) = 1 /\ Head(spi.rx) = spi.rx[1] /\ Len(Tail(spi.rx)) = 0
        /\ Tail(spi.rx) \in Seq(Nat \X Nat)
    BY Zenon, <1>1, <1>4, <1>5, OneByte
  <1>7. Head(spi.rx) = b
    BY <1>2, <1>6
  <1>8. Append(old, b) \in Seq(Nat \X Nat) /\ Len(Append(old, b)) = index + 1
        /\ Append(old, b)[index + 1] = b
        /\ \A i \in 1 .. index : Append(old, b)[i] = old[i]
    <2> HIDE DEF b, old
    <2> QED BY <1>2, <1>3, <1>4
  <1>9. /\ spi' \in SpiType /\ Len(spi'.rx) = 0 /\ Len(spi'.tx) = 0
        /\ new = Append(old, b)
    <2>1. spi' = [spi EXCEPT !.rx = Tail(spi.rx), !.read = Append(old, b)]
      BY Zenon, <1>1, <1>7
    <2>2. /\ spi' \in SpiType /\ spi'.rx = Tail(spi.rx) /\ spi'.tx = spi.tx
          /\ new = Append(old, b)
      <3> HIDE DEF b
      <3> QED BY Zenon, <1>2, <1>6, <1>8, <2>1 DEF SpiType
    <2>3. Len(spi.tx) = 0
      BY <1>5, <1>6
    <2> QED BY Zenon, <1>6, <2>2, <2>3
  <1>10. \A i \in 1 .. index' : new[i] = <<n, i>>
    <2>1. \A i \in 1 .. index + 1 : i \in 1 .. index \/ i = index + 1
      BY <1>3
    <2> QED BY Zenon, <1>1, <1>2, <1>8, <1>9, <2>1
  <1>11. SpiBytesInStep'
    BY Zenon, <1>1 DEF SpiInv, SpiBytesInStep, Succeeded
  <1>12. \A i \in 1 .. 0 : FALSE
    OBVIOUS
  <1>13. Len(spi'.read) = index'
    BY Zenon, <1>1, <1>8, <1>9
  <1> HIDE DEF b, old, new
  <1>14. \A i \in 1 .. index' : spi'.read[i] = <<n', i>>
    BY ZenonT(30), <1>1, <1>10 DEF new
  <1> QED BY Zenon, <1>1, <1>9, <1>11, <1>12, <1>13, <1>14 DEF SpiInv, SpiLabel

\* The transfer has read as many bytes as it was to send.
LEMMA SpiDoneStays ==
  ASSUME OpInv, SpiInv, SpiDone
  PROVE  SpiInv'
  <1>1. /\ pc = "spi_busy" /\ pc' = "idle" /\ UNCHANGED <<n, request>> /\ spi' = SpiIdle
        /\ result' = [request |-> request, status |-> "OK", n |-> n, data |-> spi.read]
    BY Zenon DEF SpiDone, At, Finish
  <1>2. /\ spi \in SpiType /\ Len(spi.read) = index /\ index = request.length
        /\ \A i \in 1 .. index : spi.read[i] = <<n, i>>
    BY Zenon, <1>1 DEF SpiInv, SpiLabel
  <1>3. spi.read = [i \in 1 .. request.length |-> <<n, i>>]
    <2> DEFINE s == spi.read
    <2>1. s \in Seq(Nat \X Nat)
      BY Zenon, <1>2 DEF SpiType
    <2>2. s = [i \in 1 .. Len(s) |-> s[i]]
      <3> HIDE DEF s
      <3> QED BY <2>1
    <2> QED BY Zenon, <1>2, <2>2
  <1>4. SpiBytesInStep'
    BY Zenon, <1>1, <1>3 DEF SpiBytesInStep
  <1> QED BY Zenon, <1>1, <1>4, SpiIdleTyped DEF SpiInv, SpiLabel

LEMMA SpiTimeoutStays ==
  ASSUME SpiInv, SpiTimeout
  PROVE  SpiInv'
  <1>1. pc' = "idle" /\ spi' = SpiIdle /\ result'.status = "TIMEOUT"
    BY Zenon DEF SpiTimeout, Finish
  <1>2. SpiBytesInStep'
    BY Zenon, <1>1 DEF SpiBytesInStep, Succeeded
  <1> QED BY Zenon, <1>1, <1>2, SpiIdleTyped DEF SpiInv, SpiLabel

LEMMA SpiDeviceStays ==
  ASSUME OpInv, SpiInv, SpiDevice
  PROVE  SpiInv'
  <1> DEFINE b == <<n, index + 1>>
             x == Len(spi.tx)
             y == Len(spi.rx)
  <1>1. /\ UNCHANGED <<n, request, pc, index, result>> /\ spi.enabled /\ spi.tx # <<>>
        /\ spi' = [spi EXCEPT !.tx = Tail(@), !.rx = Append(@, Head(spi.tx))]
    BY Zenon DEF SpiDevice, driverVars
  <1>2. pc \in SpiLabel /\ spi \in SpiType
    BY Zenon, <1>1, SpiIdleTyped DEF SpiInv
  <1>3. /\ pc # "spi_rx" => x = 0 /\ y = 0
        /\ pc = "spi_rx" => x + y = 1
        /\ \A i \in 1 .. x : spi.tx[i] = b
    BY Zenon, <1>2 DEF SpiInv
  <1>4. spi.tx \in Seq(Nat \X Nat) /\ spi.rx \in Seq(Nat \X Nat)
    BY Zenon, <1>2 DEF SpiType
  <1>5. x \in Nat /\ y \in Nat /\ x # 0
    BY <1>1, <1>4, EmptySeq
  <1>6. pc = "spi_rx" /\ x = 1 /\ y = 0
    <2> HIDE DEF x, y
    <2> QED BY <1>3, <1>5
  <1>7. Head(spi.tx) = spi.tx[1] /\ Len(Tail(spi.tx)) = 0 /\ Tail(spi.tx) \in Seq(Nat \X Nat)
    BY <1>1, <1>4, <1>6, OneByte
  <1>8. Head(spi.tx) = b
    BY <1>3, <1>6, <1>7
  <1>9. b \in Nat \X Nat
    BY <1>2 DEF SpiInv, SpiType, OpInv
  <1>10. /\ Append(spi.rx, b) \in Seq(Nat \X Nat) /\ Len(Append(spi.rx, b)) = 1
         /\ Append(spi.rx, b)[1] = b
    <2> HIDE DEF b
    <2> QED BY <1>4, <1>6, <1>9
  <1>11. /\ spi' \in SpiType /\ spi'.tx = Tail(spi.tx) /\ spi'.rx = Append(spi.rx, b)
         /\ spi'.read = spi.read
    <2>1. spi' = [spi EXCEPT !.tx = Tail(spi.tx), !.rx = Append(spi.rx, b)]
      BY ZenonT(30), <1>1, <1>8
    <2> HIDE DEF b
    <2> QED BY Zenon, <1>2, <1>7, <1>10, <2>1 DEF SpiType
  <1>12. Len(spi'.tx) = 0 /\ Len(spi'.rx) = 1 /\ \A i \in 1 .. 1 : spi'.rx[i] = b
    BY <1>7, <1>10, <1>11
  <1>13. /\ Len(spi'.tx) + Len(spi'.rx) = 1
         /\ \A i \in 1 .. Len(spi'.tx) : spi'.tx[i] = b
         /\ \A i \in 1 .. Len(spi'.rx) : spi'.rx[i] = b
    BY <1>12
  <1>14. /\ Len(spi.read) = index /\ \A i \in 1 .. index : spi.read[i] = <<n, i>>
         /\ SpiBytesInStep
    BY Zenon, <1>2 DEF SpiInv
  <1>15. SpiBytesInStep'
    BY Zenon, <1>1, <1>14 DEF SpiBytesInStep, Succeeded
  <1>16. /\ pc' = "spi_rx" /\ "spi_rx" \in SpiLabel
         /\ Len(spi'.read) = index' /\ \A i \in 1 .. index' : spi'.read[i] = <<n', i>>
    BY Zenon, <1>1, <1>6, <1>11, <1>14 DEF SpiLabel
  <1>17. /\ \A i \in 1 .. Len(spi'.tx) : spi'.tx[i] = <<n', index' + 1>>
         /\ \A i \in 1 .. Len(spi'.rx) : spi'.rx[i] = <<n', index' + 1>>
    BY Zenon, <1>1, <1>13
  <1> QED BY Zenon, <1>11, <1>13, <1>15, <1>16, <1>17 DEF SpiInv

LEMMA SpiStays ==
  ASSUME OpInv, SpiInv, [Next]_vars
  PROVE  SpiInv'
  <1>1. ASSUME Elsewhere(SpiLabel, SpiOp), UNCHANGED spi PROVE SpiInv'
    <2>1. SpiBytesInStep'
      BY Zenon, <1>1 DEF SpiInv, SpiBytesInStep, Succeeded, Elsewhere, SpiOp
    <2>2. CASE UNCHANGED <<n, request, pc, index, status, result>>
      BY Zenon, <1>1, <2>1, <2>2 DEF SpiInv
    <2>3. CASE pc \notin SpiLabel /\ pc' \notin SpiLabel
      <3>1. spi' = SpiIdle /\ spi' \in SpiType
        BY Zenon, <1>1, <2>3 DEF SpiInv
      <3> QED BY Zenon, <2>1, <2>3, <3>1 DEF SpiInv, SpiLabel
    <2> QED BY Zenon, <1>1, <2>2, <2>3 DEF Elsewhere
  <1>2. ASSUME BringUp \/ ServiceReady \/ LinuxWrites PROVE SpiInv'
    <2>1. pc = "boot" /\ pc' \in {"boot", "idle"} /\ UNCHANGED result
      BY Zenon, <1>2, BootFrame
    <2>2. spi' = spi \/ spi' = SpiIdle
      BY Zenon, <1>2 DEF BringUp, ServiceReady, LinuxWrites, devices
    <2>3. spi = SpiIdle
      BY Zenon, <2>1 DEF SpiInv, SpiLabel
    <2>4. SpiBytesInStep'
      BY Zenon, <2>1 DEF SpiInv, SpiBytesInStep, Succeeded
    <2> QED BY Zenon, <2>1, <2>2, <2>3, <2>4, SpiIdleTyped DEF SpiInv, SpiLabel
  <1>3. ASSUME SpiStep PROVE SpiInv'
    BY <1>3, SpiStartStays, SpiTxStays, SpiRxStays, SpiDoneStays, SpiTimeoutStays,
       SpiDeviceStays DEF SpiStep
  <1> QED BY Zenon, <1>1, <1>2, <1>3, PeripheralCases, SpiElsewhere

-----------------------------------------------------------------------------
(* PWM7 *)

PwmType == [period : Nat, duty : Nat, lock : BOOLEAN, enable : BOOLEAN, out : Nat \X Nat]

Paired(period, duty) ==
  \/ period = 0 /\ duty = 0
  \/ \E r \in Request : r.op = "PWM_SET" /\ period = Ticks(r.arg0) /\ duty = Ticks(r.arg1)

\* Between the writes of period and duty the registers are no pair; LOCK is set.
PwmInv ==
  /\ pwm \in PwmType
  /\ PwmOutputIsAPair
  /\ pc # "pwm_duty" => Paired(pwm.period, pwm.duty)
  /\ pc \in PwmLabel => pwm.lock /\ request \in Request /\ request.op = "PWM_SET"
  /\ pc = "pwm_duty" => pwm.period = Ticks(request.arg0)

LEMMA TicksNat ==
  ASSUME NEW x \in Nat
  PROVE  Ticks(x) \in Nat
  BY DEF Ticks

LEMMA PwmDriverStays ==
  ASSUME OpInv, PwmInv, PwmStep
  PROVE  PwmInv'
  <1> USE DEF PwmLabel
  <1>0. request.arg0 \in Nat /\ request.arg1 \in Nat
    BY DEF OpInv, Payload, NoOne
  <1>1. ASSUME NEW r \in Request, PwmLock(r) PROVE PwmInv'
    <2>1. /\ pc = "idle" /\ pc' = "pwm_period" /\ request' = r /\ r.op = "PWM_SET"
          /\ pwm' = [pwm EXCEPT !.lock = TRUE]
      BY Zenon, <1>1 DEF PwmLock, Accept, Begin, Go
    <2>2. /\ pwm' \in PwmType /\ pwm'.lock /\ pwm'.out = pwm.out
          /\ pwm'.period = pwm.period /\ pwm'.duty = pwm.duty
      BY Zenon, <2>1 DEF PwmInv, PwmType
    <2> QED BY Zenon, <2>1, <2>2 DEF PwmInv, PwmOutputIsAPair
  <1>2. ASSUME NEW r \in Request, PwmStop(r) PROVE PwmInv'
    <2>1. pc = "idle" /\ pc' = "idle" /\ pwm' = [pwm EXCEPT !.enable = FALSE]
      BY Zenon, <1>2 DEF PwmStop, Accept, Begin, Finish
    <2>2. /\ pwm' \in PwmType /\ pwm'.out = pwm.out
          /\ pwm'.period = pwm.period /\ pwm'.duty = pwm.duty
      BY Zenon, <2>1 DEF PwmInv, PwmType
    <2> QED BY Zenon, <2>1, <2>2 DEF PwmInv, PwmOutputIsAPair
  <1>3. ASSUME PwmPeriod PROVE PwmInv'
    <2>1. /\ pc = "pwm_period" /\ pc' = "pwm_duty" /\ request' = request
          /\ pwm' = [pwm EXCEPT !.period = Ticks(request.arg0)]
      BY Zenon, <1>3 DEF PwmPeriod, At, Go
    <2>2. /\ pwm' \in PwmType /\ pwm'.out = pwm.out /\ pwm'.lock = pwm.lock
          /\ pwm'.period = Ticks(request.arg0)
      BY Zenon, <1>0, <2>1, TicksNat DEF PwmInv, PwmType
    <2> QED BY Zenon, <2>1, <2>2 DEF PwmInv, PwmOutputIsAPair
  <1>4. ASSUME PwmDuty PROVE PwmInv'
    <2>1. /\ pc = "pwm_duty" /\ pc' = "pwm_enable" /\ request' = request
          /\ pwm' = [pwm EXCEPT !.duty = Ticks(request.arg1)]
      BY Zenon, <1>4 DEF PwmDuty, At, Go
    <2>2. /\ pwm' \in PwmType /\ pwm'.out = pwm.out /\ pwm'.lock = pwm.lock
          /\ pwm'.period = pwm.period /\ pwm'.duty = Ticks(request.arg1)
      BY Zenon, <1>0, <2>1, TicksNat DEF PwmInv, PwmType
    <2>3. Paired(pwm'.period, pwm'.duty)
      BY Zenon, <2>1, <2>2 DEF PwmInv, Paired
    <2> QED BY Zenon, <2>1, <2>2, <2>3 DEF PwmInv, PwmOutputIsAPair
  <1>5. ASSUME PwmEnable PROVE PwmInv'
    <2>1. /\ pc = "pwm_enable" /\ pc' = "idle"
          /\ pwm' = [pwm EXCEPT !.lock = FALSE, !.enable = TRUE]
      BY Zenon, <1>5 DEF PwmEnable, At, Finish
    <2>2. /\ pwm' \in PwmType /\ pwm'.out = pwm.out
          /\ pwm'.period = pwm.period /\ pwm'.duty = pwm.duty
      BY Zenon, <2>1 DEF PwmInv, PwmType
    <2> QED BY Zenon, <2>1, <2>2 DEF PwmInv, PwmOutputIsAPair
  <1>6. ASSUME PwmDevice PROVE PwmInv'
    <2>1. /\ UNCHANGED <<pc, request>> /\ ~pwm.lock
          /\ pwm' = [pwm EXCEPT !.out = <<pwm.period, pwm.duty>>]
      BY Zenon, <1>6 DEF PwmDevice, driverVars
    <2>2. /\ pwm' \in PwmType /\ pwm'.out = <<pwm.period, pwm.duty>> /\ pwm'.lock = pwm.lock
          /\ pwm'.period = pwm.period /\ pwm'.duty = pwm.duty
      BY Zenon, <2>1 DEF PwmInv, PwmType
    <2>3. pc \notin PwmLabel /\ Paired(pwm.period, pwm.duty)
      BY Zenon, <2>1 DEF PwmInv
    <2>4. PwmOutputIsAPair'
      BY Zenon, <2>2, <2>3 DEF PwmOutputIsAPair, Paired
    <2> QED BY Zenon, <2>1, <2>2, <2>3, <2>4 DEF PwmInv
  <1> QED BY Zenon, <1>1, <1>2, <1>3, <1>4, <1>5, <1>6 DEF PwmStep

LEMMA PwmStays ==
  ASSUME OpInv, PwmInv, [Next]_vars
  PROVE  PwmInv'
  <1> USE DEF PwmLabel
  <1>1. ASSUME Elsewhere(PwmLabel, PwmOp), UNCHANGED pwm PROVE PwmInv'
    BY Zenon, <1>1 DEF PwmInv, Elsewhere, PwmOutputIsAPair
  <1>2. ASSUME BringUp PROVE PwmInv'
    <2>1. pwm' = PwmOff \/ pwm' = [pwm EXCEPT !.enable = FALSE] \/ pwm' = pwm
      BY Zenon, <1>2 DEF BringUp
    <2>2. pc = "boot" /\ pc' = "boot"
      BY Zenon, <1>2 DEF BringUp
    <2>3. CASE pwm' = PwmOff
      <3>1. /\ pwm' \in PwmType /\ pwm'.out = <<0, 0>> /\ pwm'.period = 0 /\ pwm'.duty = 0
        BY Zenon, <2>3 DEF PwmOff, PwmType
      <3> QED BY Zenon, <2>2, <3>1 DEF PwmInv, PwmOutputIsAPair, Paired
    <2>4. CASE pwm' = [pwm EXCEPT !.enable = FALSE]
      <3>1. /\ pwm' \in PwmType /\ pwm'.out = pwm.out
            /\ pwm'.period = pwm.period /\ pwm'.duty = pwm.duty
        BY Zenon, <2>4 DEF PwmInv, PwmType
      <3> QED BY Zenon, <2>2, <3>1 DEF PwmInv, PwmOutputIsAPair
    <2>5. CASE pwm' = pwm
      BY Zenon, <2>2, <2>5 DEF PwmInv, PwmOutputIsAPair
    <2> QED BY Zenon, <2>1, <2>3, <2>4, <2>5
  <1>3. ASSUME ServiceReady \/ LinuxWrites PROVE PwmInv'
    <2>1. pwm' = pwm /\ pc = "boot" /\ pc' \in {"boot", "idle"}
      BY Zenon, <1>3 DEF ServiceReady, LinuxWrites, devices
    <2> QED BY Zenon, <2>1 DEF PwmInv, PwmOutputIsAPair
  <1> QED BY Zenon, <1>1, <1>2, <1>3, PeripheralCases, PwmElsewhere, PwmDriverStays

\* The CRU while the service comes up; afterwards it is not looked at.
BootInv ==
  /\ BootTyped /\ LinuxBitsKept
  /\ pc = "boot" => CruInv
  /\ pc # "boot" => ~Booting

LEMMA ServingFrame ==
  ASSUME [Next]_vars
  PROVE  \/ BringUp \/ ServiceReady \/ LinuxWrites
         \/ /\ UNCHANGED <<boot, cru, linux, spi_profile>>
            /\ pc' = pc \/ (pc # "boot" /\ pc' # "boot")
  <1> USE DEF GpioLabel, I2cLabel, AdcLabel, SpiLabel, PwmLabel, UartLabel, bootVars
  <1>1. ASSUME \E r \in Request : Refuse(r)
        PROVE  UNCHANGED spi_profile /\ (pc' = pc \/ (pc # "boot" /\ pc' # "boot"))
    BY Zenon, <1>1, RefuseFrame
  <1>2. ASSUME GpioStep
        PROVE  UNCHANGED spi_profile /\ (pc' = pc \/ (pc # "boot" /\ pc' # "boot"))
    BY Zenon, <1>2, GpioFrame DEF Drives
  <1>3. ASSUME I2cStep
        PROVE  UNCHANGED spi_profile /\ (pc' = pc \/ (pc # "boot" /\ pc' # "boot"))
    BY Zenon, <1>3, I2cFrame DEF Drives
  <1>4. ASSUME AdcStep
        PROVE  UNCHANGED spi_profile /\ (pc' = pc \/ (pc # "boot" /\ pc' # "boot"))
    BY Zenon, <1>4, AdcFrame DEF Drives
  <1>5. ASSUME SpiStep
        PROVE  UNCHANGED spi_profile /\ (pc' = pc \/ (pc # "boot" /\ pc' # "boot"))
    BY Zenon, <1>5, SpiFrame DEF Drives
  <1>6. ASSUME PwmStep
        PROVE  UNCHANGED spi_profile /\ (pc' = pc \/ (pc # "boot" /\ pc' # "boot"))
    BY Zenon, <1>6, PwmFrame DEF Drives
  <1>7. ASSUME UartStep
        PROVE  UNCHANGED spi_profile /\ (pc' = pc \/ (pc # "boot" /\ pc' # "boot"))
    BY Zenon, <1>7, UartFrame DEF Drives
  <1>8. ASSUME UNCHANGED vars
        PROVE  UNCHANGED <<boot, cru, linux, spi_profile, pc>>
    BY Zenon, <1>8 DEF vars, driverVars
  <1> QED BY <1>1, <1>2, <1>3, <1>4, <1>5, <1>6, <1>7, <1>8, PeripheralCases

LEMMA BootStays ==
  ASSUME BootInv, [Next]_vars
  PROVE  BootInv'
  <1>1. ASSUME BringUp PROVE BootInv'
    <2>1. BootStep /\ pc = "boot" /\ pc' = "boot"
      BY Zenon, <1>1 DEF BringUp
    <2>2. BootTyped' /\ LinuxBitsKept'
      BY Zenon, <2>1, BootTypedStep DEF BootInv
    <2>3. CruInv'
      BY Zenon, <2>1, CruBootStep DEF BootInv
    <2> QED BY Zenon, <2>1, <2>2, <2>3 DEF BootInv
  <1>2. ASSUME ServiceReady PROVE BootInv'
    <2>1. /\ pc' = "idle" /\ ~Booting /\ boot' = boot /\ spi_profile' = spi_profile
          /\ cru' = {} /\ linux' = {}
      BY Zenon, <1>2 DEF ServiceReady
    <2>2. cru' \subseteq Bit /\ LinuxBitsKept'
      BY Zenon, <2>1 DEF LinuxBitsKept
    <2>3. peripherals_initialize' = peripherals_initialize
      BY Zenon, <2>1, SameProgram
    <2>4. BootTyped' /\ ~Booting'
      BY Zenon, <2>1, <2>2, <2>3 DEF BootInv, BootTyped, Booting
    <2> QED BY Zenon, <2>1, <2>2, <2>4 DEF BootInv
  <1>3. ASSUME LinuxWrites PROVE BootInv'
    <2>1. PICK f \in Foreign : LinuxUpdate(f)
      BY Zenon, <1>3 DEF LinuxWrites
    <2>2. pc = "boot" /\ pc' = "boot"
      BY Zenon, <1>3 DEF LinuxWrites
    <2>3. BootTyped' /\ LinuxBitsKept' /\ CruInv'
      BY Zenon, <2>1, <2>2, LinuxStep DEF BootInv
    <2> QED BY Zenon, <2>2, <2>3 DEF BootInv
  <1>4. ASSUME UNCHANGED <<boot, cru, linux, spi_profile>>,
               pc' = pc \/ (pc # "boot" /\ pc' # "boot")
        PROVE  BootInv'
    <2>1. /\ Present' = Present /\ peripherals_initialize' = peripherals_initialize
          /\ \A u : Start(u)' = Start(u)
      BY Zenon, <1>4, SameProgram
    <2>2. BootTyped' /\ LinuxBitsKept' /\ (Booting' <=> Booting)
      BY Zenon, <1>4, <2>1 DEF BootInv, BootTyped, LinuxBitsKept, Booting
    <2>3. ASSUME pc = "boot" PROVE CruInv'
      <3> SUFFICES ASSUME NEW u \in Present, NEW c \in 0 .. Len(Prepare(u)), NEW g \in Assigned,
                          NEW v \in {0, 1}, Holds(u, c, g, v), Prefix(u, c)'
                   PROVE  Reads(g, v)'
        BY Zenon, <2>1 DEF CruInv
      <3>1. Prefix(u, c)
        BY Zenon, <1>4, <2>1 DEF Prefix
      <3>2. Reads(g, v)
        BY Zenon, <2>1, <2>3, <3>1 DEF BootInv, CruInv
      <3> QED BY Zenon, <1>4, <3>2 DEF Reads
    <2> QED BY Zenon, <1>4, <2>2, <2>3 DEF BootInv
  <1> QED BY Zenon, <1>1, <1>2, <1>3, <1>4, ServingFrame

-----------------------------------------------------------------------------
(* The devices during the bring-up *)

\* From its reset pulse on a unit has nothing of an earlier session.
CleanInv ==
  pc = "boot" =>
    /\ \A p \in Port :
         boot >= Start(UartUnit[p]) + Pulse(UartUnit[p]) => uart[p] = 0
    /\ ~spi_profile /\ boot >= Start("I2C7") + Pulse("I2C7") => i2c = I2cOff
    /\ spi = SpiIdle
    /\ boot >= Start("PWM1") + Pulse("PWM1") => pwm = PwmOff
    /\ boot >= Start("SARADC") + Pulse("SARADC") => adc = AdcIdle

LEMMA PulseNat ==
  ASSUME spi_profile \in BOOLEAN, NEW u \in Present
  PROVE  Start(u) + Pulse(u) \in Nat
  <1>1. u \in Unit /\ Start(u) \in Nat
    BY Zenon, ProfileCases, Lengths
  <1>2. Pulse(u) \in Nat
    BY ZenonT(30), <1>1, Sections
  <1> QED BY <1>1, <1>2

LEMMA PresentUnits ==
  ASSUME spi_profile \in BOOLEAN
  PROVE  /\ {"UART5", "UART7", "PWM1", "SARADC"} \subseteq Present
         /\ ~spi_profile => "I2C7" \in Present
         /\ \A p \in Port : UartUnit[p] \in Present
  BY Zenon DEF Present, Profile, Port, UartUnit

\* The registers' set-up changes nothing in an idle unit.
LEMMA AdcStill == [AdcIdle EXCEPT !.end = FALSE] = AdcIdle
  <1>1. AdcIdle \in [busy : {0}, end : {FALSE}, data : {0}]
    BY Zenon DEF AdcIdle
  <1> HIDE DEF AdcIdle
  <1>2. AdcIdle.end = FALSE
    BY Zenon, <1>1
  <1> QED BY Zenon, <1>1, <1>2

LEMMA PwmStill == [PwmOff EXCEPT !.enable = FALSE] = PwmOff
  <1> DEFINE T == [period : {0}, duty : {0}, lock : {FALSE}, enable : {FALSE}, out : {<<0, 0>>}]
  <1>1. PwmOff \in T
    BY Zenon DEF PwmOff
  <1>2. [PwmOff EXCEPT !.enable = FALSE] \in T
    BY ZenonT(30), <1>1
  <1> HIDE DEF PwmOff
  <1> QED BY Zenon, <1>1, <1>2

LEMMA CleanBringUp ==
  ASSUME BootInv, CleanInv, BringUp
  PROVE  CleanInv'
  <1> DEFINE Does(do, u) == Current.do = do /\ Current.unit = u
             Cleared(u) == (InReset(u) /\ Clocked(u))'
  <1>1. /\ pc = "boot" /\ pc' = "boot" /\ BootStep
        /\ uart' = [p \in Port |->
                     IF Cleared(UartUnit[p]) \/ Does("init", UartUnit[p]) THEN 0 ELSE uart[p]]
        /\ i2c' = IF Cleared("I2C7") \/ Does("init", "I2C7") THEN I2cOff ELSE i2c
        /\ spi' = IF Cleared("SPI0") \/ Does("init", "SPI0") THEN SpiIdle ELSE spi
        /\ pwm' = IF Cleared("PWM1") THEN PwmOff
                  ELSE IF Does("init", "PWM1") THEN [pwm EXCEPT !.enable = FALSE] ELSE pwm
        /\ adc' = IF Cleared("SARADC") THEN AdcIdle
                  ELSE IF Does("init", "SARADC") THEN [adc EXCEPT !.end = FALSE] ELSE adc
    BY Zenon DEF BringUp
  <1>2. spi_profile \in BOOLEAN /\ boot \in Nat /\ boot' = boot + 1 /\ spi_profile' = spi_profile
    BY <1>1, Program DEF BootInv, BootTyped, BootStep, Laid
  <1>3. Present' = Present /\ \A u : Start(u)' = Start(u)
    BY Zenon, <1>2, SameProgram
  <1>4. (BootTyped /\ CruInv)'
    BY Zenon, <1>1, BootTypedStep, CruBootStep DEF BootInv
  <1>5. Pulsed'
    BY <1>4, PulsedOnce, PTL
  <1>6. ASSUME NEW u \in Present, boot' >= Start(u) + Pulse(u)
        PROVE  Cleared(u) \/ boot >= Start(u) + Pulse(u)
    <2> DEFINE k == Start(u) + Pulse(u)
    <2>1. k \in Nat
      BY Zenon, <1>2, PulseNat
    <2>2. boot' = k => Cleared(u)
      BY Zenon, <1>3, <1>5 DEF Pulsed
    <2>3. boot' >= k
      BY Zenon, <1>6
    <2> HIDE DEF k
    <2>4. boot' = k \/ boot >= k
      BY <1>2, <2>1, <2>3
    <2> QED BY Zenon, <2>2, <2>4 DEF k
  <1>7. /\ {"UART5", "UART7", "PWM1", "SARADC"} \subseteq Present
        /\ ~spi_profile => "I2C7" \in Present
        /\ \A p \in Port : UartUnit[p] \in Present
    BY Zenon, <1>2, PresentUnits
  <1> HIDE DEF Cleared, Does
  <1>8. ASSUME NEW p \in Port, boot' >= Start(UartUnit[p]) + Pulse(UartUnit[p])
        PROVE  uart'[p] = 0
    BY Zenon, <1>1, <1>6, <1>7, <1>8 DEF CleanInv
  <1>9. ASSUME ~spi_profile, boot' >= Start("I2C7") + Pulse("I2C7")
        PROVE  i2c' = I2cOff
    BY Zenon, <1>1, <1>6, <1>7, <1>9 DEF CleanInv
  <1>10. spi' = SpiIdle
    BY Zenon, <1>1 DEF CleanInv
  <1>11. ASSUME boot' >= Start("PWM1") + Pulse("PWM1")
         PROVE  pwm' = PwmOff
    <2>1. Cleared("PWM1") \/ pwm = PwmOff
      BY Zenon, <1>1, <1>6, <1>7, <1>11 DEF CleanInv
    <2> QED BY Zenon, <1>1, <2>1, PwmStill
  <1>12. ASSUME boot' >= Start("SARADC") + Pulse("SARADC")
         PROVE  adc' = AdcIdle
    <2>1. Cleared("SARADC") \/ adc = AdcIdle
      BY Zenon, <1>1, <1>6, <1>7, <1>12 DEF CleanInv
    <2> QED BY Zenon, <1>1, <2>1, AdcStill
  <1> QED BY <1>2, <1>3, <1>8, <1>9, <1>10, <1>11, <1>12 DEF CleanInv

\* Only a device acts besides the bring-up, and an idle one does not.
LEMMA DevicesAtBoot ==
  ASSUME I2cInv, pc = "boot", pc' = "boot", spi = SpiIdle,
         \/ \E r \in Request : Refuse(r)
         \/ GpioStep \/ I2cStep \/ AdcStep \/ SpiStep \/ PwmStep \/ UartStep \/ UNCHANGED vars
  PROVE  /\ UNCHANGED <<uart, i2c, spi>>
         /\ pwm = PwmOff => pwm' = pwm
         /\ adc = AdcIdle => adc' = adc
  <1>0. i2c.con = "off" /\ ~spi.enabled /\ (pwm = PwmOff => ~pwm.enable) /\ (adc = AdcIdle => adc.busy = 0)
    BY DEF I2cInv, I2cLabel, SpiIdle, PwmOff, AdcIdle
  <1>1. CASE \E r \in Request : Refuse(r)
    BY Zenon, <1>1, RefuseFrame
  <1>2. CASE GpioStep
    BY Zenon, <1>2, GpioFrame
  <1>3. CASE I2cStep
    <2>1. ~I2cDevice
      BY Zenon, <1>0 DEF I2cDevice
    <2> QED BY Zenon, <1>3, <2>1 DEF I2cStep, I2cStart, I2cWait, I2cWaitTimeout, I2cStop, I2cStopWait,
              Accept, Begin, At
  <1>4. CASE AdcStep
    <2>1. AdcDevice
      BY Zenon, <1>4 DEF AdcStep, AdcReset, AdcClear, AdcStart, AdcWait, AdcTimeout, Accept, Begin, At
    <2>2. UNCHANGED <<uart, i2c, spi, pwm>> /\ adc.busy # 0
      BY Zenon, <2>1 DEF AdcDevice
    <2> QED BY Zenon, <1>0, <2>2
  <1>5. CASE SpiStep
    <2>1. ~SpiDevice
      BY Zenon, <1>0 DEF SpiDevice
    <2> QED BY Zenon, <1>5, <2>1 DEF SpiStep, SpiStart, SpiTx, SpiRx, SpiDone, SpiTimeout, Accept, Begin, At
  <1>6. CASE PwmStep
    <2>1. PwmDevice
      BY Zenon, <1>6 DEF PwmStep, PwmLock, PwmStop, PwmPeriod, PwmDuty, PwmEnable, Accept, Begin, At
    <2>2. UNCHANGED <<uart, i2c, spi, adc>> /\ pwm.enable
      BY Zenon, <2>1 DEF PwmDevice
    <2> QED BY Zenon, <1>0, <2>2
  <1>7. CASE UartStep
    BY Zenon, <1>7 DEF UartStep, UartStart, UartTx, UartWait, UartRx, UartDevice, Accept, Begin, At
  <1>8. CASE UNCHANGED vars
    BY Zenon, <1>8 DEF vars, devices
  <1> QED BY <1>1, <1>2, <1>3, <1>4, <1>5, <1>6, <1>7, <1>8

LEMMA CleanStays ==
  ASSUME OpInv, BootInv, I2cInv, CleanInv, [Next]_vars
  PROVE  CleanInv'
  <1>1. CASE BringUp
    BY Zenon, <1>1, CleanBringUp
  <1>2. CASE ServiceReady
    BY Zenon, <1>2 DEF ServiceReady, CleanInv
  <1>3. CASE LinuxWrites
    <2>1. UNCHANGED <<pc, boot, spi_profile, uart, i2c, spi, pwm, adc>>
      BY Zenon, <1>3 DEF LinuxWrites, LinuxUpdate, devices
    <2>2. \A u : Start(u)' = Start(u)
      BY Zenon, <2>1, SameProgram
    <2> QED BY Zenon, <2>1, <2>2 DEF CleanInv
  <1>4. CASE ~(BringUp \/ ServiceReady \/ LinuxWrites)
    <2> SUFFICES ASSUME pc' = "boot" PROVE CleanInv'
      BY Zenon DEF CleanInv
    <2>1. pc = "boot" /\ UNCHANGED <<boot, spi_profile>>
      BY Zenon, <1>4, ServingFrame
    <2>2. \A u : Start(u)' = Start(u)
      BY Zenon, <2>1, SameProgram
    <2>3. spi = SpiIdle
      BY Zenon, <2>1 DEF CleanInv
    <2>4. /\ UNCHANGED <<uart, i2c, spi>>
          /\ pwm = PwmOff => pwm' = pwm
          /\ adc = AdcIdle => adc' = adc
      BY Zenon, <1>4, <2>1, <2>3, DevicesAtBoot, PeripheralCases
    <2> QED BY Zenon, <2>1, <2>2, <2>4 DEF CleanInv
  <1> QED BY Zenon, <1>1, <1>2, <1>3, <1>4

-----------------------------------------------------------------------------
(* GPIO lines *)

GpioType == [mux : SUBSET Nat, ddr : SUBSET Nat, dr : SUBSET Nat, output_mask : SUBSET Nat]

\* During the bring-up no line is asked for; the inputs step of the I2C profile,
\* or the pins step of the SPI one, is the last to change the lines.
GpioBoot ==
  pc = "boot" =>
    /\ gpio.output_mask = {} /\ DOMAIN wanted = {}
    /\ spi_profile => gpio.ddr = {} /\ (boot >= 29 => gpio.mux = {})
    /\ ~spi_profile /\ boot >= 31 => gpio.mux = Owned /\ gpio.ddr = {}

\* A configured output has a level asked for, and the level is in DR before the
\* output is enabled.
GpioInv ==
  /\ gpio \in GpioType
  /\ gpio.output_mask \subseteq DOMAIN wanted
  /\ pc = "gpio_level" =>
       request.arg0 \in DOMAIN wanted /\ (wanted[request.arg0] = 1 <=> request.arg2 = 1)
  /\ pc = "gpio_direction" =>
       request.arg0 \in DOMAIN wanted /\ (request.arg0 \in gpio.dr <=> wanted[request.arg0] = 1)
  /\ DrivenAsRequested

LEMMA LevelSets ==
  ASSUME NEW a, NEW v, gpio \in GpioType, a \in Nat
  PROVE  /\ Level(a, v) \in SUBSET Nat
         /\ a \in Level(a, v) <=> v = 1
         /\ \A l : l # a => (l \in Level(a, v) <=> l \in gpio.dr)
  BY Zenon DEF Level, GpioType

LEMMA GpioDriverStays ==
  ASSUME OpInv, GpioInv, GpioStep
  PROVE  GpioInv'
  <1>0. gpio \in GpioType /\ request.arg0 \in Nat /\ \A r \in Request : r.arg0 \in Nat
    BY PeripheralAssumption DEF GpioInv, OpInv, Payload, NoOne
  <1>1. ASSUME NEW r \in Request, GpioConfigureInput(r) PROVE GpioInv'
    <2>1. /\ pc = "idle" /\ pc' = "idle"
          /\ gpio' = [gpio EXCEPT !.mux = @ \cup {r.arg0}, !.ddr = @ \ {r.arg0},
                                  !.output_mask = @ \ {r.arg0}]
          /\ wanted' = [l \in DOMAIN wanted \ {r.arg0} |-> wanted[l]]
      BY Zenon, <1>1 DEF GpioConfigureInput, Accept, Begin, Finish
    <2>2. /\ gpio' \in GpioType /\ gpio'.dr = gpio.dr /\ gpio'.ddr = gpio.ddr \ {r.arg0}
          /\ gpio'.output_mask = gpio.output_mask \ {r.arg0}
      BY ZenonT(30), <1>0, <2>1 DEF GpioType
    <2>3. /\ DOMAIN wanted' = DOMAIN wanted \ {r.arg0}
          /\ \A l \in DOMAIN wanted \ {r.arg0} : wanted'[l] = wanted[l]
      BY Zenon, <2>1
    <2> QED BY Zenon, <2>1, <2>2, <2>3 DEF GpioInv, DrivenAsRequested
  <1>2. ASSUME NEW r \in Request, GpioConfigureOutput(r) PROVE GpioInv'
    <2>1. /\ pc = "idle" /\ pc' = "gpio_level" /\ request' = r
          /\ gpio' = [gpio EXCEPT !.mux = @ \cup {r.arg0}]
          /\ wanted' = [l \in DOMAIN wanted \cup {r.arg0} |->
                          IF l = r.arg0 THEN r.arg2 ELSE wanted[l]]
      BY Zenon, <1>2 DEF GpioConfigureOutput, Accept, Begin, Go
    <2>2. /\ gpio' \in GpioType /\ gpio'.dr = gpio.dr /\ gpio'.ddr = gpio.ddr
          /\ gpio'.output_mask = gpio.output_mask
      BY Zenon, <1>0, <2>1 DEF GpioType
    <2>3. /\ DOMAIN wanted' = DOMAIN wanted \cup {r.arg0}
          /\ \A l \in DOMAIN wanted : l # r.arg0 => wanted'[l] = wanted[l]
          /\ wanted'[r.arg0] = r.arg2
      BY Zenon, <2>1
    <2> QED BY Zenon, <2>1, <2>2, <2>3 DEF GpioInv, DrivenAsRequested
  <1>3. ASSUME NEW r \in Request, GpioSet(r) PROVE GpioInv'
    <2>1. pc = "idle" /\ pc' = "idle"
      BY Zenon, <1>3 DEF GpioSet, Accept, Begin, Finish
    <2>2. CASE r.arg0 \in gpio.output_mask
      <3>1. /\ gpio' = [gpio EXCEPT !.dr = Level(r.arg0, r.arg1)]
            /\ wanted' = [wanted EXCEPT ![r.arg0] = r.arg1]
        BY Zenon, <1>3, <2>2 DEF GpioSet
      <3> DEFINE lv == Level(r.arg0, r.arg1)
      <3>2. /\ lv \in SUBSET Nat
            /\ r.arg0 \in lv <=> r.arg1 = 1
            /\ \A l : l # r.arg0 => (l \in lv <=> l \in gpio.dr)
        BY Zenon, <1>0, LevelSets
      <3> HIDE DEF lv
      <3>3. /\ gpio' \in GpioType /\ gpio'.dr = lv /\ gpio'.ddr = gpio.ddr
            /\ gpio'.output_mask = gpio.output_mask
        BY Zenon, <1>0, <3>1, <3>2 DEF GpioType, lv
      <3>4. /\ DOMAIN wanted' = DOMAIN wanted /\ r.arg0 \in DOMAIN wanted
            /\ \A l \in DOMAIN wanted : l # r.arg0 => wanted'[l] = wanted[l]
            /\ wanted'[r.arg0] = r.arg1
        BY Zenon, <2>2, <3>1 DEF GpioInv
      <3> QED BY Zenon, <2>1, <3>2, <3>3, <3>4 DEF GpioInv, DrivenAsRequested
    <2>3. CASE r.arg0 \notin gpio.output_mask
      <3>1. UNCHANGED <<gpio, wanted>>
        BY Zenon, <1>3, <2>3 DEF GpioSet
      <3> QED BY Zenon, <2>1, <3>1 DEF GpioInv, DrivenAsRequested
    <2> QED BY Zenon, <2>2, <2>3
  <1>4. ASSUME NEW r \in Request, GpioGet(r) PROVE GpioInv'
    <2>1. pc = "idle" /\ pc' = "idle" /\ UNCHANGED <<gpio, wanted>>
      BY Zenon, <1>4 DEF GpioGet, Accept, Begin, Finish, devices
    <2> QED BY Zenon, <2>1 DEF GpioInv, DrivenAsRequested
  <1>5. ASSUME GpioOutputLevel PROVE GpioInv'
    <2> DEFINE a == request.arg0
               lv == Level(a, request.arg2)
    <2>1. /\ pc = "gpio_level" /\ pc' = "gpio_direction" /\ UNCHANGED <<request, wanted>>
          /\ gpio' = [gpio EXCEPT !.dr = lv]
      BY Zenon, <1>5 DEF GpioOutputLevel, At, Go
    <2>2. /\ lv \in SUBSET Nat
          /\ a \in lv <=> request.arg2 = 1
          /\ \A l : l # a => (l \in lv <=> l \in gpio.dr)
      BY Zenon, <1>0, LevelSets
    <2> HIDE DEF lv
    <2>3. /\ gpio' \in GpioType /\ gpio'.dr = lv /\ gpio'.ddr = gpio.ddr
          /\ gpio'.output_mask = gpio.output_mask
      BY Zenon, <1>0, <2>1, <2>2 DEF GpioType
    <2> QED BY Zenon, <2>1, <2>2, <2>3 DEF GpioInv, DrivenAsRequested
  <1>6. ASSUME GpioOutputDirection PROVE GpioInv'
    <2>1. /\ pc = "gpio_direction" /\ pc' = "idle" /\ UNCHANGED <<request, wanted>>
          /\ gpio' = [gpio EXCEPT !.ddr = @ \cup {request.arg0},
                                  !.output_mask = @ \cup {request.arg0}]
      BY Zenon, <1>6 DEF GpioOutputDirection, At, Finish
    <2>2. /\ gpio' \in GpioType /\ gpio'.dr = gpio.dr
          /\ gpio'.ddr = gpio.ddr \cup {request.arg0}
          /\ gpio'.output_mask = gpio.output_mask \cup {request.arg0}
      BY Zenon, <1>0, <2>1 DEF GpioType
    <2> QED BY Zenon, <2>1, <2>2 DEF GpioInv, DrivenAsRequested
  <1> QED BY Zenon, <1>1, <1>2, <1>3, <1>4, <1>5, <1>6 DEF GpioStep

LEMMA LinesSet ==
  ASSUME BootTyped, ~Booting, GpioBoot, pc = "boot"
  PROVE  gpio.mux = ProfileMux /\ gpio.ddr = {}
  <1>1. spi_profile \in BOOLEAN /\ boot = Len(peripherals_initialize)
        /\ Len(peripherals_initialize) = 40 + Extra
    BY Program DEF BootTyped, Booting, Laid
  <1>2. Extra \in {10, 11}
    BY Zenon, <1>1, ProfileCases
  <1>3. boot >= 31 /\ boot >= 29
    BY <1>1, <1>2
  <1> QED BY ZenonT(30), <1>1, <1>3 DEF GpioBoot, ProfileMux

LEMMA GpioBringUp ==
  ASSUME BootInv, GpioInv, GpioBoot, BringUp
  PROVE  GpioInv' /\ GpioBoot'
  <1>1. /\ pc = "boot" /\ pc' = "boot" /\ BootStep /\ UNCHANGED <<request, wanted>>
        /\ gpio' = IF Current.do = "inputs" /\ Current.unit = "GPIO"
                     THEN [gpio EXCEPT !.mux = Owned, !.ddr = {}]
                   ELSE IF Current.do = "pins" /\ Current.unit = "SPI0"
                     THEN [gpio EXCEPT !.mux = {}] ELSE gpio
    BY Zenon DEF BringUp
  <1>2. /\ boot \in Nat /\ boot' = boot + 1 /\ spi_profile' = spi_profile
        /\ spi_profile \in BOOLEAN /\ Booting
    BY <1>1, Program DEF BootInv, BootTyped, BootStep, Laid
  <1>3. /\ Current.do = "inputs" /\ Current.unit = "GPIO" <=> ~spi_profile /\ boot = 30
        /\ Current.do = "pins" /\ Current.unit = "SPI0" <=> spi_profile /\ boot = 28
    BY Zenon, <1>2, CurrentIs DEF BootInv
  <1>4. gpio' = IF ~spi_profile /\ boot = 30 THEN [gpio EXCEPT !.mux = Owned, !.ddr = {}]
                ELSE IF spi_profile /\ boot = 28 THEN [gpio EXCEPT !.mux = {}] ELSE gpio
    BY Zenon, <1>1, <1>3
  <1>5. gpio \in GpioType /\ Owned \in SUBSET Nat
    BY DEF GpioInv, Owned
  <1>6. CASE ~spi_profile /\ boot = 30
    <2>1. /\ gpio' \in GpioType /\ gpio'.mux = Owned /\ gpio'.ddr = {}
          /\ gpio'.output_mask = gpio.output_mask
      BY ZenonT(30), <1>4, <1>5, <1>6 DEF GpioType
    <2> QED BY Zenon, <1>1, <1>2, <1>6, <2>1 DEF GpioInv, GpioBoot, DrivenAsRequested
  <1>7. CASE spi_profile /\ boot = 28
    <2>1. /\ gpio' \in GpioType /\ gpio'.mux = {} /\ gpio'.ddr = gpio.ddr
          /\ gpio'.output_mask = gpio.output_mask
      BY Zenon, <1>4, <1>5, <1>7 DEF GpioType
    <2> QED BY Zenon, <1>1, <1>2, <1>7, <2>1 DEF GpioInv, GpioBoot, DrivenAsRequested
  <1>8. CASE ~(~spi_profile /\ boot = 30) /\ ~(spi_profile /\ boot = 28)
    <2>1. gpio' = gpio
      BY Zenon, <1>4, <1>8
    <2>2. /\ spi_profile /\ boot' >= 29 => boot >= 29
          /\ ~spi_profile /\ boot' >= 31 => boot >= 31
      BY <1>2, <1>8
    <2> QED BY Zenon, <1>1, <1>2, <2>1, <2>2 DEF GpioInv, GpioBoot, DrivenAsRequested
  <1> QED BY Zenon, <1>6, <1>7, <1>8

LEMMA GpioStays ==
  ASSUME OpInv, BootInv, GpioInv, GpioBoot, [Next]_vars
  PROVE  GpioInv' /\ GpioBoot'
  <1> USE DEF GpioLabel
  <1>1. CASE BringUp
    BY Zenon, <1>1, GpioBringUp
  <1>2. CASE ServiceReady
    <2>1. pc = "boot" /\ pc' = "idle" /\ ~Booting /\ UNCHANGED <<gpio, wanted>>
      BY Zenon, <1>2 DEF ServiceReady, devices
    <2>2. gpio.ddr = {}
      BY Zenon, <2>1, LinesSet DEF BootInv
    <2> QED BY Zenon, <2>1, <2>2 DEF GpioInv, GpioBoot, DrivenAsRequested
  <1>3. CASE LinuxWrites
    <2>1. UNCHANGED <<pc, request, boot, spi_profile, gpio, wanted>>
      BY Zenon, <1>3 DEF LinuxWrites, LinuxUpdate, devices
    <2> QED BY Zenon, <2>1 DEF GpioInv, GpioBoot, DrivenAsRequested
  <1>4. CASE GpioStep /\ UNCHANGED bootVars
    <2>1. GpioInv'
      BY Zenon, <1>4, GpioDriverStays
    <2>2. pc # "boot" /\ pc' # "boot"
      BY ZenonT(30), <1>4 DEF GpioStep, GpioConfigureInput, GpioConfigureOutput, GpioSet, GpioGet,
           GpioOutputLevel, GpioOutputDirection, Accept, Begin, At, Finish, Go
    <2> QED BY Zenon, <2>1, <2>2 DEF GpioBoot
  <1>5. CASE /\ ~(BringUp \/ ServiceReady \/ LinuxWrites)
             /\ \/ \E r \in Request : Refuse(r)
                \/ I2cStep \/ AdcStep \/ SpiStep \/ PwmStep \/ UartStep \/ UNCHANGED vars
    <2>1. Elsewhere(GpioLabel, GpioOp) /\ UNCHANGED <<gpio, wanted>>
      BY Zenon, <1>5, GpioElsewhere
    <2>2. UNCHANGED <<boot, spi_profile>>
      BY Zenon, <1>5, ServingFrame
    <2>3. GpioInv'
      BY Zenon, <2>1 DEF GpioInv, Elsewhere, DrivenAsRequested
    <2>4. GpioBoot'
      BY Zenon, <2>1, <2>2 DEF GpioBoot, Elsewhere
    <2> QED BY Zenon, <2>3, <2>4
  <1> QED BY <1>1, <1>2, <1>3, <1>4, <1>5, PeripheralCases

-----------------------------------------------------------------------------
(* The initial states, and the theorems *)

LEMMA OpStart == Init => OpInv
  <1> SUFFICES ASSUME Init PROVE OpInv
    BY Zenon
  <1>1. /\ n = 0 /\ request = NoOne /\ pc = "boot" /\ index = 0 /\ status = "OK"
        /\ result = [request |-> NoOne, status |-> "OK", n |-> 0, data |-> <<>>]
    BY Zenon DEF Init
  <1>3. NoOne.op = "NONE"
    BY Zenon DEF NoOne
  <1>4. result.request.op = "NONE"
    BY Zenon, <1>1, <1>3
  <1> HIDE DEF NoOne
  <1> QED BY Zenon, <1>1, <1>3, <1>4
        DEF OpInv, Labels, GpioLabel, I2cLabel, AdcLabel, SpiLabel, PwmLabel, UartLabel

LEMMA NothingAnswered ==
  ASSUME Init, NEW ops, "NONE" \notin ops
  PROVE  ~Succeeded(ops)
  <1>1. result.request = NoOne /\ NoOne.op = "NONE"
    BY Zenon DEF Init, NoOne
  <1> HIDE DEF NoOne
  <1> QED BY Zenon, <1>1 DEF Succeeded

LEMMA I2cStartUp == Init => I2cInv
  <1> SUFFICES ASSUME Init PROVE I2cInv
    BY Zenon
  <1>1. pc = "boot" /\ (i2c = I2cOff \/ i2c = [I2cOff EXCEPT !.ipd = {"MBTF"}])
    BY Zenon DEF Init, Cold, LeftBehind
  <1>2. i2c \in I2cType /\ i2c.con = "off"
    BY <1>1 DEF I2cOff, I2cType
  <1>3. ~Succeeded(I2cOp)
    BY Zenon, NothingAnswered DEF I2cOp
  <1> QED BY <1>1, <1>2, <1>3 DEF I2cInv, I2cLabel

LEMMA AdcStartUp == Init => AdcInv
  <1> SUFFICES ASSUME Init PROVE AdcInv
    BY Zenon
  <1>1. pc = "boot" /\ (adc = AdcIdle \/ adc = [AdcIdle EXCEPT !.busy = MaxRequests + 1])
    BY Zenon DEF Init, Cold, LeftBehind
  <1>2. adc \in AdcType
    <2>1. AdcIdle \in AdcType
      BY Zenon DEF AdcIdle, AdcType
    <2>2. MaxRequests + 1 \in Nat
      BY PeripheralAssumption
    <2> HIDE DEF AdcIdle
    <2>3. [AdcIdle EXCEPT !.busy = MaxRequests + 1] \in AdcType
      BY Zenon, <2>1, <2>2 DEF AdcType
    <2> QED BY Zenon, <1>1, <2>1, <2>3
  <1>3. ~Succeeded(AdcOp)
    BY Zenon, NothingAnswered DEF AdcOp
  <1> QED BY Zenon, <1>1, <1>2, <1>3 DEF AdcInv

LEMMA SpiStartUp == Init => SpiInv
  <1> SUFFICES ASSUME Init PROVE SpiInv
    BY Zenon
  <1>1. pc = "boot" /\ spi = SpiIdle
    BY Zenon DEF Init
  <1>2. ~Succeeded({"SPI_TRANSFER"})
    BY Zenon, NothingAnswered
  <1> QED BY Zenon, <1>1, <1>2, SpiIdleTyped DEF SpiInv, SpiLabel, SpiBytesInStep

LEMMA PwmStartUp == Init => PwmInv
  <1> SUFFICES ASSUME Init PROVE PwmInv
    BY Zenon
  <1>1. pc = "boot"
    BY Zenon DEF Init
  <1>2. CASE pwm = PwmOff
    <2>1. pwm \in PwmType /\ pwm.out = <<0, 0>> /\ pwm.period = 0 /\ pwm.duty = 0
      BY Zenon, <1>2 DEF PwmOff, PwmType
    <2> QED BY Zenon, <1>1, <2>1 DEF PwmInv, PwmOutputIsAPair, Paired, PwmLabel
  <1>3. CASE LeftBehind
    <2>1. PICK r \in Request :
            /\ r.op = "PWM_SET"
            /\ pwm = [PwmOff EXCEPT !.period = Ticks(r.arg0), !.duty = Ticks(r.arg1),
                                    !.enable = TRUE, !.out = <<Ticks(r.arg0), Ticks(r.arg1)>>]
      BY Zenon, <1>3 DEF LeftBehind
    <2>2. Ticks(r.arg0) \in Nat /\ Ticks(r.arg1) \in Nat
      BY Zenon, TicksNat, PeripheralAssumption DEF Payload
    <2>3. /\ pwm \in PwmType /\ pwm.out = <<Ticks(r.arg0), Ticks(r.arg1)>>
          /\ pwm.period = Ticks(r.arg0) /\ pwm.duty = Ticks(r.arg1)
      BY Zenon, <2>1, <2>2 DEF PwmOff, PwmType
    <2> QED BY Zenon, <1>1, <2>1, <2>3 DEF PwmInv, PwmOutputIsAPair, Paired, PwmLabel
  <1> QED BY Zenon, <1>2, <1>3 DEF Init, Cold

LEMMA BootStartUp == Init => BootInv
  BY Zenon, BootStart DEF Init, BootInv

LEMMA CleanStartUp == Init => CleanInv
  <1> SUFFICES ASSUME Init PROVE CleanInv
    BY Zenon
  <1>1. spi_profile \in BOOLEAN /\ boot = 0 /\ spi = SpiIdle
    BY Zenon DEF Init, BootInit
  <1>2. ASSUME NEW u \in Present PROVE ~(boot >= Start(u) + Pulse(u))
    <2>1. u \in Unit /\ Start(u) \in Nat
      BY Zenon, <1>1, ProfileCases, Lengths
    <2>2. PICK b \in Nat : b + 1 <= Mid(u) /\ Mid(u) <= Pulse(u) /\ Mid(u) \in Nat /\ Pulse(u) \in Nat
      BY ZenonT(30), <2>1, Sections
    <2> QED BY <1>1, <2>1, <2>2
  <1> QED BY Zenon, <1>1, <1>2, PresentUnits DEF CleanInv

LEMMA GpioStartUp == Init => GpioInv /\ GpioBoot
  <1> SUFFICES ASSUME Init PROVE GpioInv /\ GpioBoot
    BY Zenon
  <1>1. pc = "boot" /\ boot = 0 /\ spi_profile \in BOOLEAN /\ DOMAIN wanted = {}
    BY Zenon DEF Init, BootInit
  <1>2. Owned \in SUBSET Nat /\ ProfileMux \in SUBSET Nat
    BY DEF Owned, ProfileMux
  <1>3. gpio \in GpioType /\ gpio.output_mask = {} /\ (spi_profile => gpio.ddr = {})
    <2>1. CASE Cold
      BY Zenon, <1>2, <2>1 DEF Cold, GpioType
    <2>2. CASE LeftBehind
      <3>1. PICK driven, dr \in Left :
              gpio = [mux |-> ProfileMux, ddr |-> driven \cap ProfileMux,
                      dr |-> dr \cap ProfileMux, output_mask |-> {}]
        BY Zenon, <2>2 DEF LeftBehind
      <3>2. driven \cap ProfileMux \in SUBSET Nat /\ dr \cap ProfileMux \in SUBSET Nat
        BY ZenonT(30), <1>2
      <3>3. gpio \in GpioType /\ gpio.output_mask = {} /\ gpio.ddr = driven \cap ProfileMux
        BY Zenon, <1>2, <3>1, <3>2 DEF GpioType
      <3> QED BY Zenon, <3>3 DEF ProfileMux
    <2> QED BY Zenon, <2>1, <2>2 DEF Init
  <1> QED BY <1>1, <1>3 DEF GpioInv, GpioBoot, DrivenAsRequested

\* The invariant of the whole service.
ServiceInv == OpInv /\ I2cInv /\ AdcInv /\ SpiInv /\ PwmInv /\ BootInv /\ CleanInv /\ GpioInv /\ GpioBoot

LEMMA ServiceInvariant == Spec => []ServiceInv
  <1>1. Init => ServiceInv
    BY OpStart, I2cStartUp, AdcStartUp, SpiStartUp, PwmStartUp, BootStartUp, CleanStartUp, GpioStartUp
       DEF ServiceInv
  <1>2. ServiceInv /\ [Next]_vars => ServiceInv'
    BY OpStays, I2cStays, AdcStays, SpiStays, PwmStays, BootStays, CleanStays, GpioStays
       DEF ServiceInv
  <1> QED BY <1>1, <1>2, PTL DEF Spec

\* Whatever devices finish late, a successful I2C request is one whose transfer
\* took place, and a sample is of the conversion its request started: i2c_transfer
\* clears IPD and saradc_read resets the converter first.
THEOREM FreshReplies == Spec => []RepliesAreFresh
  <1>1. ServiceInv => RepliesAreFresh
    BY Zenon DEF ServiceInv, I2cInv, AdcInv, RepliesAreFresh, I2cOp, AdcOp
  <1> QED BY <1>1, ServiceInvariant, PTL

\* spi_transfer answers with the bytes shifted in for its own, one for each, in
\* order, for every length.
THEOREM SpiInStep == Spec => []SpiBytesInStep
  <1>1. ServiceInv => SpiBytesInStep
    BY Zenon DEF ServiceInv, SpiInv
  <1> QED BY <1>1, ServiceInvariant, PTL

\* No end of a request, a timeout included, leaves I2C7 enabled or a chip
\* selected on SPI0.
THEOREM BusesFree == Spec => []BusesReleased
  <1>1. ServiceInv => BusesReleased
    BY Zenon, SpiIdleTyped DEF ServiceInv, I2cInv, SpiInv, BusesReleased, I2cLabel, SpiLabel
  <1> QED BY <1>1, ServiceInvariant, PTL

\* pwm_set writes period and duty under LOCK: the output is always a pair that
\* one request asked for, also in the session after the one that set it.
THEOREM PwmPairs == Spec => []PwmOutputIsAPair
  <1>1. ServiceInv => PwmOutputIsAPair
    BY Zenon DEF ServiceInv, PwmInv
  <1> QED BY <1>1, ServiceInvariant, PTL

\* gpio_configure_output writes the level before the direction, and the bring-up
\* undoes what an earlier session drove: a driven line has the level asked for.
THEOREM LinesAsRequested == Spec => []DrivenAsRequested
  <1>1. ServiceInv => DrivenAsRequested
    BY Zenon DEF ServiceInv, GpioInv
  <1> QED BY <1>1, ServiceInvariant, PTL

\* hiword_update shifts mask and value by the same amount: whatever the registers
\* hold and whenever Linux changes a bit of its own, no write of the bring-up
\* changes a clock or reset bit that is not in one of CPU3's fields.
THEOREM LinuxKeepsItsBits == Spec => []LinuxBitsKept
  <1>1. ServiceInv => LinuxBitsKept
    BY Zenon DEF ServiceInv, BootInv
  <1> QED BY <1>1, ServiceInvariant, PTL

\* Whatever the registers hold at first, prepare_peripheral changes a selector only
\* with the leaf clocks closed and a reset line only with all clocks of the unit
\* open, and no driver is initialised before its unit has its clocks, the rates
\* wanted and is out of reset.
THEOREM BringUpOrdered == Spec => []BringUpInOrder
  <1>1. ServiceInv => BringUpInOrder
    <2> SUFFICES ASSUME ServiceInv PROVE BringUpInOrder
      BY Zenon
    <2>1. CASE pc = "boot"
      BY Zenon, <2>1, InOrder DEF ServiceInv, BootInv
    <2>2. CASE pc # "boot"
      BY <2>2 DEF ServiceInv, BootInv, BringUpInOrder
    <2> QED BY Zenon, <2>1, <2>2
  <1> QED BY <1>1, ServiceInvariant, PTL

\* When the bring-up ends nothing of an earlier session is left in a controller:
\* each was in reset with its clocks on, and the lines are inputs.
THEOREM BootsClean == Spec => []BootedClean
  <1>1. ServiceInv => BootedClean
    <2> SUFFICES ASSUME ServiceInv, pc = "boot", ~Booting
                 PROVE  /\ gpio.mux = ProfileMux /\ gpio.ddr = {}
                        /\ spi_profile \/ i2c = I2cOff
                        /\ spi = SpiIdle /\ adc = AdcIdle /\ pwm = PwmOff
                        /\ \A p \in Port : uart[p] = 0
      BY Zenon DEF BootedClean
    <2>1. BootTyped /\ CleanInv /\ GpioBoot /\ spi_profile \in BOOLEAN
      BY Zenon DEF ServiceInv, BootInv, BootTyped
    <2>2. gpio.mux = ProfileMux /\ gpio.ddr = {}
      BY Zenon, <2>1, LinesSet
    <2>3. \A u \in Present : boot >= Start(u) + Pulse(u)
      BY Zenon, <2>1, AllPulsed
    <2> QED BY <2>1, <2>2, <2>3, PresentUnits DEF CleanInv
  <1> QED BY <1>1, ServiceInvariant, PTL
=============================================================================
