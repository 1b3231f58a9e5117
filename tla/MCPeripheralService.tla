------------------------- MODULE MCPeripheralService -------------------------
(* PeripheralService for TLC: the requests of the two pin profiles.        *)
EXTENDS PeripheralService

MCRequest(op, arg0, arg1, arg2, length) ==
  [op |-> op, arg0 |-> arg0, arg1 |-> arg1, arg2 |-> arg2, length |-> length]

(* Periods of 1000 and 2000 ns are 24 and 48 ticks.                        *)
MCPwmAdc ==
  { MCRequest("PWM_SET", 1000, 1000, 0, 0), MCRequest("PWM_SET", 2000, 500, 0, 0),
    MCRequest("PWM_STOP", 0, 0, 0, 0),
    MCRequest("ADC_READ", 3, 0, 0, 0), MCRequest("ADC_READ", 8, 0, 0, 0) }

MCGpio ==
  { MCRequest("GPIO_CONFIG", 25, 0, 0, 0), MCRequest("GPIO_CONFIG", 25, 1, 0, 0),
    MCRequest("GPIO_CONFIG", 25, 1, 1, 0), MCRequest("GPIO_CONFIG", 26, 1, 1, 0),
    MCRequest("GPIO_WRITE", 25, 0, 0, 0), MCRequest("GPIO_READ", 25, 0, 0, 0) }

MCBuses ==
  { MCRequest("I2C_WRITE", 104, 0, 0, 1), MCRequest("I2C_WRITE_READ", 104, 8, 0, 1),
    MCRequest("SPI_TRANSFER", 0, 0, 0, 2), MCRequest("SPI_TRANSFER", 1, 3, 0, 1),
    MCRequest("UART_WRITE", 5, 0, 0, 2), MCRequest("UART_READ", 7, 2, 0, 0) }

(* Linux changes a UART in registers of the two CPU3 owns, and a clock in  *)
(* CLKSEL59.                                                               *)
MCForeign == { <<"gate", 12, 7>>, <<"reset", 13, 12>>, <<"sel", 59, 4>> }

(* The registers may hold zeros, ones, closed gates without resets, resets *)
(* with open gates, or a mixture within each unit.                         *)
MCBits == {<<f[1], f[2], b>> : f \in Assigned, b \in 0 .. 15}
MCContents ==
  { {}, MCBits, {x \in MCBits : x[1] = "gate"}, {x \in MCBits : x[1] = "reset"},
    {x \in MCBits : x[3] % 2 = 1} }

MCRequests == MCPwmAdc \cup MCGpio \cup MCBuses
=============================================================================
