-------------------------------- MODULE SwdPins --------------------------------
(***************************************************************************)
(* The two pins of the debug port, SWCLK and SWDIO, and the functions of   *)
(* DAP_config.h that drive and read them.  They are called by the          *)
(* CMSIS-DAP firmware's commands (external) and by test_swd_read_id.c.     *)
(***************************************************************************)
EXTENDS Naturals

VARIABLES
    swclk_mode, swclk,   \* the pins' modes and output latches
    swdio_mode, swdio

pinVars == <<swclk_mode, swclk, swdio_mode, swdio>>

Directions == {"in", "out"}
Bits == {0, 1}
Undriven == 2        \* a line that nobody drives

PinsTypeOK ==
    /\ {swclk_mode, swdio_mode} \subseteq Directions
    /\ {swclk, swdio} \subseteq Bits

\* The level of the SWDIO line: what the debugger drives, or else the target,
\* or else the pull-up.
Line(target) ==
    IF swdio_mode = "out" THEN swdio ELSE IF target # Undriven THEN target ELSE 1

-----------------------------------------------------------------------------
DAP_SETUP ==
    /\ swclk_mode' = "in" /\ swdio_mode' = "in"
    /\ UNCHANGED <<swclk, swdio>>

PORT_SWD_SETUP ==
    /\ swclk_mode' = "out" /\ swdio_mode' = "out"
    /\ swclk' = 1 /\ swdio' = 1

PORT_OFF == DAP_SETUP

\* From PIN_SWCLK_TCK_CLR to PIN_SWCLK_TCK_SET: one clock.
ClockPulse == swclk' = 1 /\ UNCHANGED <<swclk_mode, swdio_mode, swdio>>

\* Every one of these writes the latch, whatever the mode of the pin.
PIN_SWDIO_OUT(bit) == swdio' = bit /\ UNCHANGED <<swclk_mode, swclk, swdio_mode>>
PIN_SWDIO_TMS_SET == PIN_SWDIO_OUT(1)
PIN_SWDIO_TMS_CLR == PIN_SWDIO_OUT(0)

SetMode(mode) == swdio_mode' = mode /\ UNCHANGED <<swclk_mode, swclk, swdio>>
PIN_SWDIO_OUT_ENABLE == SetMode("out")
PIN_SWDIO_OUT_DISABLE == SetMode("in")

\* Reading SWDIO in SWJ mode makes the pin an input first.
PIN_SWDIO_TMS_IN == SetMode("in")
=============================================================================
