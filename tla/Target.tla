-------------------------------- MODULE Target --------------------------------
(***************************************************************************)
(* The parts that face the target and share nothing: the clock command,    *)
(* the SWD self-test and the pin interrupts.  A behaviour is one of one of *)
(* them (part), with the others in a state in which they may start.        *)
(***************************************************************************)
EXTENDS GpioInterrupt, Sequences

CONSTANTS
    CPU_CLOCK, UINT32, Clocks    \* of SwjClock

VARIABLES
    part,
    fast_clock, clock_delay, asked, response,
    swclk_mode, swclk, swdio_mode, swdio,
    at, ack, id_code, reply, state, k, ones

\* Bit positions of a port are numbers.
ASSUME PinsAreNumbers == Pins \subseteq Nat

\* The processor's clock and every frequency are numbers; the former is a
\* uint32_t, 600000000 here.
ASSUME ClockAssumption ==
    /\ CPU_CLOCK \in Nat \ {0}
    /\ UINT32 \in Nat
    /\ CPU_CLOCK < UINT32
    /\ Clocks \subseteq Nat

Clock == INSTANCE SwjClock
Swd == INSTANCE SwdReadId

clockVars == <<fast_clock, clock_delay, asked, response>>
swdVars == <<swclk_mode, swclk, swdio_mode, swdio, at, ack, id_code, reply, state,
             k, ones>>

-----------------------------------------------------------------------------
TargetInit ==
    /\ part \in {"clock", "swd", "gpio"}
    /\ Clock!Init /\ Swd!Init /\ Init
    /\ part # "swd" => reply = "OK"
    /\ part # "gpio" => <<pin, function, mode>> =
                          CHOOSE c \in Pins \X Functions \X Modes : TRUE

TargetNext ==
    \/ /\ part = "clock" /\ Clock!Next
       /\ UNCHANGED <<part, swdVars, vars>>
    \/ /\ part = "swd" /\ Swd!Next
       /\ UNCHANGED <<part, clockVars, vars>>
    \/ /\ part = "gpio" /\ Next
       /\ UNCHANGED <<part, clockVars, swdVars>>

TargetVars == <<part, clockVars, swdVars, vars>>

TargetSpec == TargetInit /\ [][TargetNext]_TargetVars

-----------------------------------------------------------------------------
(* CallbackForItsEvent is GpioInterrupt's own.                             *)

\* Every variable keeps to its type (SwjClock, SwdReadId, GpioInterrupt): no delay
\* outside the word, no operation past the test's end.
TargetTypeOK == Clock!TypeOK /\ (part = "swd" => Swd!TypeOK) /\ TypeOK

\* The target is never clocked faster than the host asked
\* (task_cmsis_dap.c:39-49: the quotient is rounded up before the fix).
NeverFasterThanAsked == Clock!NeverFasterThanAsked

\* Nor slower than a processor cycle's resolution makes necessary
\* (task_cmsis_dap.c:24-25), for clocks that leave room for the fix.
NoSlowerThanNeeded == Clock!NoSlowerThanNeeded

\* The debugger and the target never drive SWDIO at the same time
\* (test_swd_read_id.c:93-129: the turnarounds on both sides of the reply).
NeverBothDrive == part = "swd" => Swd!NeverBothDrive

\* The target understands every bit up to its reply, whatever it replies, and each
\* bit of the reply is read in the clock in which it is sent
\* (test_swd_read_id.c:60-133).
ReplyReadInStep == part = "swd" => Swd!ReplyReadInStep
=============================================================================
