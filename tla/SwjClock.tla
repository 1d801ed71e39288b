------------------------------ MODULE SwjClock ------------------------------
(***************************************************************************)
(* The one DAP command this repository implements itself, DAP_SWJ_Clock    *)
(* (src/device/src/cmsis_dap/task_cmsis_dap.c): the host asks for an SWD   *)
(* clock frequency and the debugger turns it into the count of a delay     *)
(* loop, in unsigned arithmetic.  Frequencies are in units of Hertz        *)
(* divided by whatever CPU_CLOCK is divided by.                            *)
(***************************************************************************)
EXTENDS Naturals

CONSTANTS
    CPU_CLOCK,       \* a positive number
    UINT32,          \* 2^32, or less on an instance that has to be small
    Clocks           \* frequencies the host may ask for: a set of numbers

VARIABLES
    fast_clock, clock_delay,   \* of DAP_Data
    asked,                     \* the frequency of the last request granted
    response

vars == <<fast_clock, clock_delay, asked, response>>

NoClock == 0

IO_PORT_WRITE_CYCLES == 2
DELAY_SLOW_CYCLES == 1         \* redefined by task_cmsis_dap.c
DELAY_FAST_CYCLES == 0         \* DAP.h of the CMSIS-DAP firmware
DelayFix == 16

HalfClock == CPU_CLOCK \div 2
MAX_SWJ_CLOCK(delay_cycles) == HalfClock \div (IO_PORT_WRITE_CYCLES + delay_cycles)

Uint32(n) == n % UINT32
Minus(m, n) == Uint32(UINT32 + m - n)       \* "m - n" of uint32_t

-----------------------------------------------------------------------------
\* DAP_Setup has set a default frequency, with the firmware's own routine.
Init ==
    /\ fast_clock = FALSE
    /\ clock_delay = 1
    /\ asked = NoClock
    /\ response = "none"

\* Mutants of SlowDelay: the quotient is rounded down; the fix is missing.
SlowDelayRoundsDown(clock) ==
    LET delay == HalfClock \div clock IN
    IF delay > IO_PORT_WRITE_CYCLES
    THEN Minus(Minus(delay, IO_PORT_WRITE_CYCLES), DelayFix)
    ELSE 1
SlowDelayUnfixed(clock) ==
    LET delay == (HalfClock + clock - 1) \div clock IN
    IF delay > IO_PORT_WRITE_CYCLES THEN Minus(delay, IO_PORT_WRITE_CYCLES) ELSE 1

\* The delay of a clock that is not fast: half a period in processor cycles,
\* rounded up, less what the loop's surroundings take.
SlowDelay(clock) ==
    LET delay == Uint32(HalfClock + (clock - 1)) \div clock
        inLoop == (delay - IO_PORT_WRITE_CYCLES + (DELAY_SLOW_CYCLES - 1))
                      \div DELAY_SLOW_CYCLES
    IN  IF delay > IO_PORT_WRITE_CYCLES THEN Minus(inLoop, DelayFix) ELSE 1

\* Mutant: "DAP_Data.clock_delay = 1U" is missing in the first branch.
Set_Clock_Delay_KeepsDelay(clock) ==
    IF clock >= MAX_SWJ_CLOCK(DELAY_FAST_CYCLES)
    THEN fast_clock' = TRUE /\ UNCHANGED clock_delay
    ELSE fast_clock' = FALSE /\ clock_delay' = SlowDelay(clock)

Set_Clock_Delay(clock) ==
    IF clock >= MAX_SWJ_CLOCK(DELAY_FAST_CYCLES)
    THEN fast_clock' = TRUE /\ clock_delay' = 1
    ELSE fast_clock' = FALSE /\ clock_delay' = SlowDelay(clock)

\* CmsisDapSwjClock, for the frequency in the request.
CmsisDapSwjClock(clock) ==
    \/ /\ clock = 0
       /\ response' = "DAP_ERROR"
       /\ UNCHANGED <<fast_clock, clock_delay, asked>>
    \/ /\ clock # 0
       /\ Set_Clock_Delay(clock)
       /\ asked' = clock
       /\ response' = "DAP_OK"

Next == \E clock \in Clocks : CmsisDapSwjClock(clock)

Spec == Init /\ [][Next]_vars

-----------------------------------------------------------------------------
TypeOK ==
    /\ fast_clock \in BOOLEAN
    /\ clock_delay \in 0 .. UINT32 - 1
    /\ fast_clock => clock_delay = 1
    /\ asked \in Clocks \union {NoClock}
    /\ response \in {"none", "DAP_OK", "DAP_ERROR"}

\* The processor cycles between two edges of SWCLK: the port write, the cycles
\* the fix accounts for, and the delay loop, which counts down to 0 before it
\* tests (PIN_DELAY_SLOW of the CMSIS-DAP firmware).
HalfPeriod ==
    IO_PORT_WRITE_CYCLES + DelayFix
        + (IF clock_delay = 0 THEN UINT32 ELSE clock_delay)

InSlowMode == asked # NoClock /\ ~fast_clock

\* The target is never clocked faster than the host asked
\* (task_cmsis_dap.c:39-49: the quotient is rounded up before the fix).
NeverFasterThanAsked ==
    InSlowMode => HalfPeriod > (HalfClock - 1) \div asked

\* The target is not clocked slower than the processor cycle's resolution makes
\* necessary: "clock: requested SWJ frequency in Hertz" (task_cmsis_dap.c:24-25).
NoSlowerThanNeeded ==
    InSlowMode => HalfPeriod =< (HalfClock - 1) \div asked + 1
=============================================================================
