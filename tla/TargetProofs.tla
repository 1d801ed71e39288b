----------------------------- MODULE TargetProofs -----------------------------
(***************************************************************************)
(* The parts that face the target: the pin interrupts, for every set of    *)
(* pins, callbacks and modes; the clock command, for every frequency the   *)
(* host may ask for; and the SWD self-test, operation by operation.        *)
(***************************************************************************)
EXTENDS Target, SequenceTheorems, WellFoundedInduction, TLAPS

\* A step of any part is one of the pin interrupts or leaves them alone.
LEMMA GpioOrStutter ==
    [TargetNext]_TargetVars => [Next]_vars
    BY DEF TargetNext, TargetVars

\* So it is for the clock command.
LEMMA ClockOrStutter ==
    [TargetNext]_TargetVars => [Clock!Next]_(Clock!vars)
    BY DEF TargetNext, TargetVars, clockVars, Clock!vars

-----------------------------------------------------------------------------
(* Pin interrupts.  While a task is on its way through attachInterrupt, its *)
(* pin is masked from SetFunction to Unmask, so what that pin is set to may *)
(* change; an event that is pending when the pin is unmasked occurred after *)
(* ClearPending, and with the setting complete.                             *)

Attaching == {"readmask", "mask", "function", "sense", "icr", "clear",
              "readunmask", "unmask"}
Detaching == {"readdetach", "detach"}
Masked == {"function", "sense", "icr", "clear", "readunmask", "unmask"}

PcInv ==
    /\ pc \in Attaching \cup Detaching \cup {"idle"}
    /\ pc \in Attaching => mode \in KnownModes
    /\ pc = "icr" => mode # "CHANGE"

\* Who may interrupt: pins that are attached, and the pin of the present call
\* until it is masked.
MaskInv ==
    /\ pc \in {"mask", "detach", "unmask"} => copy = IMR
    /\ pc \in Masked => pin \notin IMR
    /\ IMR \subseteq (IF pc = "idle" THEN attached ELSE attached \cup {pin})

\* An event that can still reach the handler belongs to the pin's setting.
EventInv ==
    /\ \A p \in ISR \cap IMR : cause[p] = Setting(p)
    /\ pc \in {"readunmask", "unmask"} /\ pin \in ISR => cause[pin] = Setting(pin)
    /\ irq # "idle" =>
          /\ status # {}
          /\ \A p \in status : p \in attached \cup {pin} /\ cause[p] = Setting(p)

CauseInv == DOMAIN cause = Pins

GpioInv == TypeOK /\ PcInv /\ MaskInv /\ EventInv /\ CauseInv

\* Of the pins in a set the handler takes the least, so there is one to take
\* (the CHOOSE that stands for __builtin_ctz, gpio_interrupt.c:12-20).
LEMMA IndexIsInStatus ==
    ASSUME status \subseteq Pins, status # {}
    PROVE  Index \in status
<1>1. status \subseteq Nat
    BY PinsAreNumbers
<1>2. PICK p \in status : \A q \in status : <<q, p>> \notin OpToRel(<, Nat)
    BY <1>1, NatLessThanWellFounded, WFMin
<1>3. \A q \in status : ~(q < p)
    BY <1>1, <1>2, Zenon DEF OpToRel
<1>4. \A q \in status : p <= q
    BY <1>1, <1>3
<1> QED
    BY <1>4 DEF Index

\* The pin interrupts start with nothing attached, set up or pending.
LEMMA GpioInit ==
    Init => GpioInv
<1> SUFFICES ASSUME Init
             PROVE  GpioInv
    OBVIOUS
<1>1. TypeOK
    BY DEF Init, TypeOK
<1>2. PcInv /\ MaskInv
    BY DEF Init, PcInv, MaskInv, Attaching, Masked
<1>3. EventInv /\ CauseInv
    BY DEF Init, EventInv, CauseInv
<1> QED
    BY <1>1, <1>2, <1>3 DEF GpioInv

\* attachInterrupt up to the mask, and detachInterrupt.
LEMMA CallHolds ==
    ASSUME GpioInv, Attach \/ Detach \/ ReadMask \/ Mask \/ DetachMask
    PROVE  GpioInv'
<1> USE DEF GpioInv, Attaching, Detaching, Masked, registers, call, handlerVars
<1>1. CASE Attach
    BY <1>1 DEF Attach, Task, TypeOK, PcInv, MaskInv, EventInv, CauseInv, Setting
<1>2. CASE Detach
    BY <1>2 DEF Detach, Task, TypeOK, PcInv, MaskInv, EventInv, CauseInv, Setting
<1>3. CASE ReadMask
    BY <1>3 DEF ReadMask, Task, TypeOK, PcInv, MaskInv, EventInv, CauseInv, Setting
<1>4. CASE Mask
    BY <1>4 DEF Mask, Task, TypeOK, PcInv, MaskInv, EventInv, CauseInv, Setting
<1>5. CASE DetachMask
    BY <1>5 DEF DetachMask, Task, TypeOK, PcInv, MaskInv, EventInv, CauseInv, Setting
<1> QED
    BY <1>1, <1>2, <1>3, <1>4, <1>5

\* What changes the pin's setting does so while the pin is masked.
LEMMA SetUpHolds ==
    ASSUME GpioInv, SetFunction \/ SetEdge \/ SetIcr
    PROVE  GpioInv'
<1> USE DEF GpioInv, Attaching, Detaching, Masked, registers, call, handlerVars
<1>1. CASE SetFunction
  <2>1. \A p \in Pins \ {pin} : Setting(p)' = Setting(p)
    BY <1>1 DEF SetFunction, Task, TypeOK, Setting
  <2>2. TypeOK' /\ PcInv' /\ MaskInv' /\ CauseInv'
    BY <1>1 DEF SetFunction, Task, TypeOK, PcInv, MaskInv, CauseInv
  <2> QED
    BY <1>1, <2>1, <2>2 DEF SetFunction, Task, TypeOK, MaskInv, EventInv
<1>2. CASE SetEdge
  <2>1. \A p \in Pins \ {pin} : Setting(p)' = Setting(p)
    BY <1>2 DEF SetEdge, Task, TypeOK, Setting
  <2>2. TypeOK' /\ PcInv' /\ MaskInv' /\ CauseInv'
    BY <1>2 DEF SetEdge, Task, TypeOK, PcInv, MaskInv, CauseInv
  <2> QED
    BY <1>2, <2>1, <2>2 DEF SetEdge, Task, TypeOK, MaskInv, EventInv
<1>3. CASE SetIcr
  <2>1. \A p \in Pins \ {pin} : Setting(p)' = Setting(p)
    BY <1>3 DEF SetIcr, Task, TypeOK, Setting
  <2>2. Icr(mode) \in 0 .. 3
    BY <1>3 DEF SetIcr, Task, PcInv, KnownModes, Icr
  <2>3. TypeOK' /\ PcInv' /\ MaskInv' /\ CauseInv'
    BY <1>3, <2>2 DEF SetIcr, Task, TypeOK, PcInv, MaskInv, CauseInv
  <2> QED
    BY <1>3, <2>1, <2>3 DEF SetIcr, Task, TypeOK, MaskInv, EventInv
<1> QED
    BY <1>1, <1>2, <1>3

\* The end of attachInterrupt: what is pending from before is cleared, so that
\* what is pending when the pin is unmasked is the new setting's.
LEMMA EnableHolds ==
    ASSUME GpioInv, ClearPending \/ Unmask
    PROVE  GpioInv'
<1> USE DEF GpioInv, Attaching, Detaching, Masked, registers, call, handlerVars
<1>1. CASE ClearPending
    BY <1>1 DEF ClearPending, Task, TypeOK, PcInv, MaskInv, EventInv, CauseInv, Setting
<1>2. CASE Unmask
    BY <1>2 DEF Unmask, Task, TypeOK, PcInv, MaskInv, EventInv, CauseInv, Setting
<1> QED
    BY <1>1, <1>2

\* An event, whenever it occurs, and irq_anyport, wherever it interrupts.
LEMMA InterruptHolds ==
    ASSUME GpioInv,
           (\E p \in Pins : Event(p)) \/ ReadStatus \/ ClearStatus \/ CallFunction
    PROVE  GpioInv'
<1> USE DEF GpioInv, Attaching, Detaching, Masked, registers, call, handlerVars
<1>1. ASSUME NEW p \in Pins, Event(p)
      PROVE  GpioInv'
  <2>1. \A q \in Pins : Setting(q)' = Setting(q)
    BY <1>1 DEF Event, Setting
  <2>2. TypeOK' /\ PcInv' /\ MaskInv' /\ CauseInv'
    BY <1>1 DEF Event, TypeOK, PcInv, MaskInv, CauseInv
  <2>3. \A q \in Pins : cause'[q] = IF q = p THEN Setting(p) ELSE cause[q]
    BY <1>1 DEF Event, CauseInv
  <2> QED
    BY <1>1, <2>1, <2>2, <2>3 DEF Event, TypeOK, EventInv
<1>2. CASE ReadStatus
    BY <1>2 DEF ReadStatus, TypeOK, PcInv, MaskInv, EventInv, CauseInv, Setting
<1>3. CASE ClearStatus
    BY <1>3 DEF ClearStatus, TypeOK, PcInv, MaskInv, EventInv, CauseInv, Setting
<1>4. CASE CallFunction
    BY <1>4 DEF CallFunction, TypeOK, PcInv, MaskInv, EventInv, CauseInv, Setting
<1> QED
    BY <1>1, <1>2, <1>3, <1>4

\* Every step of a task, of a pin or of the handler keeps the invariant.
LEMMA GpioStep ==
    GpioInv /\ [Next]_vars => GpioInv'
<1> SUFFICES ASSUME GpioInv, [Next]_vars
             PROVE  GpioInv'
    OBVIOUS
<1>1. CASE UNCHANGED vars
    BY <1>1 DEF vars, registers, call, handlerVars, GpioInv, TypeOK, PcInv, MaskInv,
                EventInv, CauseInv, Setting
<1>2. CASE Next
    BY <1>2, CallHolds, SetUpHolds, EnableHolds, InterruptHolds DEF Next
<1> QED
    BY <1>1, <1>2

\* The inductive invariant of the pin interrupts holds for every set of pins,
\* callbacks and modes, in particular every variable keeps to its type.
THEOREM GpioInvCorrect ==
    TargetSpec => []GpioInv
<1>1. TargetInit => Init
    BY DEF TargetInit
<1> QED
    BY <1>1, GpioInit, GpioStep, GpioOrStutter, PTL DEF TargetSpec

\* The port's registers, the table and the handler's copy keep to their types.
THEOREM GpioTypeCorrect ==
    TargetSpec => []TypeOK
<1>1. GpioInv => TypeOK
    BY DEF GpioInv
<1> QED
    BY <1>1, GpioInvCorrect, PTL

\* A callback runs only for an event that occurred when its pin was completely
\* set up for it, wherever irq_anyport interrupts attachInterrupt and
\* detachInterrupt (gpio_interrupt.c:120-156).
THEOREM CallbackForItsEventCorrect ==
    TargetSpec => []CallbackForItsEvent
<1>1. ASSUME GpioInv
      PROVE  CallbackForItsEvent
    BY <1>1, IndexIsInStatus DEF GpioInv, TypeOK, EventInv, CallbackForItsEvent
<1> QED
    BY <1>1, GpioInvCorrect, PTL

-----------------------------------------------------------------------------
(* The clock command.                                                      *)

\* The frequencies whose half period is longer than what the port write and the
\* fix take, those that need no delay, and the one that is refused.
ClocksAreSafe ==
    \A clock \in Clocks :
        \/ clock = 0
        \/ clock >= Clock!MAX_SWJ_CLOCK(Clock!DELAY_FAST_CYCLES)
        \/ (Clock!HalfClock - 1) \div clock >= Clock!IO_PORT_WRITE_CYCLES + Clock!DelayFix

\* What DAP_Data holds is what Set_Clock_Delay computes for the last frequency
\* granted.
ClockInv ==
    /\ asked \in Clocks \union {Clock!NoClock}
    /\ asked # Clock!NoClock /\ ~fast_clock =>
          /\ ~(asked >= Clock!MAX_SWJ_CLOCK(Clock!DELAY_FAST_CYCLES))
          /\ clock_delay = Clock!SlowDelay(asked)

\* Rounding a quotient up by adding the divisor less one, as Set_Clock_Delay does.
LEMMA RoundingUp ==
    ASSUME NEW m \in Nat \ {0}, NEW c \in Nat \ {0}
    PROVE  (m + (c - 1)) \div c = (m - 1) \div c + 1
    OBVIOUS

\* In the branch that is not fast no addition overflows, and the delay is the
\* rounded quotient.
LEMMA SlowDelayIs ==
    ASSUME NEW clock \in Nat \ {0},
           ~(clock >= Clock!MAX_SWJ_CLOCK(Clock!DELAY_FAST_CYCLES))
    PROVE  LET delay == (Clock!HalfClock - 1) \div clock + 1
           IN  /\ Clock!HalfClock \in Nat \ {0}
               /\ delay \in Nat
               /\ delay =< Clock!HalfClock
               /\ Clock!SlowDelay(clock) =
                     IF delay > 2 THEN Clock!Minus(delay - 2, 16) ELSE 1
<1> DEFINE delay == (Clock!HalfClock - 1) \div clock + 1
<1>1. /\ Clock!HalfClock \in Nat
      /\ 2 * Clock!HalfClock =< CPU_CLOCK
    BY ClockAssumption DEF Clock!HalfClock
<1>2. 2 * clock =< Clock!HalfClock
    BY <1>1 DEF Clock!MAX_SWJ_CLOCK, Clock!DELAY_FAST_CYCLES, Clock!IO_PORT_WRITE_CYCLES
<1>3. Clock!Uint32(Clock!HalfClock + (clock - 1)) = Clock!HalfClock + (clock - 1)
    BY <1>1, <1>2, ClockAssumption DEF Clock!Uint32
<1>4. (Clock!HalfClock + (clock - 1)) \div clock = delay
    BY <1>1, <1>2, RoundingUp
<1>5. /\ delay \in Nat
      /\ delay =< Clock!HalfClock
    BY <1>1, <1>2
<1>6. ASSUME NEW d \in Nat
      PROVE  d > 2 => (d - 2 + (1 - 1)) \div 1 = d - 2
    OBVIOUS
<1> QED
    BY <1>1, <1>2, <1>3, <1>4, <1>5, <1>6
    DEF Clock!SlowDelay, Clock!IO_PORT_WRITE_CYCLES, Clock!DELAY_SLOW_CYCLES,
        Clock!DelayFix

\* A clock command leaves the delay that its frequency asks for (task_cmsis_dap.c:
\* 29-52); one that is refused leaves everything.
LEMMA ClockStep ==
    ClockInv /\ [Clock!Next]_(Clock!vars) => ClockInv'
<1> SUFFICES ASSUME ClockInv, [Clock!Next]_(Clock!vars)
             PROVE  ClockInv'
    OBVIOUS
<1>1. CASE UNCHANGED Clock!vars
    BY <1>1 DEF ClockInv, Clock!vars
<1>2. ASSUME NEW clock \in Clocks, clock = 0, Clock!CmsisDapSwjClock(clock)
      PROVE  ClockInv'
    BY <1>2 DEF ClockInv, Clock!CmsisDapSwjClock
<1>3. ASSUME NEW clock \in Clocks, clock # 0, Clock!CmsisDapSwjClock(clock)
      PROVE  ClockInv'
  <2>1. asked' = clock /\ Clock!Set_Clock_Delay(clock)
    BY <1>3 DEF Clock!CmsisDapSwjClock
  <2>2. CASE clock >= Clock!MAX_SWJ_CLOCK(Clock!DELAY_FAST_CYCLES)
    BY <2>1, <2>2 DEF ClockInv, Clock!Set_Clock_Delay
  <2>3. CASE ~(clock >= Clock!MAX_SWJ_CLOCK(Clock!DELAY_FAST_CYCLES))
    <3>1. clock_delay' = Clock!SlowDelay(asked')
      BY <2>1, <2>3 DEF Clock!Set_Clock_Delay
    <3> QED
      BY <2>1, <2>3, <3>1 DEF ClockInv
  <2> QED
    BY <2>2, <2>3
<1> QED
    BY <1>1, <1>2, <1>3 DEF Clock!Next

\* DAP_Data always fits the frequency granted last.
THEOREM ClockInvCorrect ==
    TargetSpec => []ClockInv
<1>1. TargetInit => ClockInv
    BY DEF TargetInit, Clock!Init, ClockInv, Clock!NoClock
<1> QED
    BY <1>1, ClockStep, ClockOrStutter, PTL DEF TargetSpec

\* The delay stays in its word, and is 1 whenever the fast loop is chosen.
THEOREM ClockTypeCorrect ==
    TargetSpec => []Clock!TypeOK
<1>1. TargetInit => Clock!TypeOK
  <2>1. 1 \in 0 .. UINT32 - 1
    BY ClockAssumption
  <2> QED
    BY <2>1 DEF TargetInit, Clock!Init, Clock!TypeOK
<1>2. ASSUME NEW n \in Int
      PROVE  Clock!Uint32(n) \in 0 .. UINT32 - 1
    BY ClockAssumption DEF Clock!Uint32
<1>3. ASSUME NEW clock \in Clocks, clock # 0
      PROVE  ~(clock >= Clock!MAX_SWJ_CLOCK(Clock!DELAY_FAST_CYCLES))
                 => Clock!SlowDelay(clock) \in 0 .. UINT32 - 1
    BY <1>2, <1>3, SlowDelayIs, ClockAssumption DEF Clock!Minus
<1>4. 1 \in 0 .. UINT32 - 1
    BY ClockAssumption
<1>5. ASSUME Clock!TypeOK, NEW clock \in Clocks, Clock!CmsisDapSwjClock(clock)
      PROVE  Clock!TypeOK'
  <2>1. CASE clock = 0
    BY <1>5, <2>1 DEF Clock!CmsisDapSwjClock, Clock!TypeOK
  <2>2. CASE clock # 0 /\ clock >= Clock!MAX_SWJ_CLOCK(Clock!DELAY_FAST_CYCLES)
    BY <1>4, <1>5, <2>2 DEF Clock!CmsisDapSwjClock, Clock!Set_Clock_Delay, Clock!TypeOK
  <2>3. CASE clock # 0 /\ ~(clock >= Clock!MAX_SWJ_CLOCK(Clock!DELAY_FAST_CYCLES))
    BY <1>3, <1>5, <2>3 DEF Clock!CmsisDapSwjClock, Clock!Set_Clock_Delay, Clock!TypeOK
  <2> QED
    BY <2>1, <2>2, <2>3
<1>6. Clock!TypeOK /\ [Clock!Next]_(Clock!vars) => Clock!TypeOK'
    BY <1>5 DEF Clock!TypeOK, Clock!vars, Clock!Next
<1> QED
    BY <1>1, <1>6, ClockOrStutter, PTL DEF TargetSpec

\* The target is never clocked faster than the host asked, for every frequency a
\* request can hold (task_cmsis_dap.c:39-49): where the subtraction of the fix
\* wraps, the delay is too long and not too short.
THEOREM NeverFasterThanAskedCorrect ==
    TargetSpec => []NeverFasterThanAsked
<1>1. ASSUME ClockInv, Clock!InSlowMode
      PROVE  Clock!HalfPeriod > (Clock!HalfClock - 1) \div asked
  <2> DEFINE delay == (Clock!HalfClock - 1) \div asked + 1
  <2>1. /\ asked \in Nat \ {0}
        /\ ~(asked >= Clock!MAX_SWJ_CLOCK(Clock!DELAY_FAST_CYCLES))
        /\ clock_delay = Clock!SlowDelay(asked)
    BY <1>1, ClockAssumption DEF ClockInv, Clock!InSlowMode, Clock!NoClock
  <2>2. /\ Clock!HalfClock \in Nat \ {0}
        /\ delay \in Nat
        /\ delay =< Clock!HalfClock
        /\ clock_delay = IF delay > 2 THEN Clock!Minus(delay - 2, 16) ELSE 1
    BY <2>1, SlowDelayIs
  <2>3. delay < UINT32
    BY <2>2, ClockAssumption DEF Clock!HalfClock
  <2>4. /\ (Clock!HalfClock - 1) \div asked \in Int
        /\ (Clock!HalfClock - 1) \div asked < delay
    BY <2>1, <2>2
  <2> HIDE DEF delay
  <2>5. CASE delay > 18
    <3>1. clock_delay = delay - 18
      BY <2>2, <2>3, <2>5, ClockAssumption DEF Clock!Minus, Clock!Uint32
    <3> QED
      BY <2>2, <2>4, <2>5, <3>1
      DEF Clock!HalfPeriod, Clock!IO_PORT_WRITE_CYCLES, Clock!DelayFix
  <2>6. CASE delay =< 18
    <3>1. clock_delay \in Nat
      BY <2>2, <2>6, ClockAssumption DEF Clock!Minus, Clock!Uint32
    <3> QED
      BY <2>2, <2>4, <2>6, <3>1, ClockAssumption
      DEF Clock!HalfPeriod, Clock!IO_PORT_WRITE_CYCLES, Clock!DelayFix
  <2> QED
    BY <2>2, <2>5, <2>6
<1>2. ClockInv => NeverFasterThanAsked
    BY <1>1 DEF NeverFasterThanAsked, Clock!NeverFasterThanAsked
<1> QED
    BY <1>2, ClockInvCorrect, PTL

\* Nor is it clocked slower than a processor cycle's resolution makes necessary
\* (task_cmsis_dap.c:24-25), where the half period leaves room for the fix.
THEOREM NoSlowerThanNeededCorrect ==
    ASSUME ClocksAreSafe
    PROVE  TargetSpec => []NoSlowerThanNeeded
<1>1. ASSUME ClockInv, Clock!InSlowMode
      PROVE  Clock!HalfPeriod =< (Clock!HalfClock - 1) \div asked + 1
  <2> DEFINE delay == (Clock!HalfClock - 1) \div asked + 1
  <2>1. /\ asked \in Clocks /\ asked \in Nat \ {0}
        /\ ~(asked >= Clock!MAX_SWJ_CLOCK(Clock!DELAY_FAST_CYCLES))
        /\ clock_delay = Clock!SlowDelay(asked)
    BY <1>1, ClockAssumption DEF ClockInv, Clock!InSlowMode, Clock!NoClock
  <2>2. /\ Clock!HalfClock \in Nat \ {0}
        /\ delay \in Nat
        /\ delay =< Clock!HalfClock
        /\ clock_delay = IF delay > 2 THEN Clock!Minus(delay - 2, 16) ELSE 1
    BY <2>1, SlowDelayIs
  <2>3. Clock!MAX_SWJ_CLOCK(Clock!DELAY_FAST_CYCLES) \in Nat
    BY <2>2 DEF Clock!MAX_SWJ_CLOCK, Clock!DELAY_FAST_CYCLES, Clock!IO_PORT_WRITE_CYCLES
  <2>4. delay > 18
    BY <2>1, <2>2, <2>3 DEF ClocksAreSafe, Clock!IO_PORT_WRITE_CYCLES, Clock!DelayFix
  <2>5. delay < UINT32
    BY <2>2, ClockAssumption DEF Clock!HalfClock
  <2>6. clock_delay = delay - 18
    BY <2>2, <2>4, <2>5, ClockAssumption DEF Clock!Minus, Clock!Uint32
  <2> QED
    BY <2>2, <2>4, <2>6 DEF Clock!HalfPeriod, Clock!IO_PORT_WRITE_CYCLES, Clock!DelayFix
<1>2. ClockInv => NoSlowerThanNeeded
    BY <1>1 DEF NoSlowerThanNeeded, Clock!NoSlowerThanNeeded
<1> QED
    BY <1>2, ClockInvCorrect, PTL

-----------------------------------------------------------------------------
(* The SWD self-test.  Its operations are known by number, so the invariant *)
(* says where the target is when the test is at each of them: the target    *)
(* has seen 64 high clocks before each bit that would break a line reset,   *)
(* and it drives the line only between the two turns.                       *)

\* The operations the test consists of.
SwdOps == {Swd!Op(name) : name \in {"setup", "clock", "disable", "enable", "parity"}}
             \cup [op : {"write", "ack", "data"}, bit : Nat]

\* A sequence of n operations.
Code(s, n) == s \in Seq(SwdOps) /\ Len(s) = n

\* A function on 1 .. n is such a sequence.
LEMMA CodeOf ==
    ASSUME NEW n \in Nat, NEW s \in [1 .. n -> SwdOps]
    PROVE  Code(s, n)
<1>1. s \in Seq(SwdOps)
    OBVIOUS
<1>2. Len(s) \in Nat /\ DOMAIN s = 1 .. Len(s)
    BY <1>1, LenProperties
<1>3. 1 .. Len(s) = 1 .. n
    BY <1>2
<1>4. Len(s) =< n /\ n =< Len(s)
    BY <1>2, <1>3
<1>5. \A m \in Nat : m =< n /\ n =< m => m = n
    OBVIOUS
<1> QED
    BY <1>1, <1>2, <1>4, <1>5, Zenon DEF Code

\* u is s with t behind it.
Joins(u, s, t) == u = s \o t

\* What is where in two sequences one behind the other.
LEMMA Joined ==
    ASSUME NEW u, NEW s, NEW t, Joins(u, s, t),
           NEW m \in Nat, NEW n \in Nat, Code(s, m), Code(t, n)
    PROVE  /\ Code(u, m + n)
           /\ \A i \in 1 .. m : u[i] = s[i]
           /\ \A i \in 1 .. n : u[m + i] = t[i]
<1>0. s \in Seq(SwdOps) /\ t \in Seq(SwdOps) /\ Len(s) = m /\ Len(t) = n
    BY DEF Code
<1>1. /\ u \in Seq(SwdOps)
      /\ Len(u) = Len(s) + Len(t)
      /\ \A i \in 1 .. Len(s) + Len(t) :
            u[i] = IF i =< Len(s) THEN s[i] ELSE t[i - Len(s)]
    BY <1>0, ConcatProperties, Zenon DEF Joins
<1>2. Code(u, m + n)
    BY <1>0, <1>1 DEF Code
<1>3. \A i \in 1 .. m + n : u[i] = IF i =< m THEN s[i] ELSE t[i - m]
    BY <1>0, <1>1
<1>4. ASSUME NEW i \in 1 .. n
      PROVE  u[m + i] = t[i]
  <2>1. m + i \in 1 .. m + n /\ ~(m + i =< m) /\ (m + i) - m = i
    OBVIOUS
  <2> QED
    BY <1>3, <2>1
<1>5. \A i \in 1 .. m : u[i] = s[i]
    BY <1>3
<1> QED
    BY <1>2, <1>4, <1>5

\* SWD_WRITE_BIT as an operation (test_swd_read_id.c:25-30).
Write(bit) == [op |-> "write", bit |-> bit]

\* The operations that come alone: the set-up, the turns, the parity bit.
LEMMA SingleOps ==
    ASSUME NEW name \in {"setup", "clock", "disable", "enable", "parity"}
    PROVE  Code(<<Swd!Op(name)>>, 1) /\ <<Swd!Op(name)>>[1] = Swd!Op(name)
<1>1. Swd!Op(name) \in SwdOps
    BY DEF SwdOps
<1>2. <<Swd!Op(name)>> \in [1 .. 1 -> SwdOps]
    BY <1>1
<1> QED
    BY <1>2, CodeOf

\* SWD_CLK in a loop is that many clocks (test_swd_read_id.c:146-149).
LEMMA ClockOps ==
    ASSUME NEW n \in Nat
    PROVE  Code(Swd!SWD_CLK(n), n) /\ \A i \in 1 .. n : Swd!SWD_CLK(n)[i] = Swd!Op("clock")
<1>1. Swd!Op("clock") \in SwdOps
    BY DEF SwdOps
<1>2. Swd!SWD_CLK(n) \in [1 .. n -> SwdOps]
    BY <1>1 DEF Swd!SWD_CLK
<1> QED
    BY <1>2, CodeOf DEF Swd!SWD_CLK

\* What swd_write_byte puts on the line, the least significant bit first
\* (test_swd_read_id.c:59-67).
LEMMA WriteOps ==
    /\ \A data \in {158, 231, 0, Swd!SW_IDCODE_RD} : Code(Swd!swd_write_byte(data), 8)
    /\ \A i \in 1 .. 8 : Swd!swd_write_byte(158)[i] = Write(Swd!SelectBits[i])
    /\ \A i \in 1 .. 8 : Swd!swd_write_byte(231)[i] = Write(Swd!SelectBits[8 + i])
    /\ \A i \in 1 .. 8 : Swd!swd_write_byte(0)[i] = Write(0)
    /\ \A i \in 1 .. 8 : Swd!swd_write_byte(Swd!SW_IDCODE_RD)[i] = Write(Swd!RequestBits[i])
<1>1. Swd!swd_write_byte(158) = <<Write(0), Write(1), Write(1), Write(1),
                              Write(1), Write(0), Write(0), Write(1)>>
    BY DEF Swd!swd_write_byte, Write
<1>2. Swd!swd_write_byte(231) = <<Write(1), Write(1), Write(1), Write(0),
                              Write(0), Write(1), Write(1), Write(1)>>
    BY DEF Swd!swd_write_byte, Write
<1>3. Swd!swd_write_byte(0) = <<Write(0), Write(0), Write(0), Write(0),
                            Write(0), Write(0), Write(0), Write(0)>>
    BY DEF Swd!swd_write_byte, Write
<1>4. Swd!swd_write_byte(Swd!SW_IDCODE_RD) = <<Write(1), Write(0), Write(1), Write(0),
                                       Write(0), Write(1), Write(0), Write(1)>>
    BY DEF Swd!swd_write_byte, Write, Swd!SW_IDCODE_RD
<1>5. Write(0) \in SwdOps /\ Write(1) \in SwdOps
    BY DEF SwdOps, Write
<1>6. \A data \in {158, 231, 0, Swd!SW_IDCODE_RD} :
          Swd!swd_write_byte(data) \in [1 .. 8 -> SwdOps]
    BY <1>1, <1>2, <1>3, <1>4, <1>5
<1>7. \A data \in {158, 231, 0, Swd!SW_IDCODE_RD} : Code(Swd!swd_write_byte(data), 8)
    BY <1>6, CodeOf
<1>8. ASSUME NEW i \in 1 .. 8
      PROVE  /\ Swd!swd_write_byte(158)[i] = Write(Swd!SelectBits[i])
             /\ Swd!swd_write_byte(231)[i] = Write(Swd!SelectBits[8 + i])
             /\ Swd!swd_write_byte(0)[i] = Write(0)
             /\ Swd!swd_write_byte(Swd!SW_IDCODE_RD)[i] = Write(Swd!RequestBits[i])
  <2>1. \/ i = 1 \/ i = 2 \/ i = 3 \/ i = 4 \/ i = 5 \/ i = 6 \/ i = 7 \/ i = 8
    OBVIOUS
  <2> QED
    BY <1>1, <1>2, <1>3, <1>4, <2>1 DEF Swd!SelectBits, Swd!RequestBits
<1> QED
    BY <1>7, <1>8

\* The bit of id_code that is read n clocks into the data: the bytes come in
\* order, the bits of a byte are shifted in from the right.
ReadBit(n) == 8 * (n \div 8) + 7 - (n % 8)
Data(n) == [op |-> "data", bit |-> ReadBit(n)]

\* The reads of the acknowledgement and of a byte (test_swd_read_id.c:69-81).
LEMMA ReadOps ==
    /\ Code(Swd!SWD_READ_ACK, 3)
    /\ \A i \in 1 .. 3 : Swd!SWD_READ_ACK[i] = [op |-> "ack", bit |-> i]
    /\ \A byte \in 0 .. 3 :
          /\ Code(Swd!swd_read_byte(byte), 8)
          /\ \A i \in 1 .. 8 :
                Swd!swd_read_byte(byte)[i] = Data(8 * byte + i - 1)
<1>1. Swd!SWD_READ_ACK \in [1 .. 3 -> SwdOps]
    BY DEF Swd!SWD_READ_ACK, SwdOps
<1>2. \A i \in 1 .. 3 : Swd!SWD_READ_ACK[i] = [op |-> "ack", bit |-> i]
    BY DEF Swd!SWD_READ_ACK
<1>3. ASSUME NEW byte \in 0 .. 3
      PROVE  /\ Swd!swd_read_byte(byte) \in [1 .. 8 -> SwdOps]
             /\ \A i \in 1 .. 8 :
                   Swd!swd_read_byte(byte)[i] = Data(8 * byte + i - 1)
  <2>1. \A i \in 1 .. 8 : 8 * byte + 8 - i \in Nat
    OBVIOUS
  <2>2. \A i \in 1 .. 8 : ReadBit(8 * byte + i - 1) = 8 * byte + 8 - i
    BY DEF ReadBit
  <2> QED
    BY <2>1, <2>2 DEF Swd!swd_read_byte, SwdOps, Data
<1> QED
    BY <1>1, <1>2, <1>3, CodeOf

\* swd_packet, operation by operation.
LEMMA PacketOps ==
    LET s == Swd!swd_packet(Swd!SW_IDCODE_RD)
    IN  /\ Code(s, 48)
        /\ \A i \in 1 .. 8 : s[i] = Write(Swd!RequestBits[i])
        /\ s[9] = Swd!Op("disable") /\ s[10] = Swd!Op("clock")
        /\ \A i \in 1 .. 3 : s[10 + i] = [op |-> "ack", bit |-> i]
        /\ \A n \in 0 .. 31 : s[14 + n] = Data(n)
        /\ s[46] = Swd!Op("parity") /\ s[47] = Swd!Op("enable") /\ s[48] = Write(1)
<1> DEFINE s1 == Swd!swd_write_byte(Swd!SW_IDCODE_RD) \o <<Swd!Op("disable")>>
           s2 == s1 \o Swd!SWD_CLK(1)
           s3 == s2 \o Swd!SWD_READ_ACK
           s4 == s3 \o Swd!swd_read_byte(0)
           s5 == s4 \o Swd!swd_read_byte(1)
           s6 == s5 \o Swd!swd_read_byte(2)
           s7 == s6 \o Swd!swd_read_byte(3)
           s8 == s7 \o <<Swd!Op("parity")>>
           last == <<Swd!Op("enable"), [op |-> "write", bit |-> 1]>>
           s9 == s8 \o last
<1>0. /\ Joins(s1, Swd!swd_write_byte(Swd!SW_IDCODE_RD), <<Swd!Op("disable")>>)
      /\ Joins(s2, s1, Swd!SWD_CLK(1)) /\ Joins(s3, s2, Swd!SWD_READ_ACK)
      /\ Joins(s4, s3, Swd!swd_read_byte(0)) /\ Joins(s5, s4, Swd!swd_read_byte(1))
      /\ Joins(s6, s5, Swd!swd_read_byte(2)) /\ Joins(s7, s6, Swd!swd_read_byte(3))
      /\ Joins(s8, s7, <<Swd!Op("parity")>>) /\ Joins(s9, s8, last)
      /\ s9 = Swd!swd_packet(Swd!SW_IDCODE_RD)
    BY Zenon DEF Joins, Swd!swd_packet
<1>a. Code(last, 2) /\ last[1] = Swd!Op("enable") /\ last[2] = Write(1)
  <2>1. last \in [1 .. 2 -> SwdOps]
    BY DEF SwdOps, Swd!Op
  <2> QED
    BY <2>1, CodeOf DEF Write
<1> HIDE DEF s1, s2, s3, s4, s5, s6, s7, s8, s9, last
<1>1. /\ Code(s1, 9)
      /\ \A i \in 1 .. 8 : s1[i] = Write(Swd!RequestBits[i])
      /\ s1[9] = Swd!Op("disable")
    BY <1>0, Joined, WriteOps, SingleOps, 8 + 1 = 9
<1>2. /\ Code(s2, 10)
      /\ \A i \in 1 .. 9 : s2[i] = s1[i]
      /\ s2[10] = Swd!Op("clock")
    BY <1>0, <1>1, Joined, ClockOps, 9 + 1 = 10
<1>3. /\ Code(s3, 13)
      /\ \A i \in 1 .. 10 : s3[i] = s2[i]
      /\ \A i \in 1 .. 3 : s3[10 + i] = Swd!SWD_READ_ACK[i]
    BY <1>0, <1>2, Joined, ReadOps, 10 + 3 = 13
<1>4. /\ Code(s4, 21)
      /\ \A i \in 1 .. 13 : s4[i] = s3[i]
      /\ \A i \in 1 .. 8 : s4[13 + i] = Swd!swd_read_byte(0)[i]
    BY <1>0, <1>3, Joined, ReadOps, 13 + 8 = 21
<1>5. /\ Code(s5, 29)
      /\ \A i \in 1 .. 21 : s5[i] = s4[i]
      /\ \A i \in 1 .. 8 : s5[21 + i] = Swd!swd_read_byte(1)[i]
    BY <1>0, <1>4, Joined, ReadOps, 21 + 8 = 29
<1>6. /\ Code(s6, 37)
      /\ \A i \in 1 .. 29 : s6[i] = s5[i]
      /\ \A i \in 1 .. 8 : s6[29 + i] = Swd!swd_read_byte(2)[i]
    BY <1>0, <1>5, Joined, ReadOps, 29 + 8 = 37
<1>7. /\ Code(s7, 45)
      /\ \A i \in 1 .. 37 : s7[i] = s6[i]
      /\ \A i \in 1 .. 8 : s7[37 + i] = Swd!swd_read_byte(3)[i]
    BY <1>0, <1>6, Joined, ReadOps, 37 + 8 = 45
<1>8. /\ Code(s8, 46)
      /\ \A i \in 1 .. 45 : s8[i] = s7[i]
      /\ s8[46] = Swd!Op("parity")
    BY <1>0, <1>7, Joined, SingleOps, 45 + 1 = 46
<1>9. /\ Code(s9, 48)
      /\ \A i \in 1 .. 46 : s9[i] = s8[i]
      /\ \A i \in 1 .. 2 : s9[46 + i] = last[i]
  <2>1. Code(last, 2)
    BY <1>a
  <2>2. 46 \in Nat /\ 2 \in Nat /\ 46 + 2 = 48
    OBVIOUS
  <2> QED
    BY <1>0, <1>8, <2>1, <2>2, Joined
<1>10. \A i \in 1 .. 8 : s9[i] = Write(Swd!RequestBits[i])
    BY <1>1, <1>2, <1>3, <1>4, <1>5, <1>6, <1>7, <1>8, <1>9
<1>11. s9[9] = Swd!Op("disable") /\ s9[10] = Swd!Op("clock")
    BY <1>1, <1>2, <1>3, <1>4, <1>5, <1>6, <1>7, <1>8, <1>9
<1>12. \A i \in 1 .. 3 : s9[10 + i] = [op |-> "ack", bit |-> i]
    BY <1>3, <1>4, <1>5, <1>6, <1>7, <1>8, <1>9, ReadOps
<1>13. ASSUME NEW n \in 0 .. 31
       PROVE  s9[14 + n] = Data(n)
  <2>1. CASE n \in 0 .. 7
    <3>1. s9[13 + (n + 1)] = Swd!swd_read_byte(0)[n + 1]
      BY <1>4, <1>5, <1>6, <1>7, <1>8, <1>9, <2>1
    <3>2. n + 1 \in 1 .. 8 /\ 8 * 0 + (n + 1) - 1 = n /\ 13 + (n + 1) = 14 + n
      BY <2>1
    <3> QED
      BY <3>1, <3>2, ReadOps
  <2>2. CASE n \in 8 .. 15
    <3>1. s9[21 + (n - 7)] = Swd!swd_read_byte(1)[n - 7]
      BY <1>5, <1>6, <1>7, <1>8, <1>9, <2>2
    <3>2. n - 7 \in 1 .. 8 /\ 8 * 1 + (n - 7) - 1 = n /\ 21 + (n - 7) = 14 + n
      BY <2>2
    <3> QED
      BY <3>1, <3>2, ReadOps
  <2>3. CASE n \in 16 .. 23
    <3>1. s9[29 + (n - 15)] = Swd!swd_read_byte(2)[n - 15]
      BY <1>6, <1>7, <1>8, <1>9, <2>3
    <3>2. n - 15 \in 1 .. 8 /\ 8 * 2 + (n - 15) - 1 = n /\ 29 + (n - 15) = 14 + n
      BY <2>3
    <3> QED
      BY <3>1, <3>2, ReadOps
  <2>4. CASE n \in 24 .. 31
    <3>1. s9[37 + (n - 23)] = Swd!swd_read_byte(3)[n - 23]
      BY <1>7, <1>8, <1>9, <2>4
    <3>2. n - 23 \in 1 .. 8 /\ 8 * 3 + (n - 23) - 1 = n /\ 37 + (n - 23) = 14 + n
      BY <2>4
    <3> QED
      BY <3>1, <3>2, ReadOps
  <2> QED
    BY <2>1, <2>2, <2>3, <2>4
<1>14. s9[46] = Swd!Op("parity") /\ s9[47] = Swd!Op("enable") /\ s9[48] = Write(1)
    BY <1>8, <1>9, <1>a, 46 + 1 = 47, 46 + 2 = 48
<1> QED
    BY <1>0, <1>9, <1>10, <1>11, <1>12, <1>13, <1>14


\* The whole test, operation by operation.
Program ==
    LET s == Swd!test_dap_connect
    IN  /\ Len(s) = 209
        /\ s[1] = Swd!Op("setup")
        /\ \A n \in (2 .. 65) \cup (82 .. 145) \cup {163} : s[n] = Swd!Op("clock")
        /\ \A i \in 1 .. 16 : s[65 + i] = Write(Swd!SelectBits[i])
        /\ \A n \in (146 .. 153) \cup (202 .. 209) : s[n] = Write(0)
        /\ \A i \in 1 .. 8 : s[153 + i] = Write(Swd!RequestBits[i])
        /\ s[162] = Swd!Op("disable")
        /\ \A i \in 1 .. 3 : s[163 + i] = [op |-> "ack", bit |-> i]
        /\ \A n \in 0 .. 31 : s[167 + n] = Data(n)
        /\ s[199] = Swd!Op("parity") /\ s[200] = Swd!Op("enable") /\ s[201] = Write(1)

\* The 209 operations of test_dap_connect (test_swd_read_id.c:134-182).
LEMMA TestOps == Program
<1> DEFINE s0 == <<Swd!Op("setup")>>
           s1 == s0 \o Swd!SWD_CLK(64)
           s2 == s1 \o Swd!swd_write_byte(158)
           s3 == s2 \o Swd!swd_write_byte(231)
           s4 == s3 \o Swd!SWD_CLK(64)
           s5 == s4 \o Swd!swd_write_byte(0)
           s6 == s5 \o Swd!swd_packet(Swd!SW_IDCODE_RD)
           s7 == s6 \o Swd!swd_write_byte(0)
<1>0. /\ Joins(s1, s0, Swd!SWD_CLK(64)) /\ Joins(s2, s1, Swd!swd_write_byte(158))
      /\ Joins(s3, s2, Swd!swd_write_byte(231)) /\ Joins(s4, s3, Swd!SWD_CLK(64))
      /\ Joins(s5, s4, Swd!swd_write_byte(0))
      /\ Joins(s6, s5, Swd!swd_packet(Swd!SW_IDCODE_RD))
      /\ Joins(s7, s6, Swd!swd_write_byte(0))
      /\ s7 = Swd!test_dap_connect
    BY Zenon DEF Joins, Swd!test_dap_connect
<1>a. Code(s0, 1) /\ s0[1] = Swd!Op("setup")
    BY SingleOps
<1> HIDE DEF s0, s1, s2, s3, s4, s5, s6, s7
<1>1. /\ Code(s1, 65)
      /\ s1[1] = s0[1]
      /\ \A i \in 1 .. 64 : s1[1 + i] = Swd!SWD_CLK(64)[i]
    BY <1>0, <1>a, Joined, ClockOps, 1 + 64 = 65
<1>2. /\ Code(s2, 73)
      /\ \A i \in 1 .. 65 : s2[i] = s1[i]
      /\ \A i \in 1 .. 8 : s2[65 + i] = Swd!swd_write_byte(158)[i]
    BY <1>0, <1>1, Joined, WriteOps, 65 + 8 = 73
<1>3. /\ Code(s3, 81)
      /\ \A i \in 1 .. 73 : s3[i] = s2[i]
      /\ \A i \in 1 .. 8 : s3[73 + i] = Swd!swd_write_byte(231)[i]
    BY <1>0, <1>2, Joined, WriteOps, 73 + 8 = 81
<1>4. /\ Code(s4, 145)
      /\ \A i \in 1 .. 81 : s4[i] = s3[i]
      /\ \A i \in 1 .. 64 : s4[81 + i] = Swd!SWD_CLK(64)[i]
    BY <1>0, <1>3, Joined, ClockOps, 81 + 64 = 145
<1>5. /\ Code(s5, 153)
      /\ \A i \in 1 .. 145 : s5[i] = s4[i]
      /\ \A i \in 1 .. 8 : s5[145 + i] = Swd!swd_write_byte(0)[i]
  <2>1. Code(Swd!swd_write_byte(0), 8)
    BY WriteOps
  <2>2. 145 \in Nat /\ 8 \in Nat /\ 145 + 8 = 153
    OBVIOUS
  <2>3. Joins(s5, s4, Swd!swd_write_byte(0))
    BY <1>0
  <2> QED
    BY <1>4, <2>1, <2>2, <2>3, Joined
<1>6. /\ Code(s6, 201)
      /\ \A i \in 1 .. 153 : s6[i] = s5[i]
      /\ \A i \in 1 .. 48 : s6[153 + i] = Swd!swd_packet(Swd!SW_IDCODE_RD)[i]
  <2>1. Code(Swd!swd_packet(Swd!SW_IDCODE_RD), 48)
    BY PacketOps
  <2>2. 153 \in Nat /\ 48 \in Nat /\ 153 + 48 = 201
    OBVIOUS
  <2>3. Joins(s6, s5, Swd!swd_packet(Swd!SW_IDCODE_RD))
    BY <1>0
  <2> QED
    BY <1>5, <2>1, <2>2, <2>3, Joined
<1>7. /\ Code(s7, 209)
      /\ \A i \in 1 .. 201 : s7[i] = s6[i]
      /\ \A i \in 1 .. 8 : s7[201 + i] = Swd!swd_write_byte(0)[i]
  <2>1. Code(Swd!swd_write_byte(0), 8)
    BY WriteOps
  <2>2. 201 \in Nat /\ 8 \in Nat /\ 201 + 8 = 209
    OBVIOUS
  <2>3. Joins(s7, s6, Swd!swd_write_byte(0))
    BY <1>0
  <2> QED
    BY <1>6, <2>1, <2>2, <2>3, Joined
<1>8. Len(s7) = 209
    BY <1>7 DEF Code
<1>9. s7[1] = Swd!Op("setup")
    BY <1>a, <1>1, <1>2, <1>3, <1>4, <1>5, <1>6, <1>7
<1>10. ASSUME NEW n \in (2 .. 65) \cup (82 .. 145) \cup {163}
       PROVE  s7[n] = Swd!Op("clock")
  <2>1. CASE n \in 2 .. 65
    <3>1. n - 1 \in 1 .. 64 /\ 1 + (n - 1) = n
      BY <2>1
    <3>2. s1[n] = Swd!Op("clock")
      BY <1>1, <3>1, ClockOps
    <3> QED
      BY <1>2, <1>3, <1>4, <1>5, <1>6, <1>7, <2>1, <3>2
  <2>2. CASE n \in 82 .. 145
    <3>1. n - 81 \in 1 .. 64 /\ 81 + (n - 81) = n
      BY <2>2
    <3>2. s4[n] = Swd!Op("clock")
      BY <1>4, <3>1, ClockOps
    <3> QED
      BY <1>5, <1>6, <1>7, <2>2, <3>2
  <2>3. CASE n = 163
    BY <1>6, <1>7, <2>3, PacketOps, 153 + 10 = 163
  <2> QED
    BY <2>1, <2>2, <2>3
<1>11. ASSUME NEW i \in 1 .. 16
       PROVE  s7[65 + i] = Write(Swd!SelectBits[i])
  <2>1. CASE i \in 1 .. 8
    <3>1. s7[65 + i] = s2[65 + i]
      BY <1>3, <1>4, <1>5, <1>6, <1>7, <2>1
    <3> QED
      BY <1>2, <2>1, <3>1, WriteOps
  <2>2. CASE i \in 9 .. 16
    <3>1. i - 8 \in 1 .. 8 /\ 73 + (i - 8) = 65 + i /\ 8 + (i - 8) = i
      BY <2>2
    <3>2. s7[65 + i] = s3[65 + i]
      BY <1>4, <1>5, <1>6, <1>7, <2>2
    <3> QED
      BY <1>3, <3>1, <3>2, WriteOps
  <2> QED
    BY <2>1, <2>2
<1>12. ASSUME NEW n \in (146 .. 153) \cup (202 .. 209)
       PROVE  s7[n] = Write(0)
  <2>1. CASE n \in 146 .. 153
    <3>1. n - 145 \in 1 .. 8 /\ 145 + (n - 145) = n
      BY <2>1
    <3> QED
      BY <1>5, <1>6, <1>7, <2>1, <3>1, WriteOps
  <2>2. CASE n \in 202 .. 209
    <3>1. n - 201 \in 1 .. 8 /\ 201 + (n - 201) = n
      BY <2>2
    <3> QED
      BY <1>7, <3>1, WriteOps
  <2> QED
    BY <2>1, <2>2
<1>13. \A i \in 1 .. 48 : s7[153 + i] = Swd!swd_packet(Swd!SW_IDCODE_RD)[i]
    BY <1>6, <1>7
<1>14. \A i \in 1 .. 8 : s7[153 + i] = Write(Swd!RequestBits[i])
    BY <1>13, PacketOps
<1>15. s7[162] = Swd!Op("disable")
    BY <1>13, PacketOps, 153 + 9 = 162
<1>16. ASSUME NEW i \in 1 .. 3
       PROVE  s7[163 + i] = [op |-> "ack", bit |-> i]
  <2>1. 10 + i \in 1 .. 48 /\ 153 + (10 + i) = 163 + i
    OBVIOUS
  <2> QED
    BY <1>13, <2>1, PacketOps
<1>17. ASSUME NEW n \in 0 .. 31
       PROVE  s7[167 + n] = Data(n)
  <2>1. 14 + n \in 1 .. 48 /\ 153 + (14 + n) = 167 + n
    OBVIOUS
  <2> QED
    BY <1>13, <2>1, PacketOps
<1>18. s7[199] = Swd!Op("parity") /\ s7[200] = Swd!Op("enable") /\ s7[201] = Write(1)
    BY <1>13, PacketOps, 153 + 46 = 199, 153 + 47 = 200, 153 + 48 = 201
<1> QED
    BY <1>0, <1>8, <1>9, <1>10, <1>11, <1>12, <1>14, <1>15, <1>16, <1>17, <1>18
    DEF Program

\* Where the target is when the test is at its next operation.
PhaseInv ==
    /\ at \in 1 .. 66 => state = "jtag" /\ k = 0
    /\ at \in 67 .. 81 => state = "select" /\ k = at - 66
    /\ at \in 82 .. 146 => state = "selected" /\ k = 0
    /\ at = 147 => state = "idle" /\ k = 1
    /\ at \in (148 .. 154) \cup (202 .. 210) => state = "idle" /\ k = 2
    /\ at \in 155 .. 161 => state = "request" /\ k = at - 154
    /\ at \in 162 .. 163 => state = "turn" /\ k = 0
    /\ at \in 164 .. 166 => state = "ack" /\ k = at - 163
    /\ at \in 167 .. 198 /\ reply = "OK" => state = "data" /\ k = at - 167
    /\ at = 199 /\ reply = "OK" => state = "parity" /\ k = 0
    /\ at \in 167 .. 199 /\ reply # "OK" => state = "release"
    /\ at \in 200 .. 201 => state = "release"

\* Who drives the line, and where the line is left high.
LineInv ==
    /\ at \in (2 .. 162) \cup (201 .. 210) => swdio_mode = "out"
    /\ at \in 163 .. 200 => swdio_mode = "in"
    /\ at \in (2 .. 66) \cup (82 .. 146) => swdio = 1

\* How long the line is at least high: a clock for a clock, up to a line reset.
AtMostReset(n) == IF n < Swd!LineReset THEN n ELSE Swd!LineReset

ResetInv ==
    /\ at \in 2 .. 66 => ones >= AtMostReset(at - 2)
    /\ at \in 82 .. 146 => ones >= AtMostReset(at - 82)

\* What has been read is what the target has sent.
AckBit(i) == Swd!SW_ACK(reply)[i]

ReadInv ==
    /\ at =< 164 => ack = << >>
    /\ at = 165 => ack = <<AckBit(1)>>
    /\ at = 166 => ack = <<AckBit(1), AckBit(2)>>
    /\ at >= 167 => ack = Swd!SW_ACK(reply)
    /\ reply = "OK" => \A n \in 0 .. 31 : n < at - 167 => id_code[ReadBit(n)] = n

\* The inductive invariant of the self-test.
SwdInv ==
    /\ Swd!PinsTypeOK
    /\ at \in 1 .. 210
    /\ id_code \in [0 .. 31 -> (0 .. 31) \cup {Swd!NotRead}]
    /\ ones \in 0 .. Swd!LineReset
    /\ reply \in Swd!Replies
    /\ PhaseInv /\ LineInv /\ ResetInv /\ ReadInv

\* The next operation is known from its number.
LEMMA OperationIs ==
    ASSUME at \in 1 .. 209
    PROVE  /\ ~Swd!Finished
           /\ at = 1 => Swd!Operation = Swd!Op("setup")
           /\ at \in (2 .. 65) \cup (82 .. 145) \cup {163} =>
                 Swd!Operation = Swd!Op("clock")
           /\ at \in 66 .. 81 => Swd!Operation = Write(Swd!SelectBits[at - 65])
           /\ at \in (146 .. 153) \cup (202 .. 209) => Swd!Operation = Write(0)
           /\ at \in 154 .. 161 => Swd!Operation = Write(Swd!RequestBits[at - 153])
           /\ at = 162 => Swd!Operation = Swd!Op("disable")
           /\ at \in 164 .. 166 => Swd!Operation = [op |-> "ack", bit |-> at - 163]
           /\ at \in 167 .. 198 => Swd!Operation = Data(at - 167)
           /\ at = 199 => Swd!Operation = Swd!Op("parity")
           /\ at = 200 => Swd!Operation = Swd!Op("enable")
           /\ at = 201 => Swd!Operation = Write(1)
<1> DEFINE s == Swd!test_dap_connect
<1>0. /\ Len(s) = 209
      /\ s[1] = Swd!Op("setup")
      /\ \A n \in (2 .. 65) \cup (82 .. 145) \cup {163} : s[n] = Swd!Op("clock")
      /\ \A i \in 1 .. 16 : s[65 + i] = Write(Swd!SelectBits[i])
      /\ \A n \in (146 .. 153) \cup (202 .. 209) : s[n] = Write(0)
      /\ \A i \in 1 .. 8 : s[153 + i] = Write(Swd!RequestBits[i])
      /\ s[162] = Swd!Op("disable")
      /\ \A i \in 1 .. 3 : s[163 + i] = [op |-> "ack", bit |-> i]
      /\ \A n \in 0 .. 31 : s[167 + n] = Data(n)
      /\ s[199] = Swd!Op("parity") /\ s[200] = Swd!Op("enable") /\ s[201] = Write(1)
    BY TestOps, Zenon DEF Program
<1>a. Swd!Operation = s[at] /\ (Swd!Finished <=> at > Len(s))
    BY Zenon DEF Swd!Operation, Swd!Finished
<1> HIDE DEF s
<1>1. ~Swd!Finished
    BY <1>0, <1>a
<1>2. at \in 66 .. 81 => Swd!Operation = Write(Swd!SelectBits[at - 65])
  <2> SUFFICES ASSUME at \in 66 .. 81 PROVE s[at] = Write(Swd!SelectBits[at - 65])
    BY <1>a
  <2>1. at - 65 \in 1 .. 16 /\ 65 + (at - 65) = at
    OBVIOUS
  <2> QED
    BY <1>0, <2>1
<1>3. at \in 154 .. 161 => Swd!Operation = Write(Swd!RequestBits[at - 153])
  <2> SUFFICES ASSUME at \in 154 .. 161 PROVE s[at] = Write(Swd!RequestBits[at - 153])
    BY <1>a
  <2>1. at - 153 \in 1 .. 8 /\ 153 + (at - 153) = at
    OBVIOUS
  <2> QED
    BY <1>0, <2>1
<1>4. at \in 164 .. 166 => Swd!Operation = [op |-> "ack", bit |-> at - 163]
  <2> SUFFICES ASSUME at \in 164 .. 166 PROVE s[at] = [op |-> "ack", bit |-> at - 163]
    BY <1>a
  <2>1. at - 163 \in 1 .. 3 /\ 163 + (at - 163) = at
    OBVIOUS
  <2> QED
    BY <1>0, <2>1
<1>5. at \in 167 .. 198 => Swd!Operation = Data(at - 167)
  <2> SUFFICES ASSUME at \in 167 .. 198 PROVE s[at] = Data(at - 167)
    BY <1>a
  <2>1. at - 167 \in 0 .. 31 /\ 167 + (at - 167) = at
    OBVIOUS
  <2> QED
    BY <1>0, <2>1
<1>6. /\ at = 1 => Swd!Operation = Swd!Op("setup")
      /\ at \in (2 .. 65) \cup (82 .. 145) \cup {163} => Swd!Operation = Swd!Op("clock")
      /\ at \in (146 .. 153) \cup (202 .. 209) => Swd!Operation = Write(0)
      /\ at = 162 => Swd!Operation = Swd!Op("disable")
      /\ at = 199 => Swd!Operation = Swd!Op("parity")
      /\ at = 200 => Swd!Operation = Swd!Op("enable")
      /\ at = 201 => Swd!Operation = Write(1)
    BY <1>0, <1>a
<1> QED
    BY <1>1, <1>2, <1>3, <1>4, <1>5, <1>6

\* Which step of the model an operation is.
LEMMA Steps ==
    ASSUME Swd!Next
    PROVE  /\ ~Swd!Finished /\ at' = at + 1
           /\ Swd!Operation.op = "setup" => Swd!Setup
           /\ Swd!Operation.op = "clock" => Swd!Clock
           /\ Swd!Operation.op = "write" => Swd!WriteBit
           /\ Swd!Operation.op = "ack" => Swd!ReadAck
           /\ Swd!Operation.op \in Swd!DataPhase => Swd!ReadData \/ Swd!NoData
           /\ Swd!Operation.op \in {"enable", "disable"} => Swd!Direction
    BY DEF Swd!Next, Swd!Setup, Swd!Clock, Swd!WriteBit, Swd!ReadAck, Swd!ReadData,
           Swd!NoData, Swd!Direction, Swd!Do, Swd!DataPhase


\* What the target makes of a rising edge in each of its states.
LEMMA EdgeIs ==
    ASSUME NEW bit \in Swd!Bits, Swd!RisingEdge(bit), ones \in 0 .. Swd!LineReset
    PROVE  /\ ones' \in 0 .. Swd!LineReset
           /\ ~Swd!Driving /\ bit = 1 =>
                 ones' >= AtMostReset(ones + 1)
           /\ state \in {"jtag", "selected"} /\ bit = 1 => state' = state /\ k' = k
           /\ state = "jtag" /\ bit = 0 /\ ones = Swd!LineReset =>
                 state' = "select" /\ k' = 1
           /\ state = "select" /\ bit = Swd!SelectBits[k + 1] =>
                 IF k = 15 THEN state' = "selected" /\ k' = 0
                 ELSE state' = "select" /\ k' = k + 1
           /\ state = "selected" /\ bit = 0 /\ ones = Swd!LineReset =>
                 state' = "idle" /\ k' = 1
           /\ state = "idle" /\ bit = 0 => state' = "idle" /\ k' = 2
           /\ state = "idle" /\ bit = 1 /\ k = 2 => state' = "request" /\ k' = 1
           /\ state = "request" /\ bit = Swd!RequestBits[k + 1] =>
                 IF k = 7 THEN state' = "turn" /\ k' = 0
                 ELSE state' = "request" /\ k' = k + 1
           /\ state = "turn" => state' = "ack" /\ k' = 1
           /\ state = "ack" =>
                 IF k < 3 THEN state' = "ack" /\ k' = k + 1
                 ELSE IF reply = "OK" THEN state' = "data" /\ k' = 0
                 ELSE state' = "release"
           /\ state = "data" =>
                 IF k < 31 THEN state' = "data" /\ k' = k + 1
                 ELSE state' = "parity" /\ k' = 0
           /\ state = "parity" => state' = "release"
           /\ state = "release" => state' = "idle" /\ k' = 2
<1>1. /\ ones' \in 0 .. Swd!LineReset
      /\ ~Swd!Driving /\ bit = 1 =>
             ones' >= AtMostReset(ones + 1)
    BY DEF Swd!RisingEdge, Swd!Bits, Swd!LineReset, AtMostReset
<1>2. CASE state = "jtag"
    BY <1>1, <1>2 DEF Swd!RisingEdge, Swd!Becomes, Swd!Bits
<1>3. CASE state = "select"
    BY <1>1, <1>3 DEF Swd!RisingEdge, Swd!Becomes, Swd!Bits
<1>4. CASE state = "selected"
    BY <1>1, <1>4 DEF Swd!RisingEdge, Swd!Becomes, Swd!Bits
<1>5. CASE state = "idle"
    BY <1>1, <1>5 DEF Swd!RisingEdge, Swd!Becomes, Swd!Bits
<1>6. CASE state = "request"
    BY <1>1, <1>6 DEF Swd!RisingEdge, Swd!Becomes, Swd!Bits
<1>7. CASE state = "turn"
    BY <1>1, <1>7 DEF Swd!RisingEdge, Swd!Becomes, Swd!Bits
<1>8. CASE state = "ack"
    BY <1>1, <1>8 DEF Swd!RisingEdge, Swd!Becomes, Swd!Bits
<1>9. CASE state = "data"
    BY <1>1, <1>9 DEF Swd!RisingEdge, Swd!Becomes, Swd!Bits
<1>10. CASE state = "parity"
    BY <1>1, <1>10 DEF Swd!RisingEdge, Swd!Becomes, Swd!Bits
<1>11. CASE state = "release"
    BY <1>1, <1>11 DEF Swd!RisingEdge, Swd!Becomes, Swd!Bits
<1> QED
    BY <1>1, <1>2, <1>3, <1>4, <1>5, <1>6, <1>7, <1>8, <1>9, <1>10, <1>11

\* The bits of the two patterns.
LEMMA Patterns ==
    /\ \A i \in 1 .. 16 : Swd!SelectBits[i] \in Swd!Bits
    /\ \A i \in 1 .. 8 : Swd!RequestBits[i] \in Swd!Bits
    /\ Swd!SelectBits[1] = 0 /\ Swd!SelectBits[16] = 1 /\ Swd!RequestBits[1] = 1
    BY DEF Swd!SelectBits, Swd!RequestBits, Swd!Bits


\* What the test writes, and where that takes the target.
LEMMA WriteHolds ==
    ASSUME SwdInv, Swd!Next, at \in 1 .. 209, Swd!Operation.op = "write"
    PROVE  SwdInv'
<1> DEFINE bit == Swd!Operation.bit
<1>1. at \in (66 .. 81) \cup (146 .. 161) \cup (201 .. 209)
    BY OperationIs DEF Swd!Op, Data
<1>2. /\ at \in 66 .. 81 => bit = Swd!SelectBits[at - 65]
      /\ at \in (146 .. 153) \cup (202 .. 209) => bit = 0
      /\ at \in 154 .. 161 => bit = Swd!RequestBits[at - 153]
      /\ at = 201 => bit = 1
    BY <1>1, OperationIs DEF Write
<1>3. /\ bit \in Swd!Bits
      /\ at = 66 => bit = 0
      /\ at = 154 => bit = 1
    BY <1>1, <1>2, Patterns DEF Swd!Bits
<1>4. swdio_mode = "out"
    BY <1>1 DEF SwdInv, LineInv
<1>5. /\ at' = at + 1 /\ swdio' = bit
      /\ Swd!RisingEdge(bit)
      /\ UNCHANGED <<swclk_mode, swclk, swdio_mode, ack, id_code, reply>>
    BY <1>4, Steps DEF Swd!WriteBit, Swd!PIN_SWDIO_OUT
<1> HIDE DEF bit
<1>6. at \in {66, 146} => ones = Swd!LineReset
    BY DEF SwdInv, ResetInv, AtMostReset, Swd!LineReset
<1>7. ones \in 0 .. Swd!LineReset
    BY DEF SwdInv
<1>8. ones' \in 0 .. Swd!LineReset
    BY <1>3, <1>5, <1>7, EdgeIs
<1>9. PhaseInv'
  <2>1. CASE at = 66
    <3>1. state = "jtag" /\ bit = 0
      BY <1>3, <2>1 DEF SwdInv, PhaseInv
    <3>2. state' = "select" /\ k' = 1
      BY <1>3, <1>5, <1>6, <1>7, <2>1, <3>1, EdgeIs
    <3> QED
      BY <1>5, <2>1, <3>2 DEF PhaseInv
  <2>2. CASE at \in 67 .. 81
    <3>1. /\ state = "select" /\ k = at - 66
          /\ bit = Swd!SelectBits[at - 65] /\ at - 65 = k + 1
      BY <1>2, <2>2 DEF SwdInv, PhaseInv
    <3>2. IF at = 81 THEN state' = "selected" /\ k' = 0
          ELSE state' = "select" /\ k' = at - 65
      BY <1>3, <1>5, <1>7, <2>2, <3>1, EdgeIs
    <3> QED
      BY <1>5, <2>2, <3>2 DEF PhaseInv
  <2>3. CASE at \in 146 .. 153
    <3>1. bit = 0 /\ IF at = 146 THEN state = "selected" ELSE state = "idle"
      BY <1>2, <2>3 DEF SwdInv, PhaseInv
    <3>2. state' = "idle" /\ k' = IF at = 146 THEN 1 ELSE 2
      BY <1>3, <1>5, <1>6, <1>7, <2>3, <3>1, EdgeIs
    <3> QED
      BY <1>5, <2>3, <3>2 DEF PhaseInv
  <2>4. CASE at = 154
    <3>1. state = "idle" /\ k = 2 /\ bit = 1
      BY <1>3, <2>4 DEF SwdInv, PhaseInv
    <3>2. state' = "request" /\ k' = 1
      BY <1>3, <1>5, <1>7, <2>4, <3>1, EdgeIs
    <3> QED
      BY <1>5, <2>4, <3>2 DEF PhaseInv
  <2>5. CASE at \in 155 .. 161
    <3>1. /\ state = "request" /\ k = at - 154
          /\ bit = Swd!RequestBits[at - 153] /\ at - 153 = k + 1
      BY <1>2, <2>5 DEF SwdInv, PhaseInv
    <3>2. IF at = 161 THEN state' = "turn" /\ k' = 0
          ELSE state' = "request" /\ k' = at - 153
      BY <1>3, <1>5, <1>7, <2>5, <3>1, EdgeIs
    <3> QED
      BY <1>5, <2>5, <3>2 DEF PhaseInv
  <2>6. CASE at = 201
    <3>1. state = "release"
      BY <2>6 DEF SwdInv, PhaseInv
    <3>2. state' = "idle" /\ k' = 2
      BY <1>3, <1>5, <1>7, <3>1, EdgeIs
    <3> QED
      BY <1>5, <2>6, <3>2 DEF PhaseInv
  <2>7. CASE at \in 202 .. 209
    <3>1. bit = 0 /\ state = "idle"
      BY <1>2, <2>7 DEF SwdInv, PhaseInv
    <3>2. state' = "idle" /\ k' = 2
      BY <1>3, <1>5, <1>7, <3>1, EdgeIs
    <3> QED
      BY <1>5, <2>7, <3>2 DEF PhaseInv
  <2> QED
    BY <1>1, <2>1, <2>2, <2>3, <2>4, <2>5, <2>6, <2>7
<1>10. at = 81 => bit = 1
    BY <1>2, Patterns, 81 - 65 = 16
<1>11. LineInv'
    BY <1>1, <1>4, <1>5, <1>10 DEF LineInv
<1>12. ResetInv'
    BY <1>1, <1>5, <1>8 DEF ResetInv, AtMostReset, Swd!LineReset
<1>13. ReadInv'
    BY <1>1, <1>5 DEF SwdInv, ReadInv
<1> QED
    BY <1>1, <1>3, <1>5, <1>8, <1>9, <1>11, <1>12, <1>13 DEF SwdInv, Swd!PinsTypeOK

\* A clock with the line high.
LEMMA ClockHolds ==
    ASSUME SwdInv, Swd!Next, at \in 1 .. 209, Swd!Operation.op = "clock"
    PROVE  SwdInv'
<1>1. at \in (2 .. 65) \cup (82 .. 145) \cup {163}
    BY OperationIs DEF Swd!Op, Data, Write
<1>2. ~Swd!Driving
  <2>1. state \in {"jtag", "selected", "turn"}
    BY <1>1 DEF SwdInv, PhaseInv
  <2> QED
    BY <2>1 DEF Swd!Driving
<1>3. Swd!Line(Swd!Level) = 1
    BY <1>1, <1>2 DEF SwdInv, LineInv, Swd!Line, Swd!Level
<1>4. /\ at' = at + 1 /\ swclk' = 1
      /\ Swd!RisingEdge(1)
      /\ UNCHANGED <<swclk_mode, swdio_mode, swdio, ack, id_code, reply>>
    BY <1>3, Steps DEF Swd!Clock, Swd!ClockPulse
<1>5. ones \in 0 .. Swd!LineReset /\ 1 \in Swd!Bits
    BY DEF SwdInv, Swd!Bits
<1>6. /\ ones' \in 0 .. Swd!LineReset
      /\ ones' >= AtMostReset(ones + 1)
      /\ state \in {"jtag", "selected"} => state' = state /\ k' = k
      /\ state = "turn" => state' = "ack" /\ k' = 1
    BY <1>2, <1>4, <1>5, EdgeIs
<1>7. PhaseInv'
    BY <1>1, <1>4, <1>6 DEF SwdInv, PhaseInv
<1>8. LineInv'
    BY <1>1, <1>4 DEF SwdInv, LineInv
<1>9. ResetInv'
    BY <1>1, <1>4, <1>5, <1>6 DEF SwdInv, ResetInv, AtMostReset, Swd!LineReset
<1>10. ReadInv'
    BY <1>1, <1>4 DEF SwdInv, ReadInv
<1> QED
    BY <1>1, <1>4, <1>6, <1>7, <1>8, <1>9, <1>10 DEF SwdInv, Swd!PinsTypeOK, Swd!Bits

\* The acknowledgement has three bits, and what is not there answers with none.
LEMMA Acks ==
    ASSUME reply \in Swd!Replies
    PROVE  /\ Swd!SW_ACK(reply) = <<AckBit(1), AckBit(2), AckBit(3)>>
           /\ \A i \in 1 .. 3 : AckBit(i) \in Swd!Bits
           /\ Swd!SW_ACK(reply) = Swd!SW_ACK("OK") <=> reply = "OK"
           /\ reply = "no target" => \A i \in 1 .. 3 : AckBit(i) = 1
<1>1. CASE reply = "OK"
    BY <1>1 DEF Swd!SW_ACK, Swd!Bits, AckBit
<1>2. CASE reply = "WAIT"
    BY <1>2 DEF Swd!SW_ACK, Swd!Bits, AckBit
<1>3. CASE reply = "FAULT"
    BY <1>3 DEF Swd!SW_ACK, Swd!Bits, AckBit
<1>4. CASE reply = "no target"
  <2>1. Swd!SW_ACK(reply) = <<1, 1, 1>> /\ Swd!SW_ACK("OK") = <<1, 0, 0>>
    BY <1>4 DEF Swd!SW_ACK
  <2>2. Swd!SW_ACK(reply)[2] = 1 /\ Swd!SW_ACK("OK")[2] = 0
    BY <2>1
  <2>3. Swd!SW_ACK(reply) # Swd!SW_ACK("OK")
    BY <2>2
  <2>4. \A i \in 1 .. 3 : AckBit(i) = 1
    BY <2>1 DEF AckBit
  <2>5. Swd!SW_ACK(reply) = <<AckBit(1), AckBit(2), AckBit(3)>>
    BY <2>1 DEF AckBit
  <2>6. \A i \in 1 .. 3 : AckBit(i) \in Swd!Bits
    BY <2>4 DEF Swd!Bits
  <2> QED
    BY <1>4, <2>3, <2>4, <2>5, <2>6
<1> QED
    BY <1>1, <1>2, <1>3, <1>4 DEF Swd!Replies

\* The same, bit by bit.
LEMMA AckBits ==
    ASSUME reply \in Swd!Replies
    PROVE  /\ AckBit(1) \in Swd!Bits
           /\ AckBit(2) \in Swd!Bits
           /\ AckBit(3) \in Swd!Bits
           /\ Swd!SW_ACK(reply) = <<AckBit(1), AckBit(2), AckBit(3)>>
<1>1. 1 \in 1 .. 3 /\ 2 \in 1 .. 3 /\ 3 \in 1 .. 3
    OBVIOUS
<1> QED
    BY <1>1, Acks, Zenon

\* Reading one bit more.
LEMMA Appended ==
    ASSUME NEW S, NEW x \in S, NEW y \in S, NEW z \in S
    PROVE  /\ Append(<<x>>, y) = <<x, y>>
           /\ Append(<<x, y>>, z) = <<x, y, z>>
<1>1. ASSUME NEW s \in Seq(S), NEW e \in S
      PROVE  \E r \in Seq(S) : /\ r = Append(s, e)
                               /\ Len(r) = Len(s) + 1
                               /\ \A i \in 1 .. Len(s) : r[i] = s[i]
                               /\ r[Len(s) + 1] = e
    BY AppendProperties, Zenon
<1>2. Append(<<x>>, y) = <<x, y>>
  <2>1. <<x>> \in Seq(S) /\ Len(<<x>>) = 1 /\ <<x>>[1] = x
    OBVIOUS
  <2>2. PICK r \in Seq(S) : /\ r = Append(<<x>>, y)
                            /\ Len(r) = Len(<<x>>) + 1
                            /\ \A i \in 1 .. Len(<<x>>) : r[i] = <<x>>[i]
                            /\ r[Len(<<x>>) + 1] = y
    BY <1>1, <2>1, Zenon
  <2>3. Len(r) = 2 /\ r[1] = x /\ r[2] = y
    BY <2>1, <2>2
  <2>4. r \in [1 .. 2 -> S]
    BY <2>3
  <2>5. r = <<x, y>>
    BY <2>3, <2>4
  <2> QED
    BY <2>2, <2>5
<1>3. Append(<<x, y>>, z) = <<x, y, z>>
  <2>1. <<x, y>> \in Seq(S) /\ Len(<<x, y>>) = 2 /\ <<x, y>>[1] = x /\ <<x, y>>[2] = y
    OBVIOUS
  <2>2. PICK r \in Seq(S) : /\ r = Append(<<x, y>>, z)
                            /\ Len(r) = Len(<<x, y>>) + 1
                            /\ \A i \in 1 .. Len(<<x, y>>) : r[i] = <<x, y>>[i]
                            /\ r[Len(<<x, y>>) + 1] = z
    BY <1>1, <2>1, Zenon
  <2>3. Len(r) = 3 /\ r[1] = x /\ r[2] = y /\ r[3] = z
    BY <2>1, <2>2
  <2>4. r \in [1 .. 3 -> S]
    BY <2>3
  <2>5. r = <<x, y, z>>
    BY <2>3, <2>4
  <2> QED
    BY <2>2, <2>5
<1> QED
    BY <1>2, <1>3

\* The acknowledgement is read bit by bit while the target sends it, or else the
\* pull-up keeps the line high (test_swd_read_id.c:93-101).
LEMMA AckHolds ==
    ASSUME SwdInv, Swd!Next, at \in 1 .. 209, Swd!Operation.op = "ack"
    PROVE  SwdInv'
<1>1. at \in 164 .. 166
    BY OperationIs DEF Swd!Op, Data, Write
<1>2. state = "ack" /\ k = at - 163 /\ swdio_mode = "in"
    BY <1>1 DEF SwdInv, PhaseInv, LineInv
<1>3. at - 163 \in 1 .. 3 /\ reply \in Swd!Replies
    BY <1>1 DEF SwdInv
<1>4. Swd!Line(Swd!Level) = AckBit(at - 163) /\ Swd!Line(Swd!Level) \in Swd!Bits
  <2>1. AckBit(at - 163) \in Swd!Bits
    BY <1>3, Acks
  <2>2. Swd!Level = IF reply = "no target" THEN Swd!Undriven ELSE AckBit(at - 163)
    BY <1>2 DEF Swd!Level, Swd!Driving, AckBit
  <2>3. CASE reply = "no target"
    <3>1. AckBit(at - 163) = 1
      BY <1>3, <2>3, Acks
    <3>2. Swd!Line(Swd!Level) = 1
      BY <1>2, <2>2, <2>3 DEF Swd!Line
    <3> QED
      BY <3>1, <3>2 DEF Swd!Bits
  <2>4. CASE reply # "no target"
    <3>1. Swd!Level = AckBit(at - 163)
      BY <2>2, <2>4
    <3>2. \A bit \in Swd!Bits : bit # Swd!Undriven
      BY DEF Swd!Undriven, Swd!Bits
    <3>3. Swd!Level # Swd!Undriven
      BY <2>1, <3>1, <3>2, Zenon
    <3> QED
      BY <1>2, <2>1, <3>1, <3>3 DEF Swd!Line
  <2> QED
    BY <2>3, <2>4
<1>5. /\ at' = at + 1 /\ swclk' = 1
      /\ ack' = Append(ack, AckBit(at - 163))
      /\ Swd!RisingEdge(Swd!Line(Swd!Level))
      /\ UNCHANGED <<swclk_mode, swdio_mode, swdio, id_code, reply>>
    BY <1>4, Steps DEF Swd!ReadAck, Swd!ClockPulse
<1>6. ones \in 0 .. Swd!LineReset
    BY DEF SwdInv
<1>7. /\ ones' \in 0 .. Swd!LineReset
      /\ IF k < 3 THEN state' = "ack" /\ k' = k + 1
         ELSE IF reply = "OK" THEN state' = "data" /\ k' = 0
         ELSE state' = "release"
    BY <1>2, <1>4, <1>5, <1>6, EdgeIs
<1>8. PhaseInv'
    BY <1>1, <1>2, <1>5, <1>7 DEF PhaseInv
<1>9. LineInv'
    BY <1>1, <1>2, <1>5 DEF LineInv
<1>10. ResetInv'
    BY <1>1, <1>5 DEF ResetInv, AtMostReset
<1>11. ReadInv'
  <2> DEFINE a == AckBit(1)
             b == AckBit(2)
             c == AckBit(3)
  <2>a. a \in Swd!Bits /\ b \in Swd!Bits /\ c \in Swd!Bits
    BY <1>3, AckBits
  <2>b. Swd!SW_ACK(reply)' = Swd!SW_ACK(reply)
    BY <1>5
  <2>c. \A n \in 0 .. 31 : ~(n < at' - 167)
    BY <1>1, <1>5
  <2>d. Swd!SW_ACK(reply) = <<a, b, c>>
    BY <1>3, Acks
  <2> HIDE DEF a, b, c
  <2>1. CASE at = 164
    <3>1. ack' = <<a>>
      <4>1. ack = << >> /\ ack' = Append(ack, a)
        BY <1>5, <2>1 DEF SwdInv, ReadInv, a
      <4> QED
        BY <2>a, <4>1, Appended
    <3>2. at' = 165
      BY <1>5, <2>1
    <3> QED
      BY <2>b, <2>c, <3>1, <3>2 DEF ReadInv, AckBit, a
  <2>2. CASE at = 165
    <3>1. ack' = <<a, b>>
      <4>1. ack = <<a>> /\ ack' = Append(ack, b)
        BY <1>5, <2>2 DEF SwdInv, ReadInv, a, b
      <4> QED
        BY <2>a, <4>1, Appended
    <3>2. at' = 166
      BY <1>5, <2>2
    <3> QED
      BY <2>b, <2>c, <3>1, <3>2 DEF ReadInv, AckBit, a, b
  <2>3. CASE at = 166
    <3>1. ack' = <<a, b, c>>
      <4>1. ack = <<a, b>> /\ ack' = Append(ack, c)
        BY <1>5, <2>3 DEF SwdInv, ReadInv, a, b, c
      <4> QED
        BY <2>a, <4>1, Appended
    <3>2. at' = 167
      BY <1>5, <2>3
    <3>3. ack' = Swd!SW_ACK(reply)'
      BY <2>b, <2>d, <3>1
    <3> QED
      BY <2>c, <3>2, <3>3 DEF ReadInv
  <2> QED
    BY <1>1, <2>1, <2>2, <2>3
<1> QED
    BY <1>1, <1>5, <1>7, <1>8, <1>9, <1>10, <1>11 DEF SwdInv, Swd!PinsTypeOK, Swd!Bits

\* Reading from the right undoes itself: no two clocks read the same bit.
LEMMA ReadBitIs ==
    /\ \A n \in 0 .. 31 : ReadBit(n) \in 0 .. 31 /\ ReadBit(ReadBit(n)) = n
    /\ \A m, n \in 0 .. 31 : ReadBit(m) = ReadBit(n) => m = n
<1>1. \A n \in 0 .. 31 : ReadBit(n) \in 0 .. 31
    BY DEF ReadBit
<1>2. \A n \in 0 .. 31 : ReadBit(ReadBit(n)) = n
    BY DEF ReadBit
<1> QED
    BY <1>1, <1>2

\* After an OK the data and its parity are read as they are sent; otherwise the
\* data phase is left out (test_swd_read_id.c:104-125).
LEMMA DataHolds ==
    ASSUME SwdInv, Swd!Next, at \in 1 .. 209, Swd!Operation.op \in Swd!DataPhase
    PROVE  SwdInv'
<1>1. /\ at \in 167 .. 199
      /\ at = 199 <=> Swd!Operation.op = "parity"
      /\ at < 199 => Swd!Operation.bit = ReadBit(at - 167)
    BY OperationIs DEF Swd!Op, Data, Write, Swd!DataPhase
<1>2. /\ ack = Swd!SW_ACK(reply) /\ reply \in Swd!Replies
      /\ swdio_mode = "in" /\ ones \in 0 .. Swd!LineReset
    BY <1>1 DEF SwdInv, ReadInv, LineInv
<1>3. Swd!Skipped <=> reply # "OK"
    BY <1>2, Acks DEF Swd!Skipped
<1>4. CASE reply # "OK"
  <2>1. Swd!NoData
    BY <1>3, <1>4, Steps DEF Swd!ReadData
  <2>2. at' = at + 1 /\ UNCHANGED <<Swd!pinVars, ack, id_code, reply, Swd!targetVars>>
    BY <2>1, Steps DEF Swd!NoData
  <2>3. PhaseInv' /\ LineInv' /\ ResetInv' /\ ReadInv'
    BY <1>1, <1>4, <2>2
    DEF SwdInv, PhaseInv, LineInv, ResetInv, AtMostReset, ReadInv, Swd!pinVars,
        Swd!targetVars
  <2> QED
    BY <1>1, <2>2, <2>3 DEF SwdInv, Swd!PinsTypeOK, Swd!pinVars, Swd!targetVars
<1>5. CASE reply = "OK"
  <2>1. Swd!ReadData /\ at' = at + 1
    BY <1>3, <1>5, Steps DEF Swd!NoData
  <2>2. IF at < 199 THEN state = "data" /\ k = at - 167 ELSE state = "parity" /\ k = 0
    BY <1>1, <1>5 DEF SwdInv, PhaseInv
  <2>3. Swd!Line(Swd!Level) = 1
    BY <1>1, <1>2, <1>5, <2>2 DEF Swd!Line, Swd!Level, Swd!Driving, Swd!Undriven
  <2>4. /\ at = 199 => id_code' = id_code
        /\ at < 199 => id_code' = [id_code EXCEPT ![ReadBit(at - 167)] = k]
        /\ Swd!RisingEdge(1)
        /\ swclk' = 1
        /\ UNCHANGED <<swclk_mode, swdio_mode, swdio, ack, reply>>
    <3>1. /\ id_code' = IF Swd!Operation.op = "parity" THEN id_code
                        ELSE [id_code EXCEPT ![Swd!Operation.bit] = k]
          /\ Swd!RisingEdge(1)
          /\ swclk' = 1
          /\ UNCHANGED <<swclk_mode, swdio_mode, swdio, ack, reply>>
      BY <2>1, <2>3 DEF Swd!ReadData, Swd!ClockPulse
    <3>2. CASE at = 199
      BY <1>1, <3>1, <3>2
    <3>3. CASE at < 199
      <4>1. Swd!Operation.op # "parity" /\ Swd!Operation.bit = ReadBit(at - 167) /\ at # 199
        BY <1>1, <3>3
      <4> QED
        BY <3>1, <4>1, Zenon
    <3> QED
      BY <1>1, <3>1, <3>2, <3>3
  <2>5. 1 \in Swd!Bits
    BY DEF Swd!Bits
  <2>6. /\ ones' \in 0 .. Swd!LineReset
        /\ state = "data" =>
              IF k < 31 THEN state' = "data" /\ k' = k + 1 ELSE state' = "parity" /\ k' = 0
        /\ state = "parity" => state' = "release"
    BY <1>2, <2>4, <2>5, EdgeIs
  <2>7. PhaseInv'
    BY <1>1, <1>5, <2>1, <2>2, <2>4, <2>6 DEF PhaseInv
  <2>8. LineInv' /\ ResetInv'
    BY <1>1, <1>2, <2>1, <2>4 DEF LineInv, ResetInv, AtMostReset
  <2>9. ASSUME NEW n \in 0 .. 31, n < at' - 167
        PROVE  id_code'[ReadBit(n)] = n
    <3>1. CASE at = 199
      BY <1>5, <2>1, <2>4, <2>9, <3>1 DEF SwdInv, ReadInv
    <3>2. CASE at < 199
      <4>1. at - 167 \in 0 .. 31 /\ k = at - 167
        BY <1>1, <2>2, <3>2
      <4>2. \A b \in 0 .. 31 :
               id_code'[b] = IF b = ReadBit(at - 167) THEN at - 167 ELSE id_code[b]
        BY <2>4, <3>2, <4>1 DEF SwdInv
      <4>3. CASE n = at - 167
        BY <4>1, <4>2, <4>3, ReadBitIs
      <4>4. CASE n < at - 167
        <5>1. id_code[ReadBit(n)] = n
          BY <1>5, <4>4 DEF SwdInv, ReadInv
        <5>2. ReadBit(n) # ReadBit(at - 167) /\ ReadBit(n) \in 0 .. 31
          BY <4>1, <4>4, ReadBitIs
        <5> QED
          BY <4>2, <5>1, <5>2
      <4> QED
        BY <1>1, <2>1, <2>9, <4>3, <4>4
    <3> QED
      BY <1>1, <3>1, <3>2
  <2>10. ReadInv'
    <3>1. at' \in 168 .. 200 /\ ack' = Swd!SW_ACK(reply)'
      BY <1>1, <1>2, <2>1, <2>4
    <3>2. \A n \in 0 .. 31 : n < at' - 167 => id_code'[ReadBit(n)] = n
      BY <2>9
    <3>3. ~(at' =< 164) /\ at' # 165 /\ at' # 166
      BY <3>1
    <3> QED
      BY <3>1, <3>2, <3>3, Zenon DEF ReadInv
  <2>11. id_code' \in [0 .. 31 -> (0 .. 31) \cup {Swd!NotRead}]
    <3>1. at < 199 => k \in 0 .. 31
      BY <1>1, <2>2
    <3>2. id_code \in [0 .. 31 -> (0 .. 31) \cup {Swd!NotRead}]
      BY DEF SwdInv
    <3>3. CASE at = 199
      BY <2>4, <3>2, <3>3
    <3>4. CASE at < 199
      BY <2>4, <3>1, <3>2, <3>4
    <3> QED
      BY <1>1, <3>3, <3>4
  <2> QED
    BY <1>1, <1>2, <2>1, <2>4, <2>6, <2>7, <2>8, <2>10, <2>11
    DEF SwdInv, Swd!PinsTypeOK, Swd!Bits
<1> QED
    BY <1>4, <1>5

\* Setting up the port, and the turns of the line: each while the target does not
\* drive it (test_swd_read_id.c:90-91,127).
LEMMA PinsHold ==
    ASSUME SwdInv, Swd!Next, at \in 1 .. 209,
           Swd!Operation.op \in {"setup", "enable", "disable"}
    PROVE  SwdInv'
<1>1. /\ at \in {1, 162, 200}
      /\ at = 1 <=> Swd!Operation.op = "setup"
      /\ at = 200 <=> Swd!Operation.op = "enable"
    BY OperationIs DEF Swd!Op, Data, Write
<1>2. /\ at' = at + 1
      /\ UNCHANGED <<ack, id_code, reply, state, k, ones>>
      /\ at = 1 => swclk_mode' = "out" /\ swdio_mode' = "out" /\ swclk' = 1 /\ swdio' = 1
      /\ at # 1 => /\ swdio_mode' = IF at = 200 THEN "out" ELSE "in"
                   /\ UNCHANGED <<swclk_mode, swclk, swdio>>
    BY <1>1, Steps
    DEF Swd!Setup, Swd!Direction, Swd!PORT_SWD_SETUP, Swd!PIN_SWDIO_OUT_ENABLE,
        Swd!PIN_SWDIO_OUT_DISABLE, Swd!SetMode, Swd!targetVars
<1>3. PhaseInv' /\ LineInv' /\ ResetInv' /\ ReadInv'
    BY <1>1, <1>2
    DEF SwdInv, PhaseInv, LineInv, ResetInv, AtMostReset, ReadInv, Swd!LineReset
<1> QED
    BY <1>1, <1>2, <1>3 DEF SwdInv, Swd!PinsTypeOK, Swd!Bits, Swd!Directions

\* Every operation of the test keeps the invariant.
LEMMA SwdStep ==
    SwdInv /\ [Swd!Next]_(Swd!vars) => SwdInv'
<1> SUFFICES ASSUME SwdInv, [Swd!Next]_(Swd!vars)
             PROVE  SwdInv'
    OBVIOUS
<1>1. CASE UNCHANGED Swd!vars
    BY <1>1 DEF Swd!vars, Swd!pinVars, Swd!testVars, Swd!targetVars, SwdInv,
                Swd!PinsTypeOK, PhaseInv, LineInv, ResetInv, ReadInv, AckBit
<1>2. CASE Swd!Next
  <2>1. at \in 1 .. 209
    <3>1. ~Swd!Finished
      BY <1>2, Steps
    <3>2. Len(Swd!test_dap_connect) = 209
      BY TestOps DEF Program
    <3> QED
      BY <3>1, <3>2 DEF SwdInv, Swd!Finished
  <2>2. Swd!Operation.op \in {"setup", "clock", "write", "ack", "enable", "disable"}
                                \cup Swd!DataPhase
    BY <1>2 DEF Swd!Next, Swd!Setup, Swd!Clock, Swd!WriteBit, Swd!ReadAck,
                Swd!ReadData, Swd!NoData, Swd!Direction, Swd!Do
  <2> QED
    BY <1>2, <2>1, <2>2, WriteHolds, ClockHolds, AckHolds, DataHolds, PinsHold
<1> QED
    BY <1>1, <1>2

\* What the invariant says of the line and of the reply.
LEMMA SwdFacts ==
    ASSUME SwdInv
    PROVE  Swd!TypeOK /\ Swd!NeverBothDrive /\ Swd!ReplyReadInStep
<1>0. Len(Swd!test_dap_connect) = 209
    BY TestOps DEF Program
<1>1. at \in 1 .. Len(Swd!test_dap_connect) + 1 /\ (Swd!Finished <=> at = 210)
    BY <1>0 DEF SwdInv, Swd!Finished
<1>2. Swd!NeverBothDrive
  <2>1. at \in 1 .. 163 \/ at \in 164 .. 199 \/ at \in 200 .. 210
    BY DEF SwdInv
  <2>2. at \in 1 .. 163 =>
            state \in {"jtag", "select", "selected", "idle", "request", "turn"}
    BY DEF SwdInv, PhaseInv
  <2>3. at \in 200 .. 210 => state \in {"release", "idle"}
    BY DEF SwdInv, PhaseInv
  <2>4. at \in 164 .. 199 => swdio_mode = "in"
    BY DEF SwdInv, LineInv
  <2> QED
    BY <2>1, <2>2, <2>3, <2>4 DEF Swd!NeverBothDrive, Swd!Driving
<1>3. ack \in {<< >>} \cup [1 .. 1 -> Swd!Bits] \cup [1 .. 2 -> Swd!Bits]
                   \cup [1 .. 3 -> Swd!Bits]
  <2>1. reply \in Swd!Replies
    BY DEF SwdInv
  <2> DEFINE a == AckBit(1)
             b == AckBit(2)
             c == AckBit(3)
  <2>a. /\ a \in Swd!Bits /\ b \in Swd!Bits /\ c \in Swd!Bits
        /\ Swd!SW_ACK(reply) = <<a, b, c>>
    BY <2>1, AckBits
  <2>b. ack \in {<< >>, <<a>>, <<a, b>>, <<a, b, c>>}
    <3>1. at =< 164 \/ at = 165 \/ at = 166 \/ at >= 167
      BY DEF SwdInv
    <3> QED
      BY <2>a, <3>1, Zenon DEF SwdInv, ReadInv
  <2> HIDE DEF a, b, c
  <2>2. <<a>> \in [1 .. 1 -> Swd!Bits] /\ <<a, b>> \in [1 .. 2 -> Swd!Bits]
        /\ <<a, b, c>> \in [1 .. 3 -> Swd!Bits]
    BY <2>a
  <2> QED
    BY <2>b, <2>2
<1>4. Swd!TypeOK
    BY <1>1, <1>3 DEF SwdInv, Swd!TypeOK
<1>5. ASSUME ~Swd!Finished, Swd!Operation.op \in {"ack", "data", "parity"}, ~Swd!Skipped
      PROVE  state = Swd!Operation.op /\ (state = "ack" => k = Swd!Operation.bit)
  <2>1. at \in 1 .. 209
    BY <1>1, <1>5 DEF SwdInv
  <2>2. CASE Swd!Operation.op = "ack"
    <3>1. at \in 164 .. 166 /\ Swd!Operation.bit = at - 163
      BY <2>1, <2>2, OperationIs DEF Swd!Op, Data, Write
    <3> QED
      BY <2>2, <3>1 DEF SwdInv, PhaseInv
  <2>3. CASE Swd!Operation.op \in Swd!DataPhase
    <3>1. /\ at \in 167 .. 199
          /\ Swd!Operation.op = IF at = 199 THEN "parity" ELSE "data"
      BY <2>1, <2>3, OperationIs DEF Swd!Op, Data, Write, Swd!DataPhase
    <3>2. reply \in Swd!Replies /\ ack = Swd!SW_ACK(reply)
      <4>1. at >= 167
        BY <3>1
      <4> QED
        BY <4>1, Zenon DEF SwdInv, ReadInv
    <3>3. reply = "OK"
      BY <1>5, <2>3, <3>2, Acks DEF Swd!Skipped
    <3> QED
      BY <3>1, <3>3 DEF SwdInv, PhaseInv
  <2> QED
    BY <1>5, <2>2, <2>3 DEF Swd!DataPhase
<1>6. ASSUME Swd!Finished
      PROVE  /\ ack = Swd!SW_ACK(reply) /\ state = "idle"
             /\ reply = "OK" => {id_code[i] : i \in 0 .. 31} = 0 .. 31
  <2>1. at = 210
    BY <1>1, <1>6
  <2>2. ack = Swd!SW_ACK(reply) /\ state = "idle"
    BY <2>1 DEF SwdInv, ReadInv, PhaseInv
  <2>3. ASSUME reply = "OK"
        PROVE  {id_code[i] : i \in 0 .. 31} = 0 .. 31
    <3>1. \A n \in 0 .. 31 : id_code[ReadBit(n)] = n
      BY <2>1, <2>3 DEF SwdInv, ReadInv
    <3>2. \A n \in 0 .. 31 : ReadBit(n) \in 0 .. 31 /\ ReadBit(ReadBit(n)) = n
      BY ReadBitIs
    <3>3. \A i \in 0 .. 31 : id_code[i] = ReadBit(i)
      BY <3>1, <3>2
    <3>4. \A n \in 0 .. 31 : n = id_code[ReadBit(n)]
      BY <3>1
    <3>5. {id_code[i] : i \in 0 .. 31} \subseteq 0 .. 31
      BY <3>2, <3>3
    <3>6. 0 .. 31 \subseteq {id_code[i] : i \in 0 .. 31}
      BY <3>2, <3>4
    <3> QED
      BY <3>5, <3>6
  <2> QED
    BY <2>2, <2>3
<1>7. Swd!ReplyReadInStep
    BY <1>5, <1>6 DEF Swd!ReplyReadInStep
<1> QED
    BY <1>2, <1>4, <1>7

\* The test begins with the pins as inputs and a target that speaks JTAG.
LEMMA SwdInit ==
    Swd!Init => SwdInv
    BY DEF Swd!Init, SwdInv, Swd!PinsTypeOK, Swd!Directions, Swd!Bits, PhaseInv,
           LineInv, ResetInv, AtMostReset, ReadInv, Swd!LineReset

\* A step of any part is one of the self-test or leaves it alone.
LEMMA SwdOrStutter ==
    [TargetNext]_TargetVars => [Swd!Next]_(Swd!vars)
    BY DEF TargetNext, TargetVars, swdVars, Swd!vars, Swd!pinVars, Swd!testVars,
           Swd!targetVars

\* Test and target are in step from the first operation to the last, whatever the
\* target replies.
THEOREM SwdInvCorrect ==
    TargetSpec => []SwdInv
<1>1. TargetInit => Swd!Init
    BY DEF TargetInit
<1> QED
    BY <1>1, SwdInit, SwdStep, SwdOrStutter, PTL DEF TargetSpec

\* Every variable of the three parts keeps to its type.
THEOREM TargetTypeCorrect ==
    TargetSpec => []TargetTypeOK
<1>1. SwdInv /\ TypeOK /\ Clock!TypeOK => TargetTypeOK
    BY SwdFacts DEF TargetTypeOK
<1> QED
    BY <1>1, SwdInvCorrect, GpioTypeCorrect, ClockTypeCorrect, PTL

\* The debugger and the target never drive SWDIO at the same time, whether the
\* target answers or not (test_swd_read_id.c:93-129).
THEOREM NeverBothDriveCorrect ==
    TargetSpec => []NeverBothDrive
<1>1. SwdInv => NeverBothDrive
    BY SwdFacts DEF NeverBothDrive
<1> QED
    BY <1>1, SwdInvCorrect, PTL

\* The target understands every bit up to its reply, and each bit of the reply is
\* read in the clock in which it is sent; after an OK all 32 bits of the data are in
\* id_code (test_swd_read_id.c:60-133).
THEOREM ReplyReadInStepCorrect ==
    TargetSpec => []ReplyReadInStep
<1>1. SwdInv => ReplyReadInStep
    BY SwdFacts DEF ReplyReadInStep
<1> QED
    BY <1>1, SwdInvCorrect, PTL
=============================================================================
