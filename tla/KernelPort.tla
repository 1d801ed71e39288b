------------------------------ MODULE KernelPort ------------------------------
(***************************************************************************)
(* How interrupts and tasks share the processor: the FreeRTOS port         *)
(* (port.c, portmacro.h), the late start-up hook that hands the board to   *)
(* it (startup_hook.c), main, and the shape of the two tasks.              *)
(*                                                                         *)
(* The Cortex-M7 takes a pending exception before the next instruction     *)
(* when PRIMASK is clear, BASEPRI is 0 or above the exception's priority,  *)
(* and nothing as urgent is being handled: numerically lower is more       *)
(* urgent.  The kernel's lists and tick count are external: of them the    *)
(* model keeps who is ready, in which order, and who sleeps.               *)
(***************************************************************************)
EXTENDS Naturals, FiniteSets, Sequences

CONSTANTS
    Pollers,          \* tasks that never block: CmsisDapTask
    Sleepers,         \* tasks that block in the kernel: LedBlinkTask, the timer task
    Waking,           \* the sleepers whose delay ends (no timer is ever created)
    Created,          \* every task but the idle task, in the order of creation
    MaxDepth,         \* how deep the kernel nests critical sections
    UNSTARTED,        \* uxCriticalNesting before the scheduler: 0xaaaaaaaa
    TickBetweenStores \* may a tick fall between startup_hook.c:29 and :30?

Tasks == Pollers \cup Sleepers
Elements(s) == {s[i] : i \in 1 .. Len(s)}

ASSUME KernelPortAssumption ==
    /\ Pollers \cap Sleepers = {}
    /\ "main" \notin Tasks
    /\ Waking \subseteq Sleepers
    /\ Created \in Seq(Tasks)
    /\ Elements(Created) = Tasks
    /\ Len(Created) > 0
    /\ MaxDepth \in Nat \ {0}
    /\ UNSTARTED \in Nat
    /\ UNSTARTED > 0
    /\ TickBetweenStores \in BOOLEAN

configMAX_SYSCALL_INTERRUPT_PRIORITY == 112
LOWEST == 240      \* what four implemented bits keep of the 255 that is written
Exceptions == {"pendsv", "systick", "usb"}
ExceptionNumber == [pendsv |-> 14, systick |-> 15, usb |-> 129]
BootSteps == {"mask", "handlers", "tick", "stop", "priorities", "create",
              "creating", "lowest", "timer", "nesting", "first", "started"}
TaskSteps == {"recv", "command", "send", "queue", "check",
              "run", "delay", "asleep", "yield"}
HandlerSteps == {"idle", "entry", "masked", "exit"}

VARIABLES
    boot,     \* where main's thread is, from startup_late_hook to the first task
    pc,       \* where each task is
    depth,    \* the critical sections each task is in (main's: unstarted ones)
    current,  \* pxCurrentTCB, "main" before the scheduler
    ready,    \* the other ready tasks, in the order of the rotation
    asleep,   \* the tasks that are blocked in the kernel
    basepri,  \* BASEPRI
    primask,  \* PRIMASK
    nesting,  \* uxCriticalNesting
    prio,     \* the priority of each exception
    vector,   \* whose handler each vector names
    ticking,  \* SYST_CSR: SysTick counts and interrupts
    pending,  \* the exceptions that are pending
    active,   \* the exceptions being handled, the running one the most urgent
    handler,  \* where each handler is
    halted    \* a configASSERT failed, or the kernel's lists were used too early

exceptionVars == <<prio, vector, ticking>>
scheduleVars == <<current, ready, asleep>>
handlingVars == <<pending, active, handler>>
vars == <<boot, pc, depth, current, ready, asleep, basepri, primask, nesting, prio,
          vector, ticking, pending, active, handler, halted>>

-----------------------------------------------------------------------------
(* Taking exceptions and masking them.                                     *)

\* The processor takes e now.
Taken(e) ==
    /\ e \in pending
    /\ ~primask
    /\ basepri = 0 \/ prio[e] < basepri
    /\ \A f \in active : prio[e] < prio[f]

\* Of several exceptions the processor takes the most urgent one first, and of
\* equally urgent ones the one with the lower number.
Precedes(e, f) ==
    \/ prio[e] < prio[f]
    \/ prio[e] = prio[f] /\ ExceptionNumber[e] =< ExceptionNumber[f]

Undisturbed == ~halted /\ \A e \in Exceptions : ~Taken(e)

ThreadRuns(t) == Undisturbed /\ active = {} /\ current = t

HandlerRuns(e) ==
    /\ Undisturbed
    /\ e \in active
    /\ \A f \in active \ {e} : prio[e] < prio[f]

\* A peripheral raises its interrupt.  usb_init enabled the USB interrupt
\* before the hook; SysTick interrupts while it counts.  (Raised while it is
\* handled, it would be taken right after: as if it were raised then.)
Raise(e) ==
    /\ e \in {"systick", "usb"} \ (pending \cup active)
    /\ e = "systick" => ticking /\ (boot = "stop" => TickBetweenStores)
    /\ pending' = pending \cup {e}
    /\ UNCHANGED <<boot, pc, depth, scheduleVars, basepri, primask, nesting,
                   exceptionVars, active, handler, halted>>

Enter(e) ==
    /\ ~halted
    /\ Taken(e)
    /\ \A f \in pending : Taken(f) => Precedes(e, f)
    /\ pending' = pending \ {e}
    /\ active' = active \cup {e}
    /\ handler' = [handler EXCEPT ![e] = "entry"]
    /\ UNCHANGED <<boot, pc, depth, scheduleVars, basepri, primask, nesting,
                   exceptionVars, halted>>

Return(e) ==
    /\ active' = active \ {e}
    /\ handler' = [handler EXCEPT ![e] = "idle"]

\* vPortRaiseBASEPRI and vPortSetBASEPRI(0).  The first also clears PRIMASK, which
\* is clear wherever it is called.
portDISABLE_INTERRUPTS == basepri' = configMAX_SYSCALL_INTERRUPT_PRIORITY
portENABLE_INTERRUPTS == basepri' = 0

\* Raising BASEPRI first makes the rest of each one step.
vPortEnterCritical ==
    /\ portDISABLE_INTERRUPTS
    /\ nesting' = nesting + 1
    /\ halted' = (nesting' = 1 /\ active # {})

\* Mutant: interrupts are enabled at every exit.
vPortExitCriticalAtOnce ==
    /\ nesting' = IF nesting = 0 THEN 0 ELSE nesting - 1
    /\ halted' = (nesting = 0)
    /\ basepri' = 0
vPortExitCritical ==
    /\ nesting' = IF nesting = 0 THEN 0 ELSE nesting - 1
    /\ halted' = (nesting = 0)
    /\ basepri' = IF nesting' = 0 THEN 0 ELSE basepri

-----------------------------------------------------------------------------
(* startup_late_hook, main, vTaskStartScheduler and xPortStartScheduler.   *)

Init ==
    /\ boot = "mask"
    /\ pc = [t \in Tasks |-> IF t \in Pollers THEN "recv" ELSE "run"]
    /\ depth = [t \in Tasks |-> 0]
    /\ current = "main"
    /\ ready = << >>
    /\ asleep = {}
    /\ basepri = 0
    /\ primask = FALSE
    /\ nesting = UNSTARTED
    /\ prio = [e \in Exceptions |-> IF e = "usb" THEN 128 ELSE 32]
    /\ vector = [e \in Exceptions |-> "teensy"]
    /\ ticking = TRUE
    /\ pending = {}
    /\ active = {}
    /\ handler = [e \in Exceptions |-> "idle"]
    /\ halted = FALSE

\* One step of main's thread.
Main(from, to) ==
    /\ ThreadRuns("main")
    /\ boot = from
    /\ boot' = to
    /\ UNCHANGED <<pc, depth, primask, pending, active, handler>>

HookMask ==
    /\ Main("mask", "handlers")
    /\ portDISABLE_INTERRUPTS
    /\ UNCHANGED <<scheduleVars, nesting, exceptionVars, halted>>

\* Mutant: the PendSV vector is not stored.
HookHandlersMissing ==
    /\ Main("handlers", "tick")
    /\ UNCHANGED <<scheduleVars, basepri, nesting, exceptionVars, halted>>
\* The SVCall vector, stored here too, is used once, by StartFirstTask.
HookHandlers ==
    /\ Main("handlers", "tick")
    /\ vector' = [vector EXCEPT !["pendsv"] = "port"]
    /\ UNCHANGED <<scheduleVars, basepri, nesting, prio, ticking, halted>>

HookTickHandler ==
    /\ Main("tick", "stop")
    /\ vector' = [vector EXCEPT !["systick"] = "port"]
    /\ UNCHANGED <<scheduleVars, basepri, nesting, prio, ticking, halted>>

HookStopTick ==
    /\ Main("stop", "priorities")
    /\ ticking' = FALSE
    /\ UNCHANGED <<scheduleVars, basepri, nesting, prio, vector, halted>>

HookPriorities ==
    /\ Main("priorities", "create")
    /\ prio' = [prio EXCEPT !["usb"] = 224]
    /\ UNCHANGED <<scheduleVars, basepri, nesting, vector, ticking, halted>>

\* Every xTaskCreateStatic, main's and the scheduler's own, puts its task into
\* the ready list in a critical section; the count never gets back to 0.  (The
\* idle task, which the scheduler creates like the timer task, is left out: its
\* priority is the lowest and a poller is always ready.)
CreateTask ==
    /\ Main("create", "creating")
    /\ Len(ready) < Len(Created)
    /\ vPortEnterCritical
    /\ ready' = Append(ready, Created[Len(ready) + 1])
    /\ UNCHANGED <<current, asleep, exceptionVars>>

TaskCreated ==
    /\ Main("creating", "create")
    /\ vPortExitCritical
    /\ UNCHANGED <<scheduleVars, exceptionVars>>

\* vTaskStartScheduler disables interrupts again; xPortStartScheduler asserts
\* that its handlers are installed and that every bit of the highest system
\* call priority is implemented.
StartScheduler ==
    /\ Main("create", "lowest")
    /\ Len(ready) = Len(Created)
    /\ portDISABLE_INTERRUPTS
    /\ halted' = \/ vector["pendsv"] # "port"
                 \/ configMAX_SYSCALL_INTERRUPT_PRIORITY = 0
                 \/ configMAX_SYSCALL_INTERRUPT_PRIORITY % (256 - LOWEST) # 0
    /\ UNCHANGED <<scheduleVars, nesting, exceptionVars>>

\* Mutant: only SysTick gets the lowest priority.
LowestPrioritiesTickOnly ==
    /\ Main("lowest", "timer")
    /\ prio' = [prio EXCEPT !["systick"] = LOWEST]
    /\ UNCHANGED <<scheduleVars, basepri, nesting, vector, ticking, halted>>
LowestPriorities ==
    /\ Main("lowest", "timer")
    /\ prio' = [prio EXCEPT !["pendsv"] = LOWEST, !["systick"] = LOWEST]
    /\ UNCHANGED <<scheduleVars, basepri, nesting, vector, ticking, halted>>

vPortSetupTimerInterrupt ==
    /\ Main("timer", "nesting")
    /\ ticking' = TRUE
    /\ UNCHANGED <<scheduleVars, basepri, nesting, prio, vector, halted>>

\* Mutant: uxCriticalNesting is not reset.
ResetNestingMissing ==
    /\ Main("nesting", "first")
    /\ UNCHANGED <<scheduleVars, basepri, nesting, exceptionVars, halted>>
ResetNesting ==
    /\ Main("nesting", "first")
    /\ nesting' = 0
    /\ UNCHANGED <<scheduleVars, basepri, exceptionVars, halted>>

\* prvPortStartFirstTask and vPortSVCHandler: the supervisor call (priority 0,
\* so BASEPRI does not mask it) starts the task created last.
StartFirstTask ==
    /\ Main("first", "started")
    /\ current' = Created[Len(Created)]
    /\ ready' = SubSeq(Created, 1, Len(Created) - 1)
    /\ portENABLE_INTERRUPTS
    /\ UNCHANGED <<asleep, nesting, exceptionVars, halted>>

MainThread ==
    \/ HookMask \/ HookHandlers \/ HookTickHandler \/ HookStopTick
    \/ HookPriorities \/ CreateTask \/ TaskCreated \/ StartScheduler
    \/ LowestPriorities \/ vPortSetupTimerInterrupt \/ ResetNesting
    \/ StartFirstTask

-----------------------------------------------------------------------------
(* The handlers.                                                           *)

\* systick_isr, before the hook replaces it, only counts milliseconds.
TeensyTick ==
    /\ HandlerRuns("systick")
    /\ vector["systick"] = "teensy"
    /\ Return("systick")
    /\ UNCHANGED <<boot, pc, depth, scheduleVars, basepri, primask, nesting,
                   exceptionVars, pending, halted>>

TickMask ==
    /\ HandlerRuns("systick")
    /\ vector["systick"] = "port"
    /\ handler["systick"] = "entry"
    /\ portDISABLE_INTERRUPTS
    /\ handler' = [handler EXCEPT !["systick"] = "masked"]
    /\ UNCHANGED <<boot, pc, depth, scheduleVars, primask, nesting,
                   exceptionVars, pending, active, halted>>

\* xTaskIncrementTick may ready a sleeper whose delay ended, behind every other
\* ready task, and may then ask for a switch, which the port leaves to PendSV.
\* (With the tasks' equal priorities and without time slicing the kernel of
\* today does not ask; nothing here depends on it.  No delay ends within the
\* instructions between its call and its yield.)  Before the scheduler the
\* kernel has no lists.
IncrementTick ==
    /\ HandlerRuns("systick")
    /\ handler["systick"] = "masked"
    /\ \/ UNCHANGED <<ready, asleep, pending>>
       \/ \E t \in (Waking \cap asleep) \ {current} :
             /\ ready' = Append(ready, t)
             /\ asleep' = asleep \ {t}
             /\ pending' \in {pending, pending \cup {"pendsv"}}
    /\ halted' = (boot # "started")
    /\ handler' = [handler EXCEPT !["systick"] = "exit"]
    /\ UNCHANGED <<boot, pc, depth, current, basepri, primask, nesting,
                   exceptionVars, active>>

TickUnmask ==
    /\ HandlerRuns("systick")
    /\ handler["systick"] = "exit"
    /\ portENABLE_INTERRUPTS
    /\ Return("systick")
    /\ UNCHANGED <<boot, pc, depth, scheduleVars, primask, nesting,
                   exceptionVars, pending, halted>>

SwitchMask ==
    /\ HandlerRuns("pendsv")
    /\ handler["pendsv"] = "entry"
    /\ portDISABLE_INTERRUPTS
    /\ handler' = [handler EXCEPT !["pendsv"] = "masked"]
    /\ UNCHANGED <<boot, pc, depth, scheduleVars, primask, nesting,
                   exceptionVars, pending, active, halted>>

\* vTaskSwitchContext takes the next task of the rotation; the running one, if
\* it is still ready, goes to the end.  (Pollers never block: one is ready.)
SwitchContext ==
    /\ HandlerRuns("pendsv")
    /\ handler["pendsv"] = "masked"
    /\ LET rotation == IF current \in asleep THEN ready
                       ELSE Append(ready, current)
       IN /\ rotation # << >>
          /\ current' = Head(rotation)
          /\ ready' = Tail(rotation)
    /\ handler' = [handler EXCEPT !["pendsv"] = "exit"]
    /\ UNCHANGED <<boot, pc, depth, asleep, basepri, primask, nesting,
                   exceptionVars, pending, active, halted>>

SwitchUnmask ==
    /\ HandlerRuns("pendsv")
    /\ handler["pendsv"] = "exit"
    /\ portENABLE_INTERRUPTS
    /\ Return("pendsv")
    /\ UNCHANGED <<boot, pc, depth, scheduleVars, primask, nesting,
                   exceptionVars, pending, halted>>

\* usb_isr, which may schedule a transfer with interrupts disabled.
UsbDisableIrq ==
    /\ HandlerRuns("usb")
    /\ handler["usb"] = "entry"
    /\ primask' = TRUE
    /\ handler' = [handler EXCEPT !["usb"] = "masked"]
    /\ UNCHANGED <<boot, pc, depth, scheduleVars, basepri, nesting,
                   exceptionVars, pending, active, halted>>

UsbEnableIrq ==
    /\ HandlerRuns("usb")
    /\ handler["usb"] = "masked"
    /\ primask' = FALSE
    /\ handler' = [handler EXCEPT !["usb"] = "entry"]
    /\ UNCHANGED <<boot, pc, depth, scheduleVars, basepri, nesting,
                   exceptionVars, pending, active, halted>>

UsbReturn ==
    /\ HandlerRuns("usb")
    /\ handler["usb"] = "entry"
    /\ Return("usb")
    /\ UNCHANGED <<boot, pc, depth, scheduleVars, basepri, primask, nesting,
                   exceptionVars, pending, halted>>

Handlers ==
    \/ TeensyTick \/ TickMask \/ IncrementTick \/ TickUnmask
    \/ SwitchMask \/ SwitchContext \/ SwitchUnmask
    \/ UsbDisableIrq \/ UsbEnableIrq \/ UsbReturn

-----------------------------------------------------------------------------
(* The tasks.                                                              *)

Step(t, from, to) ==
    /\ ThreadRuns(t)
    /\ pc[t] = from
    /\ pc' = [pc EXCEPT ![t] = to]
    /\ UNCHANGED <<boot, current, ready, exceptionVars, active, handler>>

\* Mutant: the command runs with interrupts enabled.
RunCommandUnmasked(t) ==
    /\ Step(t, "recv", "command")
    /\ UNCHANGED <<depth, asleep, basepri, primask, nesting, pending, halted>>
\* CmsisDapTask: usb_cmsis_dap_recv returns a request, and the command runs
\* with interrupts disabled, or it polls in vain until its timeout.  (The buffer
\* recv queues again is scheduled as send's is.)
RunCommand(t) ==
    /\ Step(t, "recv", "command")
    /\ portDISABLE_INTERRUPTS
    /\ UNCHANGED <<depth, asleep, primask, nesting, pending, halted>>

RecvTimeout(t) ==
    /\ Step(t, "recv", "check")
    /\ UNCHANGED <<depth, asleep, basepri, primask, nesting, pending, halted>>

CommandDone(t) ==
    /\ Step(t, "command", "send")
    /\ portENABLE_INTERRUPTS
    /\ UNCHANGED <<depth, asleep, primask, nesting, pending, halted>>

\* usb_cmsis_dap_send queues its transfer between __disable_irq and
\* __enable_irq, or gives up.
SendDisableIrq(t) ==
    /\ Step(t, "send", "queue")
    /\ primask' = TRUE
    /\ UNCHANGED <<depth, asleep, basepri, nesting, pending, halted>>

SendFails(t) ==
    /\ Step(t, "send", "check")
    /\ UNCHANGED <<depth, asleep, basepri, primask, nesting, pending, halted>>

SendEnableIrq(t) ==
    /\ Step(t, "queue", "check")
    /\ primask' = FALSE
    /\ UNCHANGED <<depth, asleep, basepri, nesting, pending, halted>>

\* More requests are waiting: the task keeps the processor.
GoOn(t) ==
    /\ Step(t, "check", "recv")
    /\ UNCHANGED <<depth, asleep, basepri, primask, nesting, pending, halted>>

\* taskYIELD
YieldWhenIdle(t) ==
    /\ Step(t, "check", "recv")
    /\ pending' = pending \cup {"pendsv"}
    /\ UNCHANGED <<depth, asleep, basepri, primask, nesting, halted>>

\* A task blocks: it leaves the rotation in a critical section of the kernel,
\* which may nest others, and then yields.
Delay(t) ==
    /\ Step(t, "run", "delay")
    /\ vPortEnterCritical
    /\ depth' = [depth EXCEPT ![t] = @ + 1]
    /\ UNCHANGED <<asleep, primask, pending>>

NestedEnter(t) ==
    /\ Step(t, "delay", "delay")
    /\ depth[t] < MaxDepth
    /\ vPortEnterCritical
    /\ depth' = [depth EXCEPT ![t] = @ + 1]
    /\ UNCHANGED <<asleep, primask, pending>>

NestedExit(t) ==
    /\ Step(t, "delay", "delay")
    /\ depth[t] > 1
    /\ vPortExitCritical
    /\ depth' = [depth EXCEPT ![t] = @ - 1]
    /\ UNCHANGED <<asleep, primask, pending>>

LeaveRotation(t) ==
    /\ Step(t, "delay", "asleep")
    /\ depth[t] = 1
    /\ asleep' = asleep \cup {t}
    /\ UNCHANGED <<depth, basepri, primask, nesting, pending, halted>>

DelayExit(t) ==
    /\ Step(t, "asleep", "yield")
    /\ vPortExitCritical
    /\ depth' = [depth EXCEPT ![t] = @ - 1]
    /\ UNCHANGED <<asleep, primask, pending>>

DelayYield(t) ==
    /\ Step(t, "yield", "run")
    /\ pending' = pending \cup {"pendsv"}
    /\ UNCHANGED <<depth, asleep, basepri, primask, nesting, halted>>

Poller(t) ==
    \/ RunCommand(t) \/ RecvTimeout(t) \/ CommandDone(t) \/ SendDisableIrq(t)
    \/ SendFails(t) \/ SendEnableIrq(t) \/ GoOn(t) \/ YieldWhenIdle(t)

Sleeper(t) ==
    \/ Delay(t) \/ NestedEnter(t) \/ NestedExit(t) \/ LeaveRotation(t)
    \/ DelayExit(t) \/ DelayYield(t)

Next ==
    \/ \E e \in Exceptions : Raise(e) \/ Enter(e)
    \/ MainThread
    \/ Handlers
    \/ \E t \in Pollers : Poller(t)
    \/ \E t \in Sleepers : Sleeper(t)

Spec == Init /\ [][Next]_vars

-----------------------------------------------------------------------------
(* Fairness: the processor runs; interrupts come more slowly than it       *)
(* handles them; the tick counts on and ends every delay; the kernel's     *)
(* nested critical sections end; and the host pauses: a task that checks   *)
(* for requests again and again does not find one every time.              *)

InterruptsLeaveTime == []<>(active = {} /\ \A e \in Exceptions : ~Taken(e))

Fairness ==
    /\ InterruptsLeaveTime
    /\ WF_vars(Handlers) /\ SF_vars(UsbReturn)
    /\ \A e \in Exceptions : WF_vars(Enter(e))
    /\ WF_vars(Raise("systick"))
    /\ \A t \in Waking : SF_vars(IncrementTick /\ t \in asleep /\ t \notin asleep')
    /\ SF_vars(MainThread)
    /\ \A t \in Pollers : SF_vars(Poller(t)) /\ SF_vars(YieldWhenIdle(t))
    /\ \A t \in Sleepers : SF_vars(Sleeper(t)) /\ SF_vars(LeaveRotation(t))

FairSpec == Spec /\ Fairness

-----------------------------------------------------------------------------
(* Properties.                                                             *)

\* Every variable keeps to its type, and no kernel assertion ever fails.
TypeOK ==
    /\ boot \in BootSteps
    /\ pc \in [Tasks -> TaskSteps]
    /\ depth \in [Tasks -> 0 .. MaxDepth]
    /\ current \in Tasks \cup {"main"}
    /\ ready \in Seq(Tasks)
    /\ asleep \in SUBSET Sleepers
    /\ basepri \in {0, configMAX_SYSCALL_INTERRUPT_PRIORITY}
    /\ primask \in BOOLEAN
    /\ nesting \in Nat
    /\ prio \in [Exceptions -> {32, 128, 224, LOWEST}]
    /\ vector \in [Exceptions -> {"teensy", "port"}]
    /\ ticking \in BOOLEAN
    /\ pending \in SUBSET Exceptions
    /\ active \in SUBSET Exceptions
    /\ handler \in [Exceptions -> HandlerSteps]
    /\ halted = FALSE

\* t is where nobody may interrupt it: in a critical section of the kernel, in
\* a command that runs with interrupts disabled, or scheduling a transfer.
Inside(t) == depth[t] > 0 \/ pc[t] \in {"command", "queue"}

\* The point of portDISABLE_INTERRUPTS, __disable_irq and the critical sections:
\* whoever is inside one has the processor to itself.  No other task is in one,
\* although the nesting count is shared by all tasks and not saved at a switch,
\* and neither the USB interrupt, the tick nor a switch is half done.
MaskedMeansAlone == \A t \in Tasks : Inside(t) => current = t /\ active = {}

\* From the moment the late hook has stopped the tick, nothing interrupts
\* start-up until the first task runs: the critical sections that create the
\* tasks do not let interrupts in, because the count starts far from zero.
PreparedInSilence ==
    boot \in BootSteps \ {"mask", "handlers", "tick", "stop", "started"} =>
        active = {} /\ basepri # 0

\* A switch of tasks waits for every other handler to return: the USB interrupt
\* is never left half done on the stack of a task that does not run, so the
\* queues it shares with the next task are whole.
SwitchLeavesNoHandlerOpen ==
    [][current' \notin {current, "main"} => active \subseteq {"pendsv"}]_vars

\* The scheduler starts, and a task that delays itself runs again and again
\* although CmsisDapTask never blocks and the tick does not share out time: it
\* depends on the host pausing often enough for CmsisDapTask to yield.
WakingTasksRun == \A t \in Waking : []<>(current = t /\ pc[t] = "delay")
=============================================================================
