---------------------------- MODULE FirmwareProofs ----------------------------
(***************************************************************************)
(* Proofs about the port, about start-up and the crash handler, and about  *)
(* the whole firmware.                                                     *)
(*                                                                         *)
(* The port, for any tasks, any nesting of critical sections and any start *)
(* value of the nesting count but 0: no kernel assertion fails, whoever    *)
(* masks interrupts is alone, start-up is not interrupted, and a switch    *)
(* leaves no handler open.  The inductive invariant has four parts beside  *)
(* the types.  StartInv says, step by step of start-up, why no exception   *)
(* is taken: nothing that is pending is urgent enough; QuietInv, why no    *)
(* tick comes after its handler is stored and what the count is.  RunInv   *)
(* says that a running task which is inside a section has masked every     *)
(* exception, so that the count of its sections is the shared one and a    *)
(* switch meets it only at 0.  DepthInv relates a task's sections to where *)
(* it is.                                                                  *)
(*                                                                         *)
(* Start-up and the crash handler, for any PSRAM chips, any number of      *)
(* crashes and any time the crash handler serves USB.                      *)
(***************************************************************************)
EXTENDS Firmware, TLAPS

-----------------------------------------------------------------------------
(* The port.                                                               *)

Early == {"mask", "handlers", "tick"}
Quiet == BootSteps \ (Early \cup {"started"})
HandledBySystem == {"timer", "nesting", "first"}

StartInv ==
    boot # "started" =>
        /\ current = "main"
        /\ \A t \in Tasks : depth[t] = 0 /\ pc[t] \in {"recv", "run"}
        /\ "pendsv" \notin pending \cup active
        /\ handler["systick"] \in {"idle", "entry"}
        /\ primask => "usb" \in active /\ handler["usb"] = "masked"
        /\ prio["usb"] \in {128, 224}
        /\ boot # "mask" => basepri = configMAX_SYSCALL_INTERRUPT_PRIORITY
        /\ boot \in Early => vector["systick"] = "teensy" /\ nesting = UNSTARTED
        /\ boot \notin {"mask", "handlers"} => vector["pendsv"] = "port"
        /\ boot \notin HandledBySystem => prio["systick"] = 32
        /\ boot \in Quiet => active = {}

\* From the moment the late hook has stored the tick's handler.
QuietInv ==
    boot \in Quiet =>
        /\ boot \in HandledBySystem =>
              prio["systick"] = LOWEST /\ prio["pendsv"] = LOWEST
        /\ boot \notin HandledBySystem => "systick" \notin pending
        /\ boot \notin {"stop", "nesting", "first"} => ~ticking
        /\ boot \notin {"stop", "priorities"} => prio["usb"] = 224
        /\ nesting = IF boot = "creating" THEN UNSTARTED + 1
                     ELSE IF boot = "first" THEN 0 ELSE UNSTARTED

RunInv ==
    boot = "started" =>
        /\ current \in Tasks
        /\ prio["usb"] = 224 /\ prio["systick"] = LOWEST /\ prio["pendsv"] = LOWEST
        /\ nesting = depth[current]
        /\ MaskedMeansAlone
        /\ depth[current] > 0 \/ pc[current] = "command" =>
              basepri = configMAX_SYSCALL_INTERRUPT_PRIORITY
        /\ pc[current] = "queue" => primask

DepthInv ==
    \A t \in Tasks :
        /\ depth[t] > 0 <=> pc[t] \in {"delay", "asleep"}
        /\ pc[t] = "asleep" => depth[t] = 1

KernelInv == TypeOK /\ StartInv /\ QuietInv /\ RunInv /\ DepthInv

-----------------------------------------------------------------------------
(* What the masking buys.                                                  *)

\* Nothing is taken once the hook has stored the tick's handler, and nothing
\* while a task is inside a section.
LEMMA MaskedTakesNothing ==
    ASSUME KernelInv, NEW e \in Exceptions, Taken(e)
    PROVE  /\ boot \notin Quiet
           /\ boot # "started" => e # "pendsv"
           /\ boot = "started" => \A t \in Tasks : ~Inside(t)
<1> USE DEF KernelInv, Taken, Exceptions
<1>1. boot # "started" => e # "pendsv"
    BY DEF StartInv
<1>2. boot \notin Quiet
    <2> SUFFICES ASSUME boot \in Quiet PROVE FALSE
        OBVIOUS
    <2>1. basepri = 112 /\ prio["usb"] \in {128, 224} /\ e # "pendsv"
        BY DEF StartInv, Quiet, Early, configMAX_SYSCALL_INTERRUPT_PRIORITY
    <2>2. e = "systick"
        BY <2>1
    <2>3. boot \in HandledBySystem /\ prio["systick"] = 240
        BY <2>2 DEF QuietInv, LOWEST
    <2> QED
        BY <2>1, <2>2, <2>3
<1>3. ASSUME boot = "started", NEW t \in Tasks, Inside(t)
      PROVE  FALSE
    <2>1. current = t /\ t \in Tasks
        BY <1>3 DEF RunInv, MaskedMeansAlone
    <2>2. primask \/ basepri = 112
        BY <1>3, <2>1
        DEF RunInv, Inside, configMAX_SYSCALL_INTERRUPT_PRIORITY
    <2>3. prio[e] \in {224, 240}
        BY <1>3 DEF RunInv, LOWEST
    <2> QED
        BY <2>2, <2>3
<1> QED
    BY <1>1, <1>2, <1>3

\* When main runs with interrupts masked up to the system calls' priority, the
\* tick is not pending: its own priority is still more urgent.
LEMMA TickHasBeenTaken ==
    ASSUME KernelInv, ThreadRuns("main"), boot \in Early
    PROVE  "systick" \notin pending
<1> SUFFICES ASSUME "systick" \in pending PROVE FALSE
    OBVIOUS
<1>1. active = {} /\ ~Taken("systick")
    BY DEF ThreadRuns, Undisturbed, Exceptions
<1>2. ~primask /\ prio["systick"] = 32 /\ basepri \in {0, 112}
    BY <1>1 DEF KernelInv, StartInv, TypeOK, Early, HandledBySystem,
                configMAX_SYSCALL_INTERRUPT_PRIORITY
<1> QED
    BY <1>1, <1>2 DEF Taken

-----------------------------------------------------------------------------
(* Start-up.                                                               *)

\* The invariant holds when the hook is entered.
LEMMA InitHolds == Init => KernelInv
<1> SUFFICES ASSUME Init PROVE KernelInv
    OBVIOUS
<1> USE KernelPortAssumption DEF Init
<1>1. TypeOK
    <2>1. ready \in Seq(Tasks)
        OBVIOUS
    <2>2. pc \in [Tasks -> TaskSteps] /\ depth \in [Tasks -> 0 .. MaxDepth]
        BY DEF TaskSteps
    <2>3. /\ prio \in [Exceptions -> {32, 128, 224, LOWEST}]
          /\ vector \in [Exceptions -> {"teensy", "port"}]
          /\ handler \in [Exceptions -> HandlerSteps]
        BY DEF HandlerSteps
    <2> QED
        BY <2>1, <2>2, <2>3 DEF TypeOK, BootSteps
<1>2. StartInv /\ QuietInv /\ RunInv
    BY DEF StartInv, QuietInv, RunInv, Early, Quiet, HandledBySystem, BootSteps,
           Exceptions
<1>3. DepthInv
    BY DEF DepthInv
<1> QED
    BY <1>1, <1>2, <1>3 DEF KernelInv

\* A step of main keeps what it does not touch: the tasks do not run yet.
LEMMA MainRuns ==
    ASSUME NEW from, NEW to, KernelInv, Main(from, to)
    PROVE  /\ boot = from /\ boot' = to
           /\ active = {} /\ ~primask
           /\ UNCHANGED <<pc, depth, primask, pending, active, handler>>
           /\ DepthInv'
<1> USE DEF Main, ThreadRuns, Undisturbed
<1>1. current = "main" /\ active = {} /\ boot = from
    OBVIOUS
<1>2. boot # "started"
    BY <1>1, KernelPortAssumption DEF KernelInv, RunInv
<1>3. ~primask
    BY <1>1, <1>2 DEF KernelInv, StartInv, TypeOK
<1>4. DepthInv'
    BY DEF KernelInv, DepthInv
<1> QED
    BY <1>1, <1>3, <1>4

\* startup_late_hook keeps it.
LEMMA HookHolds ==
    ASSUME ~TickBetweenStores, KernelInv,
           HookMask \/ HookHandlers \/ HookTickHandler \/ HookStopTick
               \/ HookPriorities
    PROVE  KernelInv'
<1> USE DEF Early, Quiet, HandledBySystem, BootSteps
<1>1. CASE HookMask
    <2>1. /\ boot = "mask" /\ boot' = "handlers"
          /\ UNCHANGED <<pc, depth, primask, pending, active, handler>>
          /\ DepthInv'
        BY <1>1, MainRuns DEF HookMask
    <2>2. TypeOK'
        BY <1>1, <2>1
        DEF KernelInv, TypeOK, HookMask, portDISABLE_INTERRUPTS, scheduleVars,
            exceptionVars
    <2>3. StartInv' /\ QuietInv' /\ RunInv'
        BY <1>1, <2>1
        DEF KernelInv, StartInv, QuietInv, RunInv, HookMask,
            portDISABLE_INTERRUPTS, scheduleVars, exceptionVars
    <2> QED
        BY <2>1, <2>2, <2>3 DEF KernelInv
<1>2. CASE HookHandlers
    <2>1. /\ boot = "handlers" /\ boot' = "tick"
          /\ UNCHANGED <<pc, depth, primask, pending, active, handler>>
          /\ DepthInv'
        BY <1>2, MainRuns DEF HookHandlers
    <2>2. TypeOK'
        BY <1>2, <2>1 DEF KernelInv, TypeOK, HookHandlers, scheduleVars
    <2>3. StartInv' /\ QuietInv' /\ RunInv'
        BY <1>2, <2>1
        DEF KernelInv, TypeOK, StartInv, QuietInv, RunInv, HookHandlers,
            scheduleVars, Exceptions
    <2> QED
        BY <2>1, <2>2, <2>3 DEF KernelInv
<1>3. CASE HookTickHandler
    <2>1. /\ boot = "tick" /\ boot' = "stop"
          /\ active = {}
          /\ UNCHANGED <<pc, depth, primask, pending, active, handler>>
          /\ DepthInv'
        BY <1>3, MainRuns DEF HookTickHandler
    <2>2. "systick" \notin pending
        BY <1>3, <2>1, TickHasBeenTaken DEF HookTickHandler, Main
    <2>3. TypeOK'
        BY <1>3, <2>1 DEF KernelInv, TypeOK, HookTickHandler, scheduleVars
    <2>4. StartInv' /\ QuietInv' /\ RunInv'
        BY <1>3, <2>1, <2>2
        DEF KernelInv, TypeOK, StartInv, QuietInv, RunInv, HookTickHandler,
            scheduleVars, Exceptions
    <2> QED
        BY <2>1, <2>3, <2>4 DEF KernelInv
<1>4. CASE HookStopTick
    <2>1. /\ boot = "stop" /\ boot' = "priorities"
          /\ active = {}
          /\ UNCHANGED <<pc, depth, primask, pending, active, handler>>
          /\ DepthInv'
        BY <1>4, MainRuns DEF HookStopTick
    <2>2. TypeOK'
        BY <1>4, <2>1 DEF KernelInv, TypeOK, HookStopTick, scheduleVars
    <2>3. StartInv' /\ QuietInv' /\ RunInv'
        BY <1>4, <2>1
        DEF KernelInv, StartInv, QuietInv, RunInv, HookStopTick, scheduleVars
    <2> QED
        BY <2>1, <2>2, <2>3 DEF KernelInv
<1>5. CASE HookPriorities
    <2>1. /\ boot = "priorities" /\ boot' = "create"
          /\ active = {}
          /\ UNCHANGED <<pc, depth, primask, pending, active, handler>>
          /\ DepthInv'
        BY <1>5, MainRuns DEF HookPriorities
    <2>2. TypeOK'
        BY <1>5, <2>1 DEF KernelInv, TypeOK, HookPriorities, scheduleVars
    <2>3. StartInv' /\ QuietInv' /\ RunInv'
        BY <1>5, <2>1
        DEF KernelInv, TypeOK, StartInv, QuietInv, RunInv, HookPriorities,
            scheduleVars, Exceptions
    <2> QED
        BY <2>1, <2>2, <2>3 DEF KernelInv
<1> QED
    BY <1>1, <1>2, <1>3, <1>4, <1>5

\* Creating a task keeps it: the count stays above its start.
LEMMA CreateHolds ==
    ASSUME KernelInv, CreateTask \/ TaskCreated
    PROVE  KernelInv'
<1> USE KernelPortAssumption DEF Early, Quiet, HandledBySystem, BootSteps
<1>1. CASE CreateTask
    <2>1. /\ boot = "create" /\ boot' = "creating"
          /\ active = {}
          /\ UNCHANGED <<pc, depth, primask, pending, active, handler>>
          /\ DepthInv'
        BY <1>1, MainRuns DEF CreateTask
    <2>2. /\ nesting = UNSTARTED /\ nesting' = UNSTARTED + 1
          /\ basepri' = configMAX_SYSCALL_INTERRUPT_PRIORITY
          /\ halted' = FALSE
        BY <1>1, <2>1
        DEF KernelInv, QuietInv, CreateTask, vPortEnterCritical,
            portDISABLE_INTERRUPTS
    <2>3. ready' \in Seq(Tasks)
        <3>1. ready \in Seq(Tasks) /\ Len(ready) < Len(Created)
            BY <1>1 DEF KernelInv, TypeOK, CreateTask
        <3>2. Created[Len(ready) + 1] \in Tasks
            BY <3>1
        <3>3. ready' = Append(ready, Created[Len(ready) + 1])
            BY <1>1 DEF CreateTask
        <3> QED
            BY <3>1, <3>2, <3>3
    <2>4. TypeOK'
        BY <1>1, <2>1, <2>2, <2>3 DEF KernelInv, TypeOK, CreateTask, exceptionVars
    <2>5. StartInv' /\ QuietInv' /\ RunInv'
        BY <1>1, <2>1, <2>2
        DEF KernelInv, StartInv, QuietInv, RunInv, CreateTask, exceptionVars
    <2> QED
        BY <2>1, <2>4, <2>5 DEF KernelInv
<1>2. CASE TaskCreated
    <2>1. /\ boot = "creating" /\ boot' = "create"
          /\ active = {}
          /\ UNCHANGED <<pc, depth, primask, pending, active, handler>>
          /\ DepthInv'
        BY <1>2, MainRuns DEF TaskCreated
    <2>2. nesting = UNSTARTED + 1
        BY <2>1 DEF KernelInv, QuietInv
    <2>3. nesting' = UNSTARTED /\ halted' = FALSE /\ UNCHANGED basepri
        <3>1. nesting # 0 /\ nesting - 1 = UNSTARTED /\ UNSTARTED # 0
            BY <2>2
        <3> QED
            BY <1>2, <3>1 DEF TaskCreated, vPortExitCritical
    <2>4. TypeOK'
        BY <1>2, <2>1, <2>3 DEF KernelInv, TypeOK, TaskCreated, scheduleVars,
                                exceptionVars
    <2>5. StartInv' /\ QuietInv' /\ RunInv'
        BY <1>2, <2>1, <2>3
        DEF KernelInv, StartInv, QuietInv, RunInv, TaskCreated, scheduleVars,
            exceptionVars
    <2> QED
        BY <2>1, <2>4, <2>5 DEF KernelInv
<1> QED
    BY <1>1, <1>2

\* So does xPortStartScheduler up to the first task.
LEMMA SchedulerHolds ==
    ASSUME KernelInv,
           StartScheduler \/ LowestPriorities \/ vPortSetupTimerInterrupt
               \/ ResetNesting
    PROVE  KernelInv'
<1> USE KernelPortAssumption DEF Early, Quiet, HandledBySystem, BootSteps
<1>1. CASE StartScheduler
    <2>1. /\ boot = "create" /\ boot' = "lowest"
          /\ active = {}
          /\ UNCHANGED <<pc, depth, primask, pending, active, handler>>
          /\ DepthInv'
        BY <1>1, MainRuns DEF StartScheduler
    <2>2. halted' = FALSE
        <3>1. vector["pendsv"] = "port"
            BY <2>1 DEF KernelInv, StartInv
        <3>2. 112 % (256 - 240) = 0
            OBVIOUS
        <3> QED
            BY <1>1, <3>1, <3>2
            DEF StartScheduler, configMAX_SYSCALL_INTERRUPT_PRIORITY, LOWEST
    <2>3. TypeOK'
        BY <1>1, <2>1, <2>2
        DEF KernelInv, TypeOK, StartScheduler, portDISABLE_INTERRUPTS,
            scheduleVars, exceptionVars
    <2>4. StartInv' /\ QuietInv' /\ RunInv'
        BY <1>1, <2>1
        DEF KernelInv, StartInv, QuietInv, RunInv, StartScheduler,
            portDISABLE_INTERRUPTS, scheduleVars, exceptionVars
    <2> QED
        BY <2>1, <2>3, <2>4 DEF KernelInv
<1>2. CASE LowestPriorities
    <2>1. /\ boot = "lowest" /\ boot' = "timer"
          /\ active = {}
          /\ UNCHANGED <<pc, depth, primask, pending, active, handler>>
          /\ DepthInv'
        BY <1>2, MainRuns DEF LowestPriorities
    <2>2. TypeOK'
        BY <1>2, <2>1 DEF KernelInv, TypeOK, LowestPriorities, scheduleVars
    <2>3. StartInv' /\ QuietInv' /\ RunInv'
        BY <1>2, <2>1
        DEF KernelInv, TypeOK, StartInv, QuietInv, RunInv, LowestPriorities,
            scheduleVars, Exceptions
    <2> QED
        BY <2>1, <2>2, <2>3 DEF KernelInv
<1>3. CASE vPortSetupTimerInterrupt
    <2>1. /\ boot = "timer" /\ boot' = "nesting"
          /\ active = {}
          /\ UNCHANGED <<pc, depth, primask, pending, active, handler>>
          /\ DepthInv'
        BY <1>3, MainRuns DEF vPortSetupTimerInterrupt
    <2>2. TypeOK'
        BY <1>3, <2>1 DEF KernelInv, TypeOK, vPortSetupTimerInterrupt, scheduleVars
    <2>3. StartInv' /\ QuietInv' /\ RunInv'
        BY <1>3, <2>1
        DEF KernelInv, StartInv, QuietInv, RunInv, vPortSetupTimerInterrupt,
            scheduleVars
    <2> QED
        BY <2>1, <2>2, <2>3 DEF KernelInv
<1>4. CASE ResetNesting
    <2>1. /\ boot = "nesting" /\ boot' = "first"
          /\ active = {}
          /\ UNCHANGED <<pc, depth, primask, pending, active, handler>>
          /\ DepthInv'
        BY <1>4, MainRuns DEF ResetNesting
    <2>2. TypeOK'
        BY <1>4, <2>1 DEF KernelInv, TypeOK, ResetNesting, scheduleVars, exceptionVars
    <2>3. StartInv' /\ QuietInv' /\ RunInv'
        BY <1>4, <2>1
        DEF KernelInv, StartInv, QuietInv, RunInv, ResetNesting, scheduleVars,
            exceptionVars
    <2> QED
        BY <2>1, <2>2, <2>3 DEF KernelInv
<1> QED
    BY <1>1, <1>2, <1>3, <1>4

\* The first task starts with every section closed.
LEMMA FirstTaskHolds ==
    ASSUME KernelInv, StartFirstTask
    PROVE  KernelInv'
<1> USE KernelPortAssumption DEF Early, Quiet, HandledBySystem, BootSteps
<1>1. /\ boot = "first" /\ boot' = "started"
      /\ active = {}
      /\ UNCHANGED <<pc, depth, primask, pending, active, handler>>
      /\ DepthInv'
    BY MainRuns DEF StartFirstTask
<1>2. current' \in Tasks /\ ready' \in Seq(Tasks)
    <2>1. Len(Created) \in 1 .. Len(Created)
        OBVIOUS
    <2>2. Created[Len(Created)] \in Tasks
        BY <2>1
    <2>3. SubSeq(Created, 1, Len(Created) - 1) \in Seq(Tasks)
        OBVIOUS
    <2> QED
        BY <2>2, <2>3 DEF StartFirstTask
<1>3. TypeOK'
    BY <1>1, <1>2
    DEF KernelInv, TypeOK, StartFirstTask, portENABLE_INTERRUPTS, exceptionVars
<1>4. RunInv'
    <2>1. \A t \in Tasks : ~Inside(t)'
        BY <1>1 DEF KernelInv, StartInv, TypeOK, Inside
    <2>2. /\ prio["usb"] = 224 /\ prio["systick"] = LOWEST
          /\ prio["pendsv"] = LOWEST
          /\ nesting = 0
        BY <1>1 DEF KernelInv, QuietInv
    <2>3. depth[current'] = 0 /\ pc[current'] \in {"recv", "run"}
        BY <1>1, <1>2 DEF KernelInv, StartInv
    <2> QED
        BY <1>1, <1>2, <2>1, <2>2, <2>3
        DEF RunInv, MaskedMeansAlone, StartFirstTask, exceptionVars
<1>5. StartInv' /\ QuietInv'
    BY <1>1 DEF StartInv, QuietInv
<1> QED
    BY <1>1, <1>3, <1>4, <1>5 DEF KernelInv

-----------------------------------------------------------------------------
(* Exceptions and handlers.                                                *)

\* A raised interrupt changes nothing that is masked.
LEMMA RaiseHolds ==
    ASSUME ~TickBetweenStores, KernelInv, NEW e \in Exceptions, Raise(e)
    PROVE  KernelInv'
<1> USE DEF Early, Quiet, HandledBySystem, BootSteps, Raise, scheduleVars,
            exceptionVars
<1>1. TypeOK'
    BY DEF KernelInv, TypeOK
<1>2. StartInv' /\ QuietInv'
    BY DEF KernelInv, StartInv, QuietInv
<1>3. RunInv' /\ DepthInv'
    BY DEF KernelInv, RunInv, DepthInv, MaskedMeansAlone, Inside
<1> QED
    BY <1>1, <1>2, <1>3 DEF KernelInv

\* An exception is taken only where nobody is inside a section.
LEMMA EnterHolds ==
    ASSUME KernelInv, NEW e \in Exceptions, Enter(e)
    PROVE  KernelInv'
<1> USE DEF Enter, scheduleVars, exceptionVars
<1>1. /\ boot \notin Quiet
      /\ boot # "started" => e # "pendsv"
      /\ boot = "started" => \A t \in Tasks : ~Inside(t)
    BY MaskedTakesNothing
<1>2. TypeOK'
    BY DEF KernelInv, TypeOK, HandlerSteps
<1>3. StartInv'
    <2>1. ~primask /\ handler'["systick"] \in {"entry", handler["systick"]}
        BY DEF Taken, KernelInv, TypeOK, Exceptions
    <2> QED
        BY <1>1, <2>1 DEF KernelInv, StartInv
<1>4. QuietInv' /\ DepthInv'
    BY <1>1 DEF KernelInv, QuietInv, DepthInv
<1>5. RunInv'
    BY <1>1 DEF KernelInv, RunInv, MaskedMeansAlone, Inside
<1> QED
    BY <1>2, <1>3, <1>4, <1>5 DEF KernelInv

\* A handler runs while no task is inside a section; before the scheduler it is
\* the controller's or the old tick's, and only while the hook begins.
LEMMA HandlerIsAlone ==
    ASSUME KernelInv, NEW e \in Exceptions, HandlerRuns(e)
    PROVE  /\ boot \notin Quiet
           /\ boot # "started" =>
                 /\ e # "pendsv"
                 /\ vector["systick"] = "teensy"
                 /\ handler["systick"] \in {"idle", "entry"}
           /\ boot = "started" =>
                 /\ current \in Tasks
                 /\ \A t \in Tasks : ~Inside(t)
<1> USE DEF HandlerRuns, KernelInv
<1>1. boot \notin Quiet
    BY DEF StartInv, Quiet, Early
<1>2. ASSUME boot # "started"
      PROVE  /\ e # "pendsv"
             /\ vector["systick"] = "teensy"
             /\ handler["systick"] \in {"idle", "entry"}
    <2>1. boot \in Early
        BY <1>1, <1>2 DEF Quiet, TypeOK
    <2> QED
        BY <1>2, <2>1 DEF StartInv
<1>3. ASSUME boot = "started"
      PROVE  current \in Tasks /\ \A t \in Tasks : ~Inside(t)
    BY <1>3 DEF RunInv, MaskedMeansAlone
<1> QED
    BY <1>1, <1>2, <1>3

\* The tick's handlers keep the invariant.
LEMMA TickHolds ==
    ASSUME KernelInv, TeensyTick \/ TickMask \/ IncrementTick \/ TickUnmask
    PROVE  KernelInv'
<1>1. /\ boot \notin Quiet
      /\ boot # "started" =>
            /\ vector["systick"] = "teensy"
            /\ handler["systick"] \in {"idle", "entry"}
      /\ boot = "started" => /\ current \in Tasks
                             /\ \A t \in Tasks : ~Inside(t)
    <2>1. HandlerRuns("systick") /\ "systick" \in Exceptions
        BY DEF TeensyTick, TickMask, IncrementTick, TickUnmask, Exceptions
    <2> QED
        BY <2>1, HandlerIsAlone
<1> USE DEF scheduleVars, exceptionVars
<1>2. CASE TeensyTick
    <2>1. TypeOK' /\ QuietInv' /\ DepthInv'
        BY <1>1, <1>2 DEF KernelInv, TypeOK, QuietInv, DepthInv, TeensyTick, Return,
                          HandlerSteps
    <2>2. StartInv'
        BY <1>1, <1>2 DEF KernelInv, TypeOK, StartInv, TeensyTick, Return,
                          Exceptions
    <2>3. RunInv'
        BY <1>1, <1>2 DEF KernelInv, RunInv, MaskedMeansAlone, Inside, TeensyTick,
                          Return
    <2> QED
        BY <2>1, <2>2, <2>3 DEF KernelInv
<1>3. CASE TickMask
    <2>1. boot = "started"
        BY <1>1, <1>3 DEF TickMask
    <2>2. TypeOK' /\ StartInv' /\ QuietInv' /\ DepthInv'
        BY <2>1, <1>3 DEF KernelInv, TypeOK, StartInv, QuietInv, Quiet, DepthInv,
                          TickMask, portDISABLE_INTERRUPTS, HandlerSteps
    <2>3. RunInv'
        BY <1>1, <1>3, <2>1 DEF KernelInv, RunInv, MaskedMeansAlone, Inside,
                                TickMask, portDISABLE_INTERRUPTS
    <2> QED
        BY <2>2, <2>3 DEF KernelInv
<1>4. CASE IncrementTick
    <2>1. boot = "started"
        BY <1>1, <1>4 DEF IncrementTick
    <2>2. ready' \in Seq(Tasks) /\ asleep' \in SUBSET Sleepers
        <3>1. ready \in Seq(Tasks) /\ asleep \in SUBSET Sleepers
            BY DEF KernelInv, TypeOK
        <3>2. CASE UNCHANGED <<ready, asleep>>
            BY <3>1, <3>2
        <3>3. CASE \E t \in (Waking \cap asleep) \ {current} :
                     /\ ready' = Append(ready, t)
                     /\ asleep' = asleep \ {t}
            <4>1. PICK t \in Waking \cap asleep : /\ ready' = Append(ready, t)
                                                 /\ asleep' = asleep \ {t}
                BY <3>3
            <4>2. t \in Tasks
                BY <3>1, <4>1 DEF Tasks
            <4> QED
                BY <3>1, <4>1, <4>2
        <3> QED
            BY <1>4, <3>2, <3>3 DEF IncrementTick
    <2>3. pending' \subseteq Exceptions
        BY <1>4 DEF KernelInv, TypeOK, IncrementTick, Exceptions
    <2>4. TypeOK' /\ StartInv' /\ QuietInv' /\ DepthInv'
        BY <1>4, <2>1, <2>2, <2>3
        DEF KernelInv, TypeOK, StartInv, QuietInv, Quiet, DepthInv, IncrementTick,
            HandlerSteps
    <2>5. RunInv'
        BY <1>1, <1>4, <2>1 DEF KernelInv, RunInv, MaskedMeansAlone, Inside,
                                IncrementTick
    <2> QED
        BY <2>4, <2>5 DEF KernelInv
<1>5. CASE TickUnmask
    <2>1. boot = "started"
        BY <1>1, <1>5 DEF TickUnmask
    <2>2. TypeOK' /\ StartInv' /\ QuietInv' /\ DepthInv'
        BY <2>1, <1>5 DEF KernelInv, TypeOK, StartInv, QuietInv, Quiet, DepthInv,
                          TickUnmask, portENABLE_INTERRUPTS, Return, HandlerSteps
    <2>3. RunInv'
        BY <1>1, <1>5, <2>1 DEF KernelInv, RunInv, MaskedMeansAlone, Inside,
                                TickUnmask, portENABLE_INTERRUPTS, Return
    <2> QED
        BY <2>2, <2>3 DEF KernelInv
<1> QED
    BY <1>2, <1>3, <1>4, <1>5

\* A switch happens at a count of 0, and finds the next task at 0.
LEMMA SwitchHolds ==
    ASSUME KernelInv, SwitchMask \/ SwitchContext \/ SwitchUnmask
    PROVE  KernelInv'
<1>1. /\ boot = "started"
      /\ current \in Tasks
      /\ \A t \in Tasks : ~Inside(t)
    <2>1. HandlerRuns("pendsv") /\ "pendsv" \in Exceptions
        BY DEF SwitchMask, SwitchContext, SwitchUnmask, Exceptions
    <2> QED
        BY <2>1, HandlerIsAlone
<1> USE DEF scheduleVars, exceptionVars
<1>2. CASE SwitchMask
    <2>1. TypeOK' /\ StartInv' /\ QuietInv' /\ DepthInv'
        BY <1>1, <1>2 DEF KernelInv, TypeOK, StartInv, QuietInv, Quiet, DepthInv,
                          SwitchMask, portDISABLE_INTERRUPTS, HandlerSteps
    <2>2. RunInv'
        BY <1>1, <1>2 DEF KernelInv, RunInv, MaskedMeansAlone, Inside,
                          SwitchMask, portDISABLE_INTERRUPTS
    <2> QED
        BY <2>1, <2>2 DEF KernelInv
<1>3. CASE SwitchContext
    <2>1. current' \in Tasks /\ ready' \in Seq(Tasks)
        <3> DEFINE rotation == IF current \in asleep THEN ready
                               ELSE Append(ready, current)
        <3>1. rotation \in Seq(Tasks)
            BY <1>1 DEF KernelInv, TypeOK
        <3>2. /\ rotation # << >>
              /\ current' = Head(rotation)
              /\ ready' = Tail(rotation)
            BY <1>3 DEF SwitchContext
        <3> HIDE DEF rotation
        <3> QED
            BY <3>1, <3>2
    <2>2. TypeOK' /\ StartInv' /\ QuietInv' /\ DepthInv'
        BY <1>1, <1>3, <2>1 DEF KernelInv, TypeOK, StartInv, QuietInv, Quiet,
                                DepthInv, SwitchContext, HandlerSteps
    <2>3. nesting' = depth'[current'] /\ depth'[current'] = 0
        BY <1>1, <1>3, <2>1 DEF KernelInv, TypeOK, RunInv, Inside, SwitchContext
    <2>4. pc'[current'] \notin {"command", "queue"}
        BY <1>1, <1>3, <2>1 DEF Inside, SwitchContext
    <2>5. MaskedMeansAlone'
        BY <1>1, <1>3 DEF MaskedMeansAlone, Inside, SwitchContext
    <2>6. RunInv'
        BY <1>1, <1>3, <2>1, <2>3, <2>4, <2>5 DEF KernelInv, RunInv, SwitchContext
    <2> QED
        BY <2>2, <2>6 DEF KernelInv
<1>4. CASE SwitchUnmask
    <2>1. TypeOK' /\ StartInv' /\ QuietInv' /\ DepthInv'
        BY <1>1, <1>4 DEF KernelInv, TypeOK, StartInv, QuietInv, Quiet, DepthInv,
                          SwitchUnmask, portENABLE_INTERRUPTS, Return, HandlerSteps
    <2>2. RunInv'
        BY <1>1, <1>4 DEF KernelInv, RunInv, MaskedMeansAlone, Inside,
                          SwitchUnmask, portENABLE_INTERRUPTS, Return
    <2> QED
        BY <2>1, <2>2 DEF KernelInv
<1> QED
    BY <1>2, <1>3, <1>4

\* The USB interrupt's handler keeps it.
LEMMA UsbHolds ==
    ASSUME KernelInv, UsbDisableIrq \/ UsbEnableIrq \/ UsbReturn
    PROVE  KernelInv'
<1>1. /\ boot \notin Quiet
      /\ boot = "started" => /\ current \in Tasks
                             /\ \A t \in Tasks : ~Inside(t)
      /\ "usb" \in active
    <2>1. HandlerRuns("usb") /\ "usb" \in Exceptions
        BY DEF UsbDisableIrq, UsbEnableIrq, UsbReturn, Exceptions
    <2>2. "usb" \in active
        BY <2>1 DEF HandlerRuns
    <2> QED
        BY <2>1, <2>2, HandlerIsAlone
<1> USE DEF scheduleVars, exceptionVars
<1>2. CASE UsbDisableIrq
    <2>1. TypeOK' /\ QuietInv' /\ DepthInv'
        BY <1>1, <1>2 DEF KernelInv, TypeOK, QuietInv, DepthInv, UsbDisableIrq,
                          HandlerSteps
    <2>2. StartInv'
        BY <1>1, <1>2 DEF KernelInv, TypeOK, StartInv, UsbDisableIrq, Exceptions
    <2>3. RunInv'
        BY <1>1, <1>2 DEF KernelInv, RunInv, MaskedMeansAlone, Inside, UsbDisableIrq
    <2> QED
        BY <2>1, <2>2, <2>3 DEF KernelInv
<1>3. CASE UsbEnableIrq
    <2>1. TypeOK' /\ QuietInv' /\ DepthInv'
        BY <1>1, <1>3 DEF KernelInv, TypeOK, QuietInv, DepthInv, UsbEnableIrq,
                          HandlerSteps
    <2>2. StartInv'
        BY <1>1, <1>3 DEF KernelInv, TypeOK, StartInv, UsbEnableIrq, Exceptions
    <2>3. RunInv'
        BY <1>1, <1>3 DEF KernelInv, RunInv, MaskedMeansAlone, Inside, UsbEnableIrq
    <2> QED
        BY <2>1, <2>2, <2>3 DEF KernelInv
<1>4. CASE UsbReturn
    <2>1. TypeOK' /\ QuietInv' /\ DepthInv'
        BY <1>1, <1>4 DEF KernelInv, TypeOK, QuietInv, DepthInv, UsbReturn, Return,
                          HandlerSteps
    <2>2. StartInv'
        BY <1>1, <1>4 DEF KernelInv, TypeOK, StartInv, UsbReturn, Return, Exceptions
    <2>3. RunInv'
        BY <1>1, <1>4 DEF KernelInv, RunInv, MaskedMeansAlone, Inside, UsbReturn,
                          Return
    <2> QED
        BY <2>1, <2>2, <2>3 DEF KernelInv
<1> QED
    BY <1>2, <1>3, <1>4

-----------------------------------------------------------------------------
(* The tasks.                                                              *)

\* A task that runs is the current one, no handler is open, no other task is
\* inside a section, and the shared count is its own.
LEMMA TaskRuns ==
    ASSUME KernelInv, NEW t \in Tasks, NEW from, NEW to, Step(t, from, to),
           to \in TaskSteps
    PROVE  /\ boot = "started" /\ boot' = "started"
           /\ current = t /\ current' = t
           /\ active = {} /\ active' = {}
           /\ pc[t] = from /\ pc' = [pc EXCEPT ![t] = to]
           /\ pc' \in [Tasks -> TaskSteps]
           /\ nesting = depth[t] /\ nesting \in Nat
           /\ \A u \in Tasks \ {t} : ~Inside(u)
           /\ StartInv' /\ QuietInv'
<1> USE DEF Step, ThreadRuns, Undisturbed
<1>1. current = t /\ active = {} /\ pc[t] = from /\ pc' = [pc EXCEPT ![t] = to]
    OBVIOUS
<1>2. boot = "started"
    <2>1. current # "main"
        BY <1>1, KernelPortAssumption
    <2> QED
        BY <2>1 DEF KernelInv, StartInv
<1>3. nesting = depth[t] /\ nesting \in Nat /\ \A u \in Tasks \ {t} : ~Inside(u)
    BY <1>1, <1>2 DEF KernelInv, TypeOK, RunInv, MaskedMeansAlone
<1>4. pc' \in [Tasks -> TaskSteps]
    BY <1>1 DEF KernelInv, TypeOK
<1>5. StartInv' /\ QuietInv'
    BY <1>2 DEF StartInv, QuietInv, Quiet
<1> QED
    BY <1>1, <1>2, <1>3, <1>4, <1>5

\* A step of task t that leaves its section closed, or open and masked.
OrderlyStep(t, from, to) ==
    /\ Step(t, from, to)
    /\ to \in TaskSteps
    /\ depth' \in [Tasks -> 0 .. MaxDepth]
    /\ \A u \in Tasks \ {t} : depth'[u] = depth[u]
    /\ asleep' \in SUBSET Sleepers
    /\ basepri' \in {0, configMAX_SYSCALL_INTERRUPT_PRIORITY}
    /\ primask' \in BOOLEAN /\ pending' \in SUBSET Exceptions
    /\ nesting' = depth'[t] /\ halted' = FALSE
    /\ depth'[t] > 0 <=> to \in {"delay", "asleep"}
    /\ to = "asleep" => depth'[t] = 1
    /\ depth'[t] > 0 \/ to = "command" =>
          basepri' = configMAX_SYSCALL_INTERRUPT_PRIORITY
    /\ to = "queue" => primask'

\* Such a step keeps the invariant.
LEMMA TaskHolds ==
    ASSUME KernelInv, NEW t \in Tasks, NEW from, NEW to, OrderlyStep(t, from, to)
    PROVE  KernelInv'
<1> USE DEF OrderlyStep
<1>1. /\ boot = "started" /\ boot' = "started"
      /\ current = t /\ current' = t
      /\ active = {} /\ active' = {}
      /\ pc' = [pc EXCEPT ![t] = to] /\ pc' \in [Tasks -> TaskSteps]
      /\ \A u \in Tasks \ {t} : ~Inside(u)
      /\ StartInv' /\ QuietInv'
    BY TaskRuns
<1>2. pc'[t] = to /\ \A u \in Tasks \ {t} : pc'[u] = pc[u]
    BY <1>1 DEF KernelInv, TypeOK
<1>3. TypeOK'
    BY <1>1 DEF KernelInv, TypeOK, Step, exceptionVars
<1>4. DepthInv'
    BY <1>2 DEF KernelInv, DepthInv
<1>5. MaskedMeansAlone'
    BY <1>1, <1>2 DEF MaskedMeansAlone, Inside
<1>6. RunInv'
    BY <1>1, <1>2, <1>5 DEF KernelInv, RunInv, Step, exceptionVars
<1> QED
    BY <1>1, <1>3, <1>4, <1>6 DEF KernelInv

\* CmsisDapTask keeps it.
LEMMA PollerHolds ==
    ASSUME KernelInv, NEW t \in Pollers, Poller(t)
    PROVE  KernelInv'
<1> USE DEF portDISABLE_INTERRUPTS, portENABLE_INTERRUPTS
<1>1. t \in Tasks
    BY DEF Tasks
<1>2. /\ depth \in [Tasks -> 0 .. MaxDepth]
      /\ asleep \in SUBSET Sleepers
      /\ basepri \in {0, configMAX_SYSCALL_INTERRUPT_PRIORITY}
      /\ primask \in BOOLEAN /\ pending \in SUBSET Exceptions
      /\ halted = FALSE
    BY DEF KernelInv, TypeOK
<1>3. pc[t] \notin {"delay", "asleep"} => depth[t] = 0
    BY <1>1, <1>2 DEF KernelInv, DepthInv
<1>4. CASE RunCommand(t)
    <2>1. Step(t, "recv", "command")
        BY <1>4 DEF RunCommand
    <2>2. nesting = depth[t] /\ depth[t] = 0
        BY <1>1, <1>3, <2>1, TaskRuns DEF TaskSteps
    <2>3. OrderlyStep(t, "recv", "command")
        BY <1>4, <1>1, <1>2, <2>1, <2>2
        DEF OrderlyStep, RunCommand, TaskSteps
    <2> QED
        BY <1>1, <2>3, TaskHolds
<1>5. CASE RecvTimeout(t)
    <2>1. Step(t, "recv", "check")
        BY <1>5 DEF RecvTimeout
    <2>2. nesting = depth[t] /\ depth[t] = 0
        BY <1>1, <1>3, <2>1, TaskRuns DEF TaskSteps
    <2>3. OrderlyStep(t, "recv", "check")
        BY <1>5, <1>1, <1>2, <2>1, <2>2
        DEF OrderlyStep, RecvTimeout, TaskSteps
    <2> QED
        BY <1>1, <2>3, TaskHolds
<1>6. CASE CommandDone(t)
    <2>1. Step(t, "command", "send")
        BY <1>6 DEF CommandDone
    <2>2. nesting = depth[t] /\ depth[t] = 0
        BY <1>1, <1>3, <2>1, TaskRuns DEF TaskSteps
    <2>3. OrderlyStep(t, "command", "send")
        BY <1>6, <1>1, <1>2, <2>1, <2>2
        DEF OrderlyStep, CommandDone, TaskSteps
    <2> QED
        BY <1>1, <2>3, TaskHolds
<1>7. CASE SendDisableIrq(t)
    <2>1. Step(t, "send", "queue")
        BY <1>7 DEF SendDisableIrq
    <2>2. nesting = depth[t] /\ depth[t] = 0
        BY <1>1, <1>3, <2>1, TaskRuns DEF TaskSteps
    <2>3. OrderlyStep(t, "send", "queue")
        BY <1>7, <1>1, <1>2, <2>1, <2>2
        DEF OrderlyStep, SendDisableIrq, TaskSteps
    <2> QED
        BY <1>1, <2>3, TaskHolds
<1>8. CASE SendFails(t)
    <2>1. Step(t, "send", "check")
        BY <1>8 DEF SendFails
    <2>2. nesting = depth[t] /\ depth[t] = 0
        BY <1>1, <1>3, <2>1, TaskRuns DEF TaskSteps
    <2>3. OrderlyStep(t, "send", "check")
        BY <1>8, <1>1, <1>2, <2>1, <2>2
        DEF OrderlyStep, SendFails, TaskSteps
    <2> QED
        BY <1>1, <2>3, TaskHolds
<1>9. CASE SendEnableIrq(t)
    <2>1. Step(t, "queue", "check")
        BY <1>9 DEF SendEnableIrq
    <2>2. nesting = depth[t] /\ depth[t] = 0
        BY <1>1, <1>3, <2>1, TaskRuns DEF TaskSteps
    <2>3. OrderlyStep(t, "queue", "check")
        <3>1. primask' \in BOOLEAN /\ UNCHANGED <<depth, asleep, basepri, nesting,
                                                  pending, halted>>
            BY <1>9 DEF SendEnableIrq
        <3> QED
            BY <1>1, <1>2, <2>1, <2>2, <3>1 DEF OrderlyStep, TaskSteps
    <2> QED
        BY <1>1, <2>3, TaskHolds
<1>10. CASE GoOn(t)
    <2>1. Step(t, "check", "recv")
        BY <1>10 DEF GoOn
    <2>2. nesting = depth[t] /\ depth[t] = 0
        BY <1>1, <1>3, <2>1, TaskRuns DEF TaskSteps
    <2>3. OrderlyStep(t, "check", "recv")
        BY <1>10, <1>1, <1>2, <2>1, <2>2
        DEF OrderlyStep, GoOn, TaskSteps
    <2> QED
        BY <1>1, <2>3, TaskHolds
<1>11. CASE YieldWhenIdle(t)
    <2>1. Step(t, "check", "recv")
        BY <1>11 DEF YieldWhenIdle
    <2>2. nesting = depth[t] /\ depth[t] = 0
        BY <1>1, <1>3, <2>1, TaskRuns DEF TaskSteps
    <2>3. OrderlyStep(t, "check", "recv")
        BY <1>11, <1>1, <1>2, <2>1, <2>2
        DEF OrderlyStep, YieldWhenIdle, TaskSteps, Exceptions
    <2> QED
        BY <1>1, <2>3, TaskHolds
<1> QED
    BY <1>4, <1>5, <1>6, <1>7, <1>8, <1>9, <1>10, <1>11 DEF Poller

\* A task that blocks keeps it, through every nested section.
LEMMA SleeperHolds ==
    ASSUME KernelInv, NEW t \in Sleepers, Sleeper(t)
    PROVE  KernelInv'
<1> USE KernelPortAssumption
    DEF portDISABLE_INTERRUPTS
<1>1. t \in Tasks
    BY DEF Tasks
<1>2. /\ depth \in [Tasks -> 0 .. MaxDepth] /\ depth[t] \in 0 .. MaxDepth
      /\ asleep \in SUBSET Sleepers
      /\ basepri \in {0, configMAX_SYSCALL_INTERRUPT_PRIORITY}
      /\ primask \in BOOLEAN /\ pending \in SUBSET Exceptions
      /\ halted = FALSE
    BY <1>1 DEF KernelInv, TypeOK
<1>3. /\ depth[t] > 0 <=> pc[t] \in {"delay", "asleep"}
      /\ pc[t] = "asleep" => depth[t] = 1
    BY <1>1 DEF KernelInv, DepthInv
<1>4. depth[t] > 0 /\ boot = "started" /\ current = t =>
          basepri = configMAX_SYSCALL_INTERRUPT_PRIORITY
    BY DEF KernelInv, RunInv
<1>5. CASE Delay(t)
    <2>1. Step(t, "run", "delay")
        BY <1>5 DEF Delay
    <2>2. /\ boot = "started" /\ current = t /\ active = {}
          /\ pc[t] = "run" /\ nesting = depth[t]
        BY <1>1, <2>1, TaskRuns DEF TaskSteps
    <2>3. /\ depth' \in [Tasks -> 0 .. MaxDepth] /\ depth'[t] = 1
          /\ \A u \in Tasks \ {t} : depth'[u] = depth[u]
        BY <1>5, <1>1, <1>2, <1>3, <2>2 DEF Delay
    <2>4. nesting' = 1 /\ halted' = FALSE
        <3>1. nesting = 0
            BY <1>2, <1>3, <2>2
        <3>2. nesting' = nesting + 1 /\ halted' = (nesting' = 1 /\ active # {})
            BY <1>5 DEF Delay, vPortEnterCritical
        <3>3. nesting' = 1
            BY <3>1, <3>2
        <3>4. halted' = FALSE
            BY <2>2, <3>2, Zenon
        <3> QED
            BY <3>3, <3>4
    <2>5. OrderlyStep(t, "run", "delay")
        BY <1>5, <1>1, <1>2, <2>1, <2>3, <2>4
        DEF OrderlyStep, Delay, vPortEnterCritical, TaskSteps
    <2> QED
        BY <1>1, <2>5, TaskHolds
<1>6. CASE NestedEnter(t)
    <2>1. Step(t, "delay", "delay")
        BY <1>6 DEF NestedEnter
    <2>2. /\ boot = "started" /\ current = t /\ active = {}
          /\ pc[t] = "delay" /\ nesting = depth[t]
        BY <1>1, <2>1, TaskRuns DEF TaskSteps
    <2>3. /\ depth' \in [Tasks -> 0 .. MaxDepth] /\ depth'[t] = depth[t] + 1
          /\ \A u \in Tasks \ {t} : depth'[u] = depth[u]
        BY <1>6, <1>1, <1>2 DEF NestedEnter
    <2>4. nesting' = depth[t] + 1 /\ halted' = FALSE
        BY <1>6, <2>2 DEF NestedEnter, vPortEnterCritical
    <2>5. OrderlyStep(t, "delay", "delay")
        BY <1>6, <1>1, <1>2, <2>1, <2>3, <2>4
        DEF OrderlyStep, NestedEnter, vPortEnterCritical, TaskSteps
    <2> QED
        BY <1>1, <2>5, TaskHolds
<1>7. CASE NestedExit(t)
    <2>1. Step(t, "delay", "delay")
        BY <1>7 DEF NestedExit
    <2>2. /\ boot = "started" /\ current = t /\ active = {}
          /\ pc[t] = "delay" /\ nesting = depth[t]
        BY <1>1, <2>1, TaskRuns DEF TaskSteps
    <2>3. /\ depth' \in [Tasks -> 0 .. MaxDepth] /\ depth'[t] = depth[t] - 1
          /\ depth[t] > 1
          /\ \A u \in Tasks \ {t} : depth'[u] = depth[u]
        BY <1>7, <1>1, <1>2 DEF NestedExit
    <2>4. /\ nesting' = depth[t] - 1 /\ halted' = FALSE
          /\ basepri' = configMAX_SYSCALL_INTERRUPT_PRIORITY
        <3>1. nesting # 0 /\ nesting - 1 # 0
            BY <1>2, <2>2, <2>3
        <3>2. basepri = configMAX_SYSCALL_INTERRUPT_PRIORITY
            BY <1>2, <1>4, <2>2, <2>3
        <3> QED
            BY <1>7, <2>2, <3>1, <3>2 DEF NestedExit, vPortExitCritical
    <2>5. OrderlyStep(t, "delay", "delay")
        BY <1>7, <1>1, <1>2, <2>1, <2>3, <2>4
        DEF OrderlyStep, NestedExit, TaskSteps
    <2> QED
        BY <1>1, <2>5, TaskHolds
<1>8. CASE LeaveRotation(t)
    <2>1. Step(t, "delay", "asleep")
        BY <1>8 DEF LeaveRotation
    <2>2. /\ boot = "started" /\ current = t /\ active = {}
          /\ pc[t] = "delay" /\ nesting = depth[t]
        BY <1>1, <2>1, TaskRuns DEF TaskSteps
    <2>3. asleep' \in SUBSET Sleepers
        BY <1>8, <1>2 DEF LeaveRotation
    <2>4. OrderlyStep(t, "delay", "asleep")
        BY <1>8, <1>1, <1>2, <1>4, <2>1, <2>2, <2>3
        DEF OrderlyStep, LeaveRotation, TaskSteps
    <2> QED
        BY <1>1, <2>4, TaskHolds
<1>9. CASE DelayExit(t)
    <2>1. Step(t, "asleep", "yield")
        BY <1>9 DEF DelayExit
    <2>2. /\ boot = "started" /\ current = t /\ active = {}
          /\ pc[t] = "asleep" /\ nesting = depth[t]
        BY <1>1, <2>1, TaskRuns DEF TaskSteps
    <2>3. /\ depth' \in [Tasks -> 0 .. MaxDepth] /\ depth'[t] = 0
          /\ \A u \in Tasks \ {t} : depth'[u] = depth[u]
        BY <1>9, <1>1, <1>2, <1>3, <2>2 DEF DelayExit
    <2>4. nesting' = 0 /\ halted' = FALSE /\ basepri' = 0
        <3>1. nesting = 1
            BY <1>3, <2>2
        <3>2. /\ nesting' = IF nesting = 0 THEN 0 ELSE nesting - 1
              /\ halted' = (nesting = 0)
              /\ basepri' = IF nesting' = 0 THEN 0 ELSE basepri
            BY <1>9 DEF DelayExit, vPortExitCritical
        <3>3. nesting' = 0 /\ nesting # 0
            BY <3>1, <3>2
        <3>4. halted' = FALSE
            BY <3>2, <3>3, Zenon
        <3> QED
            BY <3>2, <3>3, <3>4
    <2>5. OrderlyStep(t, "asleep", "yield")
        BY <1>9, <1>1, <1>2, <2>1, <2>3, <2>4
        DEF OrderlyStep, DelayExit, TaskSteps
    <2> QED
        BY <1>1, <2>5, TaskHolds
<1>10. CASE DelayYield(t)
    <2>1. Step(t, "yield", "run")
        BY <1>10 DEF DelayYield
    <2>2. /\ boot = "started" /\ current = t /\ active = {}
          /\ pc[t] = "yield" /\ nesting = depth[t]
        BY <1>1, <2>1, TaskRuns DEF TaskSteps
    <2>3. depth[t] = 0
        BY <1>2, <1>3, <2>2
    <2>4. OrderlyStep(t, "yield", "run")
        BY <1>10, <1>1, <1>2, <2>1, <2>2, <2>3
        DEF OrderlyStep, DelayYield, TaskSteps, Exceptions
    <2> QED
        BY <1>1, <2>4, TaskHolds
<1> QED
    BY <1>5, <1>6, <1>7, <1>8, <1>9, <1>10 DEF Sleeper

-----------------------------------------------------------------------------
(* The theorems.                                                           *)

\* The invariant speaks of the variables only.
LEMMA StutterHolds == KernelInv /\ UNCHANGED vars => KernelInv'
BY DEF vars, KernelInv, TypeOK, StartInv, QuietInv, RunInv, DepthInv,
       MaskedMeansAlone, Inside

\* Every step of the processor keeps the invariant (port.c, startup_hook.c).
LEMMA NextHolds ==
    ASSUME ~TickBetweenStores, KernelInv, [Next]_vars
    PROVE  KernelInv'
<1>1. ASSUME NEW e \in Exceptions, Raise(e) \/ Enter(e) PROVE KernelInv'
    BY <1>1, RaiseHolds, EnterHolds
<1>2. CASE MainThread
    BY <1>2, HookHolds, CreateHolds, SchedulerHolds, FirstTaskHolds DEF MainThread
<1>3. CASE Handlers
    BY <1>3, TickHolds, SwitchHolds, UsbHolds DEF Handlers
<1>4. ASSUME NEW t \in Pollers, Poller(t) PROVE KernelInv'
    BY <1>4, PollerHolds
<1>5. ASSUME NEW t \in Sleepers, Sleeper(t) PROVE KernelInv'
    BY <1>5, SleeperHolds
<1>6. CASE UNCHANGED vars
    BY <1>6, StutterHolds
<1> QED
    BY <1>1, <1>2, <1>3, <1>4, <1>5, <1>6 DEF Next

\* The invariant holds whatever tasks there are, if the hook is not so slow that
\* a tick falls between its two stores (startup_hook.c:29-30).
THEOREM KernelInvCorrect ==
    ASSUME ~TickBetweenStores
    PROVE  Spec => []KernelInv
<1>1. KernelInv /\ [Next]_vars => KernelInv'
    BY NextHolds
<1> QED
    BY <1>1, InitHolds, PTL DEF Spec

\* No assertion of the kernel's port ever fails, and no tick reaches the kernel
\* before its lists are there (port.c:315-336, 467-493; startup_hook.c:23-36).
THEOREM KernelTypeCorrect ==
    ASSUME ~TickBetweenStores
    PROVE  Spec => []TypeOK
<1>1. KernelInv => TypeOK
    BY DEF KernelInv
<1> QED
    BY <1>1, KernelInvCorrect, PTL

\* The invariant contains that whoever is inside a section is alone.
LEMMA InvMeansAlone == ASSUME KernelInv PROVE MaskedMeansAlone
<1>1. CASE boot = "started"
    BY <1>1 DEF KernelInv, RunInv
<1>2. CASE boot # "started"
    BY <1>2 DEF KernelInv, StartInv, TypeOK, MaskedMeansAlone, Inside
<1> QED
    BY <1>1, <1>2

\* Whoever masks interrupts or enters a critical section has the processor to
\* itself, for any number of tasks and any nesting, although the count is not
\* saved at a switch (port.c:158, 467-493).
THEOREM MaskedMeansAloneCorrect ==
    ASSUME ~TickBetweenStores
    PROVE  Spec => []MaskedMeansAlone
<1>1. KernelInv => MaskedMeansAlone
    BY InvMeansAlone
<1> QED
    BY <1>1, KernelInvCorrect, PTL

\* The invariant contains that start-up is not interrupted.
LEMMA InvMeansSilence == ASSUME KernelInv PROVE PreparedInSilence
BY DEF KernelInv, StartInv, Quiet, Early, PreparedInSilence,
       configMAX_SYSCALL_INTERRUPT_PRIORITY

\* Nothing interrupts the creation of the tasks and the start of the scheduler
\* (startup_hook.c:20-38, port.c:302-456).
THEOREM PreparedInSilenceCorrect ==
    ASSUME ~TickBetweenStores
    PROVE  Spec => []PreparedInSilence
<1>1. KernelInv => PreparedInSilence
    BY InvMeansSilence
<1> QED
    BY <1>1, KernelInvCorrect, PTL

\* Only PendSV's handler and the start of the first task change the current task.
LEMMA NextSwitches ==
    ASSUME KernelInv, Next
    PROVE  current' \notin {current, "main"} => active \subseteq {"pendsv"}
<1>1. ASSUME NEW e \in Exceptions, Raise(e) \/ Enter(e) PROVE current' = current
    BY <1>1 DEF Raise, Enter, scheduleVars
<1>2. CASE MainThread
    <2>1. ASSUME NEW from, NEW to, Main(from, to) PROVE active = {}
        BY <2>1 DEF Main, ThreadRuns
    <2> QED
        BY <1>2, <2>1
        DEF MainThread, HookMask, HookHandlers, HookTickHandler, HookStopTick,
            HookPriorities, CreateTask, TaskCreated, StartScheduler,
            LowestPriorities, vPortSetupTimerInterrupt, ResetNesting,
            StartFirstTask
<1>3. CASE SwitchContext
    <2>1. HandlerRuns("pendsv") /\ "pendsv" \in Exceptions
        BY <1>3 DEF SwitchContext, Exceptions
    <2>2. boot = "started"
        BY <2>1, HandlerIsAlone
    <2>3. prio["pendsv"] = 240 /\ \A f \in Exceptions : prio[f] <= 240
        BY <2>2 DEF KernelInv, RunInv, Exceptions, LOWEST
    <2>4. \A f \in active : f \in Exceptions /\ (f # "pendsv" => 240 < prio[f])
        BY <2>1, <2>3 DEF HandlerRuns, KernelInv, TypeOK
    <2>5. \A f \in Exceptions : prio[f] \in {32, 128, 224, 240}
        BY DEF KernelInv, TypeOK, LOWEST
    <2> QED
        BY <2>3, <2>4, <2>5
<1>4. CASE Handlers /\ ~SwitchContext
    BY <1>4 DEF Handlers, TeensyTick, TickMask, IncrementTick, TickUnmask,
                SwitchMask, SwitchUnmask, UsbDisableIrq, UsbEnableIrq, UsbReturn,
                scheduleVars
<1>5. ASSUME NEW t \in Pollers, Poller(t) PROVE current' = current
    BY <1>5 DEF Poller, RunCommand, RecvTimeout, CommandDone, SendDisableIrq,
                SendFails, SendEnableIrq, GoOn, YieldWhenIdle, Step
<1>6. ASSUME NEW t \in Sleepers, Sleeper(t) PROVE current' = current
    BY <1>6 DEF Sleeper, Delay, NestedEnter, NestedExit, LeaveRotation,
                DelayExit, DelayYield, Step
<1> QED
    BY <1>1, <1>2, <1>3, <1>4, <1>5, <1>6 DEF Next

\* A switch never leaves another handler open, because PendSV has the lowest
\* priority (port.c:425, 496-548).
THEOREM SwitchLeavesNoHandlerOpenCorrect ==
    ASSUME ~TickBetweenStores
    PROVE  Spec => SwitchLeavesNoHandlerOpen
<1> DEFINE Switch == current' \notin {current, "main"} => active \subseteq {"pendsv"}
<1>1. KernelInv /\ [Next]_vars => [Switch]_vars
    BY NextSwitches
<1> QED
    BY <1>1, KernelInvCorrect, PTL DEF Spec, SwitchLeavesNoHandlerOpen

-----------------------------------------------------------------------------
(* Start-up.  Its inductive invariant: what each stage has achieved, and   *)
(* what a crash leaves of it.                                              *)

USE BootAssumption, FittingsAssumption

BeforePsram == {"memory", "vectors", "cache", "systick", "pll", "pllset", "psram1"}
AfterPsram == {"wait20", "usb", "usbreset", "usbdelay", "usbstart", "wait300", "late"}

\* The copy usb_pll_start works on is what the register was when it was read; the
\* PLL can only have locked since.  Nothing changes the register once it is right.
PllInv ==
    /\ stage = "pllset" =>
           /\ n.div528 = pll.div528 /\ n.enable = pll.enable /\ n.power = pll.power
           /\ n.bypass = pll.bypass /\ n.usbClocks = pll.usbClocks
           /\ n.lock => pll.lock
    /\ stage \in {"psram1", "psram2"} \cup AfterPsram => AsItShouldBe(pll)

\* Until the first chip is found every address is its own; the second one is
\* looked for where the first ends.
PsramInv ==
    /\ stage \in BeforePsram => window = WholeWindow
    /\ stage = "psram2" =>
           /\ external_psram_size = Capacity(fitted[1]) /\ Capacity(fitted[1]) > 0
           /\ window = external_psram_size
           /\ quad[1]
    /\ stage \in AfterPsram =>
           /\ external_psram_size = FittedSize
           /\ FittedSize > 0 => \A i \in 1 .. 2 : Capacity(fitted[i]) > 0 => quad[i]

UsbInv == stage \in {"wait300", "late"} => usb = "running"

\* A report is in memory once the crash handler has flushed the cache, and it
\* survives the reset.
ReportInv ==
    /\ stage \in {"crash", "flush"} => crashes > 0
    /\ stage = "flush" => cached = crashes
    /\ stage \notin {"crash", "flush"} => report = crashes
    /\ stage = "poll" => count < CrashPolls

BootInv ==
    BootTypeOK /\ PllInv /\ PsramInv /\ UsbInv /\ ReportInv /\ StrayWritesAreCaught

-----------------------------------------------------------------------------
(* The tables and the arithmetic.                                          *)

\* The size of a chip is one of three.
LEMMA CapacityType ==
    \A id : Capacity(id) \in {0, 8, 16}
BY DEF Capacity

\* A fitted pair has a size for each chip.
LEMMA FittedType ==
    ASSUME BootTypeOK
    PROVE  /\ Capacity(fitted[1]) \in {0, 8, 16} /\ Capacity(fitted[2]) \in {0, 8, 16}
           /\ FittedSize \in {0, 8, 16, 24, 32}
           /\ FittedSize > 0 <=> Capacity(fitted[1]) > 0
BY CapacityType DEF FittedSize

\* Of the regions that cover a place the last one denies writing where a stray
\* write would do damage (startup.c:311-376).
LEMMA NoWriteThere ==
    ASSUME NEW place \in {"null", "itcm", "rom", "guard", "flash", "nowhere"}
    PROVE  Access(place) # "write"
<1> DEFINE covering == {k \in 1 .. Len(Regions) : place \in Regions[k].covers}
           last == CHOOSE k \in covering : \A j \in covering : j <= k
<1>1. Len(Regions) = 11
    BY DEF Regions
<1>2. ASSUME NEW k \in covering, \A j \in covering : j <= k
      PROVE  last = k
    <2>1. last \in covering /\ \A j \in covering : j <= last
        BY <1>2
    <2> QED
        BY <1>1, <1>2, <2>1
<1>3. /\ Access(place) = Regions[last].access
      /\ \A m \in {1, 2, 3, 4, 6, 9} : Regions[m].access # "write"
    BY DEF Access, Regions, Region
<1>4. CASE place = "null"
    <2>1. covering = {1, 2, 3}
        BY <1>1, <1>4 DEF Regions, Region, Places
    <2>2. last = 3
        BY <1>2, <2>1
    <2> QED
        BY <1>3, <2>2
<1>5. CASE place = "itcm"
    <2>1. covering = {1, 2}
        BY <1>1, <1>5 DEF Regions, Region, Places
    <2>2. last = 2
        BY <1>2, <2>1
    <2> QED
        BY <1>3, <2>2
<1>6. CASE place = "rom"
    <2>1. covering = {1, 4}
        BY <1>1, <1>6 DEF Regions, Region, Places
    <2>2. last = 4
        BY <1>2, <2>1
    <2> QED
        BY <1>3, <2>2
<1>7. CASE place = "guard"
    <2>1. covering = {1, 5, 6}
        BY <1>1, <1>7 DEF Regions, Region, Places
    <2>2. last = 6
        BY <1>2, <2>1
    <2> QED
        BY <1>3, <2>2
<1>8. CASE place = "flash"
    <2>1. covering = {1, 9}
        BY <1>1, <1>8 DEF Regions, Region, Places
    <2>2. last = 9
        BY <1>2, <2>1
    <2> QED
        BY <1>3, <2>2
<1>9. CASE place = "nowhere"
    <2>1. covering = {1}
        BY <1>1, <1>9 DEF Regions, Region, Places
    <2>2. last = 1
        BY <1>2, <2>1
    <2> QED
        BY <1>3, <2>2
<1> QED
    BY <1>4, <1>5, <1>6, <1>7, <1>8, <1>9

-----------------------------------------------------------------------------
(* The invariant, action by action.                                        *)

\* After a reset nothing has been achieved, and no crash is unreported.
LEMMA BootInitHolds == BootInit => BootInv
<1> SUFFICES ASSUME BootInit PROVE BootInv
    OBVIOUS
<1>1. BootTypeOK
    <2>1. pll \in Pll /\ n \in Pll
        BY DEF BootInit, LeftByRom
    <2>2. quad \in [1 .. 2 -> BOOLEAN] /\ {mpu, counting, corrupted} \subseteq BOOLEAN
        BY DEF BootInit
    <2> QED
        BY <2>1, <2>2 DEF BootInit, BootTypeOK, Stages, WholeWindow
<1> QED
    BY <1>1 DEF BootInit, BootInv, PllInv, PsramInv, UsbInv, ReportInv,
                StrayWritesAreCaught, AfterPsram

\* The steps of start-up that touch neither PLL nor PSRAM nor USB.
LEMMA EarlyHolds ==
    ASSUME BootInv, InitMemory \/ InitVectors \/ configure_cache \/ configure_systick
    PROVE  BootInv'
<1>1. BootTypeOK'
    BY DEF BootInv, BootTypeOK, InitMemory, InitVectors, configure_cache,
           configure_systick, Goto, Stages, pllVars, psramVars, crashVars
<1>2. /\ stage \in BeforePsram /\ stage' \in {"vectors", "cache", "systick", "pll"}
      /\ UNCHANGED <<fitted, quad, window, crashes, report, corrupted>>
    BY DEF InitMemory, InitVectors, configure_cache, configure_systick, Goto,
           BeforePsram, psramVars, crashVars
<1> QED
    BY <1>1, <1>2 DEF BootInv, PllInv, PsramInv, UsbInv, ReportInv, BeforePsram,
                      AfterPsram, StrayWritesAreCaught

\* A round of usb_pll_start reads the register ...
LEMMA ReadPllHolds == ASSUME BootInv, ReadPll PROVE BootInv'
<1>1. BootTypeOK'
    BY DEF BootInv, BootTypeOK, ReadPll, Goto, Stages, psramVars, crashVars
<1> QED
    BY <1>1 DEF ReadPll, Goto, psramVars, crashVars, BootInv, PllInv, PsramInv, UsbInv,
                ReportInv, BeforePsram, AfterPsram, StrayWritesAreCaught

\* ... and corrects it, or finds that it is right (startup.c:577-626).
LEMMA SetPllHolds == ASSUME BootInv, SetPll PROVE BootInv'
<1>1. /\ stage = "pllset" /\ stage' = IF AsItShouldBe(n) THEN "psram1" ELSE "pll"
      /\ pll' = Corrected
      /\ UNCHANGED <<mpu, counting, n, fitted, quad, window, external_psram_size,
                     usb, count, crashes, cached, report, corrupted>>
    BY DEF SetPll, Goto, psramVars, crashVars
<1>2. pll' \in Pll
    BY <1>1 DEF Corrected, Pll, BootInv, BootTypeOK
<1>3. BootTypeOK'
    BY <1>1, <1>2 DEF BootInv, BootTypeOK, Stages
<1>4. AsItShouldBe(n) => AsItShouldBe(pll')
    BY <1>1 DEF AsItShouldBe, Corrected, BootInv, BootTypeOK, PllInv, Pll
<1> QED
    BY <1>1, <1>3, <1>4 DEF BootInv, PllInv, PsramInv, UsbInv, ReportInv, BeforePsram,
                            AfterPsram, StrayWritesAreCaught

\* The PLL locks at any time.
LEMMA PllLocksHolds == ASSUME BootInv, PllLocks PROVE BootInv'
<1>1. /\ ~pll.lock /\ pll' = [pll EXCEPT !.lock = TRUE] /\ pll \in Pll
      /\ UNCHANGED <<stage, mpu, counting, n, fitted, quad, window,
                     external_psram_size, usb, count, crashes, cached, report, corrupted>>
    BY DEF PllLocks, psramVars, crashVars, BootInv, BootTypeOK
<1>2. pll' \in Pll /\ pll' = [pll EXCEPT !.lock = TRUE]
    BY <1>1 DEF Pll
<1>3. BootTypeOK'
    BY <1>1, <1>2 DEF BootInv, BootTypeOK
<1>4. PllInv'
    BY <1>1, <1>2 DEF BootInv, PllInv, AsItShouldBe, Pll
<1> QED
    BY <1>1, <1>3, <1>4 DEF BootInv, PsramInv, UsbInv, ReportInv, FittedSize,
                            StrayWritesAreCaught

\* A chip answers the probe whatever mode a crash has left it in
\* (startup.c:418-424).
LEMMA ProbeFindsChip ==
    ASSUME NEW chip
    PROVE  flexspi2_psram_size(chip) = Capacity(fitted[chip])
BY DEF flexspi2_psram_size, AfterProbe, ResetChip, ExitQuad

\* The first chip is found, or there is no memory behind it either.
LEMMA FirstPsramHolds == ASSUME BootInv, FirstPsram PROVE BootInv'
<1>1. ChipAt(0) = 1
    BY DEF BootInv, PsramInv, BeforePsram, FirstPsram, Goto, ChipAt, WholeWindow
<1> DEFINE size == Capacity(fitted[1])
<1>2. /\ stage = "psram1" /\ stage' = IF size > 0 THEN "psram2" ELSE "wait20"
      /\ external_psram_size' = size
      /\ window' = IF size > 0 THEN size ELSE window
      /\ quad' = [quad EXCEPT ![1] = size > 0 \/ AfterProbe(quad[1])]
      /\ UNCHANGED <<mpu, counting, pll, n, fitted, usb, count, crashes, cached,
                     report, corrupted>>
    BY <1>1, ProbeFindsChip DEF FirstPsram, Goto, pllVars, crashVars
<1>3. size \in {0, 8, 16} /\ (size = 0 => FittedSize = 0)
    BY FittedType DEF BootInv, FittedSize
<1>4. AfterProbe(quad[1]) = FALSE
    BY DEF AfterProbe, ResetChip, ExitQuad
<1>5. quad' \in [1 .. 2 -> BOOLEAN] /\ (size > 0 => quad'[1])
    <2>1. quad \in [1 .. 2 -> BOOLEAN]
        BY DEF BootInv, BootTypeOK
    <2> DEFINE inQuad == size > 0 \/ AfterProbe(quad[1])
    <2>2. quad' = [quad EXCEPT ![1] = inQuad]
        BY <1>2
    <2>3. CASE size > 0
        <3>1. inQuad = TRUE
            BY <2>3
        <3> HIDE DEF inQuad
        <3> QED
            BY <2>1, <2>2, <3>1
    <2>4. CASE ~(size > 0)
        <3>1. inQuad = FALSE
            BY <1>4, <2>4
        <3> HIDE DEF inQuad
        <3> QED
            BY <2>1, <2>2, <2>4, <3>1
    <2> QED
        BY <2>3, <2>4
<1> HIDE DEF size
<1>6. BootTypeOK'
    BY <1>2, <1>3, <1>5 DEF BootInv, BootTypeOK, Stages
<1>7. PsramInv'
    BY <1>2, <1>3, <1>5 DEF PsramInv, BeforePsram, AfterPsram, FittedSize, size
<1> QED
    BY <1>2, <1>3, <1>6, <1>7 DEF BootInv, PllInv, UsbInv, ReportInv, AfterPsram,
                                  StrayWritesAreCaught

\* The second chip is found behind the first.
LEMMA SecondPsramHolds == ASSUME BootInv, SecondPsram PROVE BootInv'
<1> DEFINE first == Capacity(fitted[1])
           second == Capacity(fitted[2])
<1>1. ChipAt(external_psram_size) = 2
    BY CapacityType DEF BootInv, PsramInv, SecondPsram, Goto, ChipAt
<1>2. /\ stage = "psram2" /\ stage' = "wait20"
      /\ external_psram_size' = external_psram_size + second
      /\ quad' = [quad EXCEPT ![2] = second > 0 \/ AfterProbe(quad[2])]
      /\ UNCHANGED <<mpu, counting, pll, n, fitted, window, usb, count, crashes,
                     cached, report, corrupted>>
    BY <1>1, ProbeFindsChip DEF SecondPsram, Goto, pllVars, crashVars
<1>3. /\ external_psram_size = first /\ first > 0 /\ quad[1]
      /\ first \in {0, 8, 16} /\ second \in {0, 8, 16}
    BY <1>2, CapacityType DEF BootInv, PsramInv
<1>4. external_psram_size' = FittedSize
    BY <1>2, <1>3 DEF FittedSize
<1>5. AfterProbe(quad[2]) = FALSE
    BY DEF AfterProbe, ResetChip, ExitQuad
<1>6. quad' \in [1 .. 2 -> BOOLEAN] /\ quad'[1] /\ (second > 0 => quad'[2])
    BY <1>2, <1>3, <1>5 DEF BootInv, BootTypeOK
<1>7. external_psram_size' \in {0, 8, 16, 24, 32}
    BY <1>2, <1>3
<1>8. BootTypeOK'
    BY <1>2, <1>6, <1>7 DEF BootInv, BootTypeOK, Stages
<1>9. PsramInv'
    BY <1>2, <1>4, <1>6 DEF PsramInv, BeforePsram, AfterPsram, FittedSize
<1> QED
    BY <1>2, <1>8, <1>9 DEF BootInv, PllInv, UsbInv, ReportInv, AfterPsram,
                            StrayWritesAreCaught

\* The delays, and usb_init.
LEMMA UsbBringUpHolds ==
    ASSUME BootInv,
           \/ Wait("wait20", "usb") \/ InitUsb \/ UsbResetDone
           \/ Wait("usbdelay", "usbstart") \/ StartUsb \/ Wait("wait300", "late")
    PROVE  BootInv'
<1>1. /\ stage \in AfterPsram /\ stage' \in AfterPsram
      /\ UNCHANGED <<mpu, counting, pll, n, fitted, quad, window,
                     external_psram_size, count, crashes, cached, report, corrupted>>
    BY DEF Wait, InitUsb, UsbResetDone, StartUsb, Goto, AfterPsram, pllVars, psramVars,
           crashVars
<1>2. usb' \in {"on", "resetting", "off", "running"} /\ UsbInv'
    BY DEF Wait, InitUsb, UsbResetDone, StartUsb, Goto, BootInv, BootTypeOK, UsbInv
<1>3. BootTypeOK'
    BY <1>1, <1>2 DEF BootInv, BootTypeOK, Stages, AfterPsram
<1> QED
    BY <1>1, <1>2, <1>3 DEF BootInv, PllInv, PsramInv, ReportInv, BeforePsram,
                            AfterPsram, FittedSize, StrayWritesAreCaught

\* The controller's reset ends; a running controller is not being reset.
LEMMA UsbIsResetHolds == ASSUME BootInv, UsbIsReset PROVE BootInv'
<1>1. /\ usb = "resetting" /\ usb' = "off"
      /\ UNCHANGED <<stage, mpu, counting, pll, n, fitted, quad, window,
                     external_psram_size, count, crashes, cached, report, corrupted>>
    BY DEF UsbIsReset, pllVars, psramVars, crashVars
<1> QED
    BY <1>1 DEF BootInv, BootTypeOK, PllInv, PsramInv, UsbInv, ReportInv, FittedSize,
                StrayWritesAreCaught

\* A stray write faults (startup.c:311-376).
LEMMA StrayWriteHolds == ASSUME BootInv, StrayWrite PROVE BootInv'
<1>1. /\ stage \notin Crashed /\ stage' = "crash"
      /\ crashes < MaxCrashes /\ crashes' = crashes + 1
      /\ UNCHANGED <<mpu, counting, pll, n, fitted, quad, window,
                     external_psram_size, usb, count, cached, report, corrupted>>
    BY NoWriteThere DEF StrayWrite, pllVars, psramVars
<1>2. BootTypeOK'
    BY <1>1 DEF BootInv, BootTypeOK, Stages
<1> QED
    BY <1>1, <1>2 DEF BootInv, BootTypeOK, PllInv, PsramInv, UsbInv, ReportInv,
                      BeforePsram, AfterPsram, StrayWritesAreCaught

\* The crash handler writes its report, flushes it, serves USB for a while and
\* resets the processor (startup.c:641-733).
LEMMA CrashHandlerHolds == ASSUME BootInv, CrashHandler PROVE BootInv'
<1> USE DEF pllVars, psramVars, crashVars, Goto, BootInv, StrayWritesAreCaught
<1>1. CASE WriteReport
    <2>1. BootTypeOK'
        BY <1>1 DEF WriteReport, BootTypeOK, Stages
    <2> QED
        BY <1>1, <2>1 DEF WriteReport, PllInv, PsramInv, UsbInv, ReportInv,
                          BeforePsram, AfterPsram
<1>2. CASE FlushReport
    <2>1. BootTypeOK'
        BY <1>2 DEF FlushReport, BootTypeOK, Stages
    <2> QED
        BY <1>2, <2>1 DEF FlushReport, PllInv, PsramInv, UsbInv, ReportInv,
                          BeforePsram, AfterPsram
<1>3. CASE PollUsb
    <2>1. BootTypeOK'
        BY <1>3 DEF PollUsb, BootTypeOK, Stages, ReportInv
    <2> QED
        BY <1>3, <2>1 DEF PollUsb, PllInv, PsramInv, UsbInv, ReportInv,
                          BeforePsram, AfterPsram, BootTypeOK
<1>4. CASE Reset
    <2>1. BootTypeOK'
        <3>1. pll' \in Pll /\ n' \in Pll
            BY <1>4 DEF Reset, LeftByRom
        <3>2. /\ stage' = "memory" /\ mpu' = FALSE /\ counting' = FALSE
              /\ window' = WholeWindow /\ usb' \in {"on", "off"}
              /\ count' = 0 /\ cached' = 0
              /\ UNCHANGED <<fitted, crashes, report, corrupted, quad, external_psram_size>>
            BY <1>4 DEF Reset, hardware
        <3>3. 0 \in 0 .. CrashPolls /\ 0 \in 0 .. MaxCrashes
            OBVIOUS
        <3>4. (stage \in Stages)'
            BY <3>2 DEF Stages
        <3>5. ({mpu, counting, corrupted} \subseteq BOOLEAN)'
            BY <3>2 DEF BootTypeOK
        <3>6. ({pll, n} \subseteq Pll)'
            BY <3>1
        <3>7. (fitted \in Fittings /\ quad \in [1 .. 2 -> BOOLEAN])'
            BY <3>2 DEF BootTypeOK
        <3>8. (external_psram_size \in {0, 8, 16, 24, 32})'
            BY <3>2 DEF BootTypeOK
        <3>9. ({crashes, cached, report} \subseteq 0 .. MaxCrashes)'
            BY <3>2, <3>3 DEF BootTypeOK
        <3> QED
            BY <3>2, <3>3, <3>4, <3>5, <3>6, <3>7, <3>8, <3>9 DEF BootTypeOK
    <2> QED
        BY <1>4, <2>1 DEF Reset, hardware, PllInv, PsramInv, UsbInv, ReportInv,
                          BeforePsram, AfterPsram
<1> QED
    BY <1>1, <1>2, <1>3, <1>4 DEF CrashHandler

\* Steps of anybody else leave the board as it is.
LEMMA BootStutterHolds == ASSUME BootInv, UNCHANGED bootVars PROVE BootInv'
BY DEF bootVars, pllVars, BootInv, BootTypeOK, PllInv, PsramInv, UsbInv, ReportInv,
       FittedSize, StrayWritesAreCaught

\* The invariant survives every step of start-up and of the crash handler.
LEMMA BootNextHolds == BootInv /\ [BootNext]_bootVars => BootInv'
<1> SUFFICES ASSUME BootInv, [BootNext]_bootVars PROVE BootInv'
    OBVIOUS
<1>1. CASE ResetHandler2
    BY <1>1, EarlyHolds, ReadPllHolds, SetPllHolds, FirstPsramHolds,
       SecondPsramHolds, UsbBringUpHolds
    DEF ResetHandler2
<1>2. CASE PllLocks \/ UsbIsReset \/ StrayWrite \/ CrashHandler
    BY <1>2, PllLocksHolds, UsbIsResetHolds, StrayWriteHolds, CrashHandlerHolds
<1> QED
    BY <1>1, <1>2, BootStutterHolds DEF BootNext

\* At the late hook the invariant says what HandOverComplete asks for.
LEMMA BootInvMeansComplete == BootInv => HandOverComplete
BY DEF BootInv, PllInv, PsramInv, UsbInv, ReportInv, AfterPsram, HandOverComplete

-----------------------------------------------------------------------------
(* The firmware: the kernel through crashes and resets, and the board.     *)

\* A reset leaves the kernel as it was at first.
LEMMA ResetIsInit == KernelAfterReset => Init'
BY DEF KernelAfterReset, Init

\* Start-up and the crash handler do not touch the kernel, and a running kernel
\* takes its own steps.
LEMMA FirmwareNextHolds ==
    ASSUME ~TickBetweenStores, KernelInv, [FirmwareNext]_FirmwareVars
    PROVE  KernelInv'
<1>1. CASE StartOrCrash
    BY <1>1, StutterHolds DEF StartOrCrash, Frozen
<1>2. CASE Restart
    <2>1. Init'
        BY <1>2, ResetIsInit DEF Restart
    <2>2. Init' => KernelInv'
        BY InitHolds, PTL
    <2> QED
        BY <2>1, <2>2
<1>3. CASE Run
    BY <1>3, NextHolds DEF Run
<1>4. CASE UNCHANGED FirmwareVars
    BY <1>4, StutterHolds DEF FirmwareVars
<1> QED
    BY <1>1, <1>2, <1>3, <1>4 DEF FirmwareNext

\* Every run of the firmware keeps the kernel's invariant, through crashes and resets.
LEMMA FirmwareKeepsKernel ==
    ASSUME ~TickBetweenStores
    PROVE  FirmwareSpec => []KernelInv
<1>1. FirmwareInit => KernelInv
    BY InitHolds DEF FirmwareInit
<1>2. KernelInv /\ [FirmwareNext]_FirmwareVars => KernelInv'
    BY FirmwareNextHolds
<1> QED
    BY <1>1, <1>2, PTL DEF FirmwareSpec

\* Whoever masks interrupts has the processor to itself in every run of the
\* firmware, also after a crash (port.c:467-493, startup.c:641-733).
THEOREM FirmwareMaskedMeansAlone ==
    ASSUME ~TickBetweenStores
    PROVE  FirmwareSpec => []MaskedMeansAlone
<1>1. KernelInv => MaskedMeansAlone
    BY InvMeansAlone
<1> QED
    BY <1>1, FirmwareKeepsKernel, PTL

\* Every start of the scheduler is undisturbed, the ones after a crash too
\* (startup_hook.c:20-38, port.c:302-456).
THEOREM FirmwarePreparedInSilence ==
    ASSUME ~TickBetweenStores
    PROVE  FirmwareSpec => []PreparedInSilence
<1>1. KernelInv => PreparedInSilence
    BY InvMeansSilence
<1> QED
    BY <1>1, FirmwareKeepsKernel, PTL

\* No switch in any run of the firmware leaves a handler open
\* (port.c:425, 496-548).
THEOREM FirmwareSwitchLeavesNoHandlerOpen ==
    ASSUME ~TickBetweenStores
    PROVE  FirmwareSpec => SwitchLeavesNoHandlerOpen
<1> DEFINE Switch == current' \notin {current, "main"} => active \subseteq {"pendsv"}
<1>1. KernelInv /\ [FirmwareNext]_FirmwareVars => [Switch]_vars
    <2> SUFFICES ASSUME KernelInv, [FirmwareNext]_FirmwareVars PROVE [Switch]_vars
        OBVIOUS
    <2>1. CASE StartOrCrash \/ UNCHANGED FirmwareVars
        BY <2>1 DEF StartOrCrash, Frozen, FirmwareVars
    <2>2. CASE Restart
        BY <2>2 DEF Restart, KernelAfterReset
    <2>3. CASE Run
        BY <2>3, NextSwitches DEF Run
    <2> QED
        BY <2>1, <2>2, <2>3 DEF FirmwareNext
<1> QED
    BY <1>1, FirmwareKeepsKernel, PTL DEF FirmwareSpec, SwitchLeavesNoHandlerOpen

-----------------------------------------------------------------------------
(* The board.                                                              *)

\* A running kernel leaves the board alone, and every other step is one of Boot.
LEMMA FirmwareStepOfBoot ==
    [FirmwareNext]_FirmwareVars => [BootNext]_bootVars
BY DEF FirmwareNext, FirmwareVars, StartOrCrash, Restart, Run, BootNext, CrashHandler

\* Every run of the firmware keeps the board's invariant.
THEOREM FirmwareKeepsBoard == FirmwareSpec => []BootInv
<1>1. FirmwareInit => BootInv
    BY BootInitHolds DEF FirmwareInit
<1>2. BootInv /\ [FirmwareNext]_FirmwareVars => BootInv'
    BY FirmwareStepOfBoot, BootNextHolds
<1> QED
    BY <1>1, <1>2, PTL DEF FirmwareSpec

\* No stray write goes through, whatever crashes came before
\* (startup.c:311-376).
THEOREM FirmwareStrayWritesAreCaught == FirmwareSpec => []StrayWritesAreCaught
<1>1. BootInv => StrayWritesAreCaught
    BY DEF BootInv
<1> QED
    BY <1>1, FirmwareKeepsBoard, PTL

\* Every hand-over to the late hook finds the board complete: the PLL locked, the
\* PSRAM found and in quad mode, USB running and the last crash reported, with any
\* chips and after any number of crashes (startup.c:141-238, 448-573, 577-626).
THEOREM FirmwareHandOverComplete == FirmwareSpec => []HandOverComplete
<1>1. BootInv => HandOverComplete
    BY BootInvMeansComplete
<1> QED
    BY <1>1, FirmwareKeepsBoard, PTL

\* Types of the whole firmware: with the board's, the ones that say that no
\* assertion of the port fails (port.c:302-456).
THEOREM FirmwareTypeCorrect ==
    ASSUME ~TickBetweenStores
    PROVE  FirmwareSpec => []FirmwareTypeOK
<1>1. BootInv /\ KernelInv => FirmwareTypeOK
    BY DEF BootInv, KernelInv, FirmwareTypeOK
<1> QED
    BY <1>1, FirmwareKeepsBoard, FirmwareKeepsKernel, PTL
=============================================================================
