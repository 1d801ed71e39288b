# Teensy 4.1 SWD debugger: TLA+ models and proofs

The firmware turns a Teensy 4.1 into a CMSIS-DAP debug probe: a host sends
requests to a USB bulk OUT endpoint, a FreeRTOS task executes them on the SWD
pins, and the responses go back through a bulk IN endpoint. This directory
models the path a request takes, from the USB controller's descriptors to the
task and back, the control requests that configure the device, the processor
from reset through the scheduler to a crash and back, and the pins. It checks the
models with TLC on small instances, and proves with TLAPS, for every size, the safety
of both halves of the USB interface, on the linked list and with the task, of
endpoint 0, of start-up, of the sharing of the processor and of what faces the target.

All paths below are relative to the repository's `device/`.

## The system

One Cortex-M7 core. Three kinds of actors interleave: the USB controller with
the host behind it (any time), `usb_isr` (between any two instructions of a
task, unless it is masked) and the tasks.

| part | state | operations | correct when |
|---|---|---|---|
| receive path, `src/cmsis_dap/usb_cmsis_dap.c` | `rx_head`, `rx_tail`, `rx_list`, `rx_list_transfer_len`, `rx_buffer`, `rx_transfer` | `rx_event` (ISR), `usb_cmsis_dap_recv` and `rx_queue_transfer` (task), `usb_cmsis_dap_configure` (ISR) | no buffer is lost, shared or overrun; packets come out in order |
| transmit path, same file | `tx_head`, `tx_buffer`, `tx_transfer` | `usb_cmsis_dap_send` (task), `usb_cmsis_dap_configure` (ISR) | the host reads what was accepted; nothing in flight is overwritten |
| task, `src/cmsis_dap/task_cmsis_dap.c` | `USB_Request`, `USB_Response`, `request_len` | `CmsisDapTask`, `CmsisDapExecuteCommand` | one execution and one response per request, in order |
| clock command, same file | `DAP_Data.fast_clock`, `.clock_delay` | `CmsisDapSwjClock`, `Set_Clock_Delay` | the delay matches the frequency asked |
| endpoint queues, `src/usb.c` | queue heads, transfer descriptors, `ENDPTPRIME/STATUS/COMPLETE`, `USBCMD.ATDTW` | `usb_prepare_transfer`, `schedule_transfer`, `run_callbacks`, `usb_endpoint_config`, the reset branch of `usb_isr` | a scheduled transfer is executed once, in order, and given back |
| endpoint 0, `src/usb.c` | `usb_configuration`, `usb_high_speed`, the staging buffers, `ENDPTSETUPSTAT`, `USBCMD.SUTW`, `DEVICEADDR` | `usb_isr`'s SETUP loop, `endpoint0_setup`, `endpoint0_transmit`, `endpoint0_receive` | a reply answers the latest SETUP packet, and every SETUP packet is answered |
| FreeRTOS port, `src/port.c`, `inc/portmacro.h` | `uxCriticalNesting`, `BASEPRI`, priorities, vectors | critical sections, scheduler start, tick, task switch | whoever masks interrupts is alone; a switch leaves no handler half done |
| start-up, `src/startup.c`, `src/startup_hook.c`, `src/main.cpp` | memory protection, PLL, PSRAM chips, USB controller, crash report | `ResetHandler2`, `startup_late_hook`, `main`, `unused_interrupt_vector` | the board is handed over complete, after a crash too |
| GPIO interrupts, `src/gpio_interrupt.c` | callback tables, port registers | `attachInterrupt`, `detachInterrupt`, `irq_anyport` | a callback runs for its own pin and setting only |
| debug port pins, `inc/DAP_config.h` | modes and latches of SWCLK and SWDIO | `PORT_SWD_SETUP`, `PIN_SWDIO_...` | what is written reaches the line |
| SWD test, `src/cmsis_dap/test_swd_read_id.c` | `ack`, `id_code` | `test_dap_connect`, `swd_packet` | both sides stay in step and never drive together |

`usb_configuration` is set by endpoint 0 and read by the task without a lock; a
bus reset does not clear it. `endpoint0_setup` calls `usb_cmsis_dap_configure` in
the ISR, in the middle of whatever the task does. Callbacks run in the ISR. The
task masks the USB interrupt while it executes a command, and for the length of
`rx_queue_transfer`.

The hazards, each at its line, are in `PROJECT.json`.

## Modules

    TransferQueue  --implements-->  TransferFifo  (endpoint with a callback)
                   --implements-->  SilentFifo    (endpoint without one)
    CmsisDapRx     built on TransferFifo     CmsisDapTx  built on SilentFifo
    CmsisDapUsb    TransferQueue + CmsisDapRx on the OUT endpoint, TransferQueue +
                   CmsisDapTx on the IN endpoint
                   --implements-->  CmsisDapRx, CmsisDapTx
    CmsisDapTask   CmsisDapRx + CmsisDapTx + the task, the host and the ISR
                   --implements-->  DapService
    Endpoint0      on its own; its SetConfiguration is the Configure of the others
    Firmware       Boot (reset to the late hook, crash to reset) + KernelPort (from
                   the late hook on)
    SwdReadId, SwjCommands   built on SwdPins
    Target         one of SwjClock, SwdReadId and GpioInterrupt
    TransferQueueProofs, CmsisDapRxProofs, CmsisDapTxProofs, CmsisDapTaskProofs,
    CmsisDapUsbProofs, Endpoint0Proofs, FirmwareProofs   theorems about the modules they
                   are named after; CmsisDapTaskProofs uses those of the two halves,
                   CmsisDapUsbProofs also those of the list; FirmwareProofs is about
                   KernelPort and Boot too
    TargetProofs   theorems about Target, for its three parts

**TransferQueue** is one endpoint of `usb.c` at the level of single register and
memory accesses. `callback` says which kind of endpoint it is and never changes. `Prepare`
is `usb_prepare_transfer`; `Begin`, `CheckPrime`, `SetTripwire`, `ReadStatus`,
`TestTripwire`, `Rearm`, `Prime` and `End` are the steps of `schedule_transfer`, whose program counter is `swPc`; `IsrAcknowledge`,
`IsrCount`, `IsrStop` and `IsrCallback` are the completion branch of `usb_isr`
with `run_callbacks`. `schedule_transfer` runs with interrupts off and the ISR is
not interrupted by the task, so those two do not interleave; the controller
(`HwPrime`, `HwRetire`, `HwAdvance`) interleaves with both. The controller is
external: it is modelled from the registers the code uses and the notes at
`usb.c:812-832`. Between `HwRetire` and `HwAdvance` lies the hazard region of
those notes: the controller has read the next pointer and an addition to the list
goes unnoticed, so it clears ATDTW. It may also show its own re-priming bit in
ENDPTPRIME then (`PrimeReads`). The code sets ATDTW by read-modify-write of
`USBCMD`. The only other code that writes this register at run time is `usb_isr`, for
SUTW (`usb.c:251`, 255), which does not come between the accesses of
`schedule_transfer`.

**TransferFifo** and **SilentFifo** say what such a queue promises: transfers are
completed in order, and with a callback the ISR takes some number of completed
transfers and calls back exactly those; a completion it leaves behind is owed
another interrupt. In TransferFifo acknowledging and counting are one step; that
clearing ENDPTCOMPLETE first and walking then (`usb.c:267`) comes to this is what
`FifoRefinement` and `EveryTransferGivenBack` check on the list, where they are
separate steps. `CmsisDapRx` and `CmsisDapTx` use these as their endpoints, so they
need not carry the linked lists along.

**CmsisDapRx**: `chain` is the queue of the OUT endpoint, `done` how many of its
transfers have completed, `due` how many the ISR is calling back now. The task is
stepped once per access to shared state (`recvPc`), and its steps wait for
`due = 0`, because the ISR runs to completion. `sent` numbers the host's packets,
`PacketLen` gives each a length (a zero-length packet among them), `nextPacket` is
the one `recv` owes its caller.

**CmsisDapTx**: `active` is bit 7 of each transfer's status word. `send` reads
`tx_head` once for the descriptor and again, after its wait, for the buffer; both
reads are there. `accepted` and `hostGot` are the responses scheduled and read.

**CmsisDapUsb** puts the halves back on the list. `callback` chooses the endpoint and
with it the half. `usb_prepare_transfer` and `schedule_transfer` are now calls of
several steps: `recv` and `send` stand still in them, the controller does not.
`usb_cmsis_dap_configure` goes through them N times inside the ISR (`LoopPrepare`,
`LoopReceive`); `todo` is what it has yet to queue. Between NVIC_DISABLE_IRQ and
`schedule_transfer` the ISR does not begin (`IsrMayRun`), and the packet a host sends
goes into the buffer whose descriptor the controller retires. To `CmsisDapRx` the list
looks as if everything in `todo` were queued (`rxChain`), which nobody can tell before
the request is over; `done`, `due` and `irq` are what the list's own state says.

**CmsisDapTask** composes the two with the task's own loop (`taskPc`), the
conversion of `recv`'s `int` to `uint16_t` (`Uint16`), and the masking of
interrupts while a command runs (`masked`; BASEPRI 112 masks the USB interrupt,
which `startup_hook.c:36` gives priority 224). A command is abstracted to the
request it answers. The host leaves at most `Window` requests unanswered.
The test `usb_cmsis_dap_rx_available` and `taskYIELD` give other tasks a turn;
those share no state with this one, so they are part of the step back to `recv`.

**DapService** is what the host is promised: every request executed once, in
order, and answered once, in order, since the last configuration.

**Endpoint0** steps `usb_isr` through one register access at a time: entry
(`IsrEnter`), the SETUP loop with its copy under the SUTW tripwire
(`ReadSetupStatus` to `TestTripwire`), `Flush`, one action per standard request,
the priming of the status stage (`PrimeAck`, `WaitForPrime`), the late write of
DEVICEADDR (`UseAddress`), the bus-reset branch (`HandleReset`) and the port change
(`Leave`). `prime` and `primed` say which descriptor each direction is priming or
primed with; `staged` is what `endpoint0_transfer_data` and its buffer hold, and the
host reads what is there when it reads (`HostData`). `reply_buffer` and
`usb_descriptor_buffer` are one variable, which makes overwriting likelier, not less
likely. A SETUP packet is two words, so that a torn copy can be told from a whole
one: request and `wValue`, `wIndex` and `wLength`. `wIndex` names an endpoint and a
direction (`HaltOf`), each with its halt bit TXS or RXS, and is compared with that of
the descriptor. Both configuration descriptors depend on the speed (`DescriptorReply`).
`overtaken` is a history variable.

**SwjClock** is the arithmetic of `Set_Clock_Delay` in a word of `UINT32` values,
and the sequence of requests that set it.

**KernelPort** is the processor after start-up. `pending`, `active` and `handler`
are the exceptions; an exception that can be taken (`Taken`) goes before the next
instruction of anybody else, so every step of a task or a handler requires that
none can. Of several the one with the lowest priority value is taken, and the lower
exception number between equals (`Precedes`). The tick that wakes a task may pend
PendSV or not, as the kernel's `xTaskIncrementTick` says (`port.c:561-577`). `boot` steps main's thread through the late hook, the creation of the
tasks and `xPortStartScheduler`. `nesting` is the one `uxCriticalNesting` that all
tasks share; `depth` is, for each task, how many sections it is in, which the
processor does not know and the invariant relates to `nesting`. `CmsisDapTask` is
a poller that masks BASEPRI around a command and PRIMASK around a schedule; what
`usb_cmsis_dap_recv` schedules is a schedule like `send`'s. `LedBlinkTask` and the
timer task are sleepers that block in a nested critical section of the kernel. Of
the kernel only the rotation of the ready tasks and the set of blocked ones are
kept. The idle task is left out: its priority is lower, and `CmsisDapTask` is always
ready. Raising BASEPRI also clears PRIMASK (`portmacro.h:216-219`), which is clear
wherever it is called.

**Boot** is `ResetHandler2` up to the late hook, and `unused_interrupt_vector`.
`pll` is the register and `n` the copy that a round of `usb_pll_start` works on; the
PLL may lock at any step once it has power. `quad` is the mode of the PSRAM chips,
which a reset does not change, and `window` says which chip an address reaches. The
memory protection is the list `Regions`, in the code's order, over the places a
stray write may hit. `report` and `cached` are the crash report in memory and in the
data cache. **Firmware** joins the two: the late hook is entered when Boot is at
`"late"`, a crash may come at any moment from then on or before (`StrayWrite`), and
a reset forgets the kernel (`KernelAfterReset`).

**SwdPins** is the functions of `DAP_config.h`; **SwdReadId** turns the self-test
into the sequence of its operations on the pins (`test_dap_connect`) and runs it
against a target that follows the serial wire protocol clock by clock (`RisingEdge`).
Data bits are numbers, so that a shifted or doubled bit shows. **SwjCommands** is the
order in which a host may use the pins.

**GpioInterrupt** steps `attachInterrupt` and `detachInterrupt` register by register;
`irq_anyport` and the port's events come in between. `copy` is what a
read-modify-write of IMR has read. `cause` is a history variable: how the pin was
set when its last event occurred.

Definitions whose comment begins with "Mutant" are faulty variants of the
definition that follows. They are not part of the models; each shows that a
property would notice a plausible mistake.

## Runs

| run | instance | shows |
|---|---|---|
| `rx` | 2 buffers, 5 packets, 3 configurations | ownership, count, order; every accepted packet is delivered |
| `rx_stale_tail` | the same, SET_CONFIGURATION at any time | finding: a stale `rx_tail` returns a packet nobody sent |
| `tx` | 3 buffers, 6 responses of 2 kinds, 2 configurations | the host reads what was accepted |
| `usb` | 3 transfers on either endpoint; 4 packets or responses, 3 configurations | the list implements TransferFifo with a callback and SilentFifo without, each half on it is what it is on the abstract queue; nothing is linked twice or stranded, no buffer is shared, types; completed transfers are given back, and every packet and response comes through |
| `task` | 2 + 2 buffers, 6 requests, 3 configurations, 2 outstanding | implements DapService; no response is dropped; every request is answered |
| `task_unsolicited` | the same, SET_CONFIGURATION at any time | finding: a response to a request never sent |
| `ep0` | 3 SETUP packets of 15 kinds, 1 bus reset | data, status and stall belong to the request made last; every request is answered |
| `ep0_speed` | 2 SETUP packets, the configuration descriptor asked for at once | finding: the descriptor for the other speed |
| `target` | 111 frequencies at the real clock rates; the whole self-test against 4 answers; 2 pins, 2 callbacks, 4 modes | the delay is right; line and turnarounds; callbacks for their own events |
| `clock_underflow` | 18 to 149 MHz as well | finding: the delay wraps around |
| `pins_read` | every order of 4 commands | finding: reading SWDIO turns its output off until the next Connect |
| `firmware` | 3 tasks, sections nested twice, 3 pairs of PSRAM chips, 1 crash | hand-over, protection, masking, switches; the LED task goes on running |

`target` holds three modules that share no state and no actor: a behaviour of
`Target` is one of one of them (`part`), while the others stay as they start.

Bounds. Two receive buffers and five packets take the ring of three slots round
more than once, with every combination of empty, full and wrapped; the proofs
cover the other sizes. Three configurations allow one before, one during and one
after traffic. Three transfers are the least that tell the first, a middle and
the last descriptor of a list apart, and four packets or responses take the list and
each ring past their ends; nothing in `TransferQueue` itself is bounded but `N`, and its
proofs allow any transfer that may be scheduled to be the next. With `N = 1` an endpoint
without callback links a descriptor behind itself, and `TransmitRefinement` and
`ScheduledOnce` fail: `DAP_PACKET_COUNT` has to be at least 2. Three transmit buffers
make `tx_head` wrap while a response is in flight.
`MaxSent`, `MaxConfigs`, `MaxAccepted` and `MaxTxConfigs` bound counters only.
Three SETUP packets are one that is answered, one that is given up and one that
follows it; their fifteen kinds reach every branch of `endpoint0_setup`, with both
directions of an endpoint that SET_CONFIGURATION configures anew, an endpoint on either
side of the bound, both configuration descriptors, a descriptor the list does not have,
and descriptors shorter and longer than what is asked for.
TLC's integers have 31 bits, so the instances of SwjClock take `UINT32` to be
2^30, which changes the value a subtraction wraps to and nothing else.
Nested sections of depth 2 tell an inner exit from an outer one. `MaxCrashes` is 1,
which makes every step of start-up and of the kernel the one that crashes and every
step of start-up follow a crash; `CrashPolls` stands for 80 periods of 100 ms. The
three pairs of chips are both fitted, of different sizes and makers, only the first,
and only the second, which start-up does not look for. `UNSTARTED` stands for
0xaaaaaaaa: creating a task counts one up and one down from it, so its size does not
matter as long as it is not 0. Two pins and two
callbacks give every pair of the same and different pins, and the modes one that uses
the edge register, two that do not and one that is refused.
`target` does not check deadlock, since the self-test ends. Nor does `ep0`: after its
last request the host is content. Nor does `tx`: when the bound on responses is
reached the task has nothing to send and the system rests. Nor does `usb`, for the same
reason.

`usb` checks the list under its real callers, and the types of the list and of both
halves (`UsbTypeOK`). `RingNeverOverruns`, `ListDelimitsChain` and the `DeliveredInOrder`
of the composition are proved and have no run: the first follows from `NoBufferLost`,
the others from the refinements.

Assumptions, each a constant or a guard:

- `AnyTimeConfig = FALSE`: SET_CONFIGURATION finds the task before its first use
  of `rx_tail` or `tx_head`, or with the value that configuration sets
  (`SafeToConfigure`), and between requests. The code does not guarantee it: the
  runs `rx_stale_tail` and `task_unsolicited` drop it, and show what then happens.
  `CmsisDapUsb` assumes it throughout.
- The tripwire loop ends before its 2400 cycles: it takes a few register accesses,
  and the controller clears ATDTW at most once per packet.
- `moved`: at most one packet moves on the bus while `schedule_transfer` has
  interrupts disabled; a bulk packet takes microseconds, the section well under
  one.
- `Configure` comes when the controller is not priming: the control transfer takes
  longer.
- A host in an unconfigured or reset state does not use the bulk endpoints (`live`).
- Of the controller on endpoint 0: it answers nothing while a SETUP packet is
  unacknowledged, and clears a stall with a SETUP packet; the code relies on both,
  since it never clears a stall itself. Whether a SETUP packet voids what is
  primed, and whether priming takes while one is unacknowledged, is left open.
- `Prompt = TRUE`: two sequences of a few register accesses end before the
  controller answers the host's next token: from the acknowledgement of a SETUP
  packet to the flush (`usb.c:247-257`), and from the priming of SET_ADDRESS's status
  stage to the write of DEVICEADDR (436-437). With `FALSE`, `StatusMeansDone` fails:
  a status stage left primed by the request before ends the new one.
- `AsksBeforeSpeedKnown = FALSE`: no host asks for a configuration descriptor, its
  own or the other-speed one, first (`ep0_speed` drops it).
- A host that gives up SET_ADDRESS repeats it or resets the bus.
- `RequestsAssumption`, `DescriptorAssumption`: an address has seven bits, a
  configuration value eight, nobody halts endpoint 0, and a read asks for at least
  one byte, since it would have no data stage otherwise; a descriptor has at least
  the two bytes of its header. `DEVICEADDR` is written from the 16 bits of `wValue`
  unmasked, so `NoAddress`, which is none, is 128.
- `RequestAssumption`: a CMSIS-DAP request has at least its command byte, and at most
  the 512 of a packet. A zero-length packet would leave the old request in place and
  be executed as nothing, which is how `CmsisDapRx` models it.
- `FittingsAssumption`: a PSRAM site is empty or holds a chip of a known size.
- `TickBetweenStores = FALSE`: no tick falls between `startup_hook.c:29` and 30, where
  SysTick already has the kernel's handler and still priority 32, which BASEPRI 112
  does not mask. `millis()` has just changed when the hook begins, and the next tick is
  nearly a millisecond away. With `TRUE` TLC finds `TypeOK` violated: the tick reaches
  a kernel without lists.
- No delay ends within the few instructions between its start and the yield after it
  (`IncrementTick` does not wake the current task).
- A callback of `irq_anyport` does not attach or detach pins.
- `PinsAreNumbers`, `ClockAssumption`: pins are bit positions of a port; `CPU_CLOCK`
  is positive and fits the word. `UINT32`: see above.
- `Window`: the host leaves at most DAP_PACKET_COUNT requests unanswered, as the
  CMSIS-DAP packet count it reads allows.

Fairness. The task is always runnable and the kernel runs it (weak fairness of
its steps); a pending unmasked USB interrupt is taken, and its handler's loops
are entered again as long as completions are owed (weak fairness of the ISR's
steps); the controller acts on what it is primed with. The host is taken to read
responses (`HostRead`) but never obliged to send. In `usb` the calls of
`schedule_transfer` and the ISR run on (`CallRuns`, `IsrRuns`), and so does `recv`,
which `EveryPacketPasses` needs. On endpoint 0 the host goes on asking for a stage until it is answered, and
gives up only as many requests as the bound allows. Each liveness property allows
for a bus reset or a new configuration, which void what was under way.

`WakingTasksRun` rests on the fairness of `KernelPort` and `Boot`. Interrupts come
more slowly than they are handled (`InterruptsLeaveTime`): again and again none is
pending or active. Pending exceptions are taken and handlers run on (weak fairness).
SysTick goes on counting and every delay of a `Waking` task ends at some tick
(strong fairness of that outcome of `IncrementTick`). A thread's next step waits for
interrupts, so it is enabled again and again but not always, and its fairness is
strong. Two choices of the environment are fair: the kernel's nested sections end
(`LeaveRotation`), and the host pauses, so that a task which checks for requests again
and again finds none at some time (`YieldWhenIdle`). The code does not guarantee the
pause, and without it the LED task does starve, so this hazard is assumed away and not
caught: `CmsisDapTask` yields only when
nothing is available, and time slicing is off. Start-up and the crash handler run
on, the PLL locks, and the USB controller's reset ends.

## Proofs

`TransferQueueProofs` proves, for any number of transfers N (without a callback at
least two), the inductive invariant `QueueInvCorrect` and from it
`NoTransferStrandedCorrect`, `ListDelimitsChainCorrect`, `TypeCorrect`, and that the
linked list with its handshake implements the abstract queues that the two halves of
the USB interface are built on: `FifoRefinementCorrect` and `SilentRefinementCorrect`.
`QueueInv` has these parts. `ChainInv`: the next pointers lead through the scheduled
transfers, of which the active ones come last. `TransferInv` and `TurnInv` say which
transfer is being scheduled, and that it is not scheduled already, where the transfers
are used in turn. `DelimitInv`, `WalkInv` and `ScheduleInv` say where first_transfer and
last_transfer point, at rest and at each step of `run_callbacks` and
`schedule_transfer`. `ControllerInv` is the heart: whatever the controller executes, is
primed with or is about to move on to is the oldest active transfer (`FirstActive`), and
when it rests (`Resting`) nothing is left for it but what is just being scheduled.
`StatusInv` says what the handshake may conclude: after the tripwire has held, the
status read is the controller's, and it rests whenever the code primes it. `PaceInv`
carries the one assumption on time, that one packet at most moves while interrupts are
disabled. For the refinement, `Completed` describes the number of transfers that
TransferFifo calls `done`; the walk is one step of it, the one at which it ends.
Nothing else bounds the proof: with N = 1 and no callback a transfer is linked behind
itself, and the controller may come to it before it is scheduled.

`CmsisDapRxProofs` proves, for every number of buffers, packets and
configurations and packets of any length:

- `TypeCorrect`: `Spec => []TypeOK`.
- Under `~AnyTimeConfig`: `RxInvCorrect`, and from it `RingNeverOverrunsCorrect`,
  `ExclusiveOwnershipCorrect`, `NoBufferLostCorrect` and `DeliveredInOrderCorrect`.

`RxInv` has five parts. None of the properties is inductive: `rx_event` stores
without looking, so that it cannot overrun the ring follows only from the count
of all buffers (`CountInv`), and that packets come in order only from numbering
them along the whole way, from the task through the ring to the controller's
queue (`OrderInv`), where a packet's buffer keeps its content only because it has
one owner (`ExclusiveOwnership`). `LocalsInv` says that `recv`'s copy of `rx_tail` is
current, and `ReturnInv` carries buffer, length and content through the end of
`recv`. The ring's arithmetic is in the lemmas about `Wrap`, `Distance` and `Between`.
The proof goes action by action; steps that leave the ring alone are treated
together (`Quiet`). The hypothesis `~AnyTimeConfig` is used in `ConfigureRing` and
nowhere else, and the run `rx_stale_tail` shows that it cannot be dropped.

`CmsisDapTxProofs` proves, for every number of transfers, responses and
configurations: `TypeCorrect`, and under `~AnyTimeTxConfig` `TxInvCorrect`, from
which follow `HostReadsWhatWasAcceptedCorrect` and `ActiveMeansQueuedCorrect`.
Neither property is inductive. `send` looks at one transfer only, the one at
`tx_head`, and fills the buffer of the same number; that neither is in flight follows
from where the transfers in flight are. `QueueInv` says it: the queue is the last
transfers before `tx_head`, in turn (`Back`). `ActiveInv` ties the active bits to
the queue, `ContentInv` each queued buffer to the response accepted with it, and
`LocalsInv` says that `xfer` is still `tx_head` where `send` uses both.

`CmsisDapUsbProofs` proves that the halves stay correct on the linked list itself, with
the list's steps spread over those of the halves: `ReceiveRefinementCorrect` for any
number of transfers, `TransmitRefinementCorrect`, `UsbTypeCorrect`,
`ScheduledOnceCorrect`, `BuffersApartCorrect` and `DeliveredInOrderCorrect` for two
transfers or more (on the OUT endpoint one would do, as `UsbInvCorrect` says). `QueueInv`
holds only if the code above schedules what is not scheduled already, and on the IN
endpoint what is free and next in turn (`MaySchedule`), which `usb.c` never tests. That
is what the halves' invariants say of `recv`'s `i` and `send`'s `xfer`; and these hold
only if the list behaves as a queue. So neither comes first, and `UsbInv` is both at
once: `QueueInv`, `RxInv` or `TxInv` read on the list, and what links them.
`ReceiveLink` says where the task and the loop of `usb_cmsis_dap_configure` stand in
`schedule_transfer` and that a callback is for a packet that has arrived;
`TransmitLink` that the next transfer in turn is the one at `tx_head`; `ActiveListed`
that an active transfer is in the list. Every step of the composition is shown to be a
step of the half or to leave it alone, so what is proved in `CmsisDapRxProofs` and
`CmsisDapTxProofs` carries over.

`CmsisDapTaskProofs` proves, for every number of buffers, requests, configurations
and any window: `TypeCorrect` without hypothesis; under `~AnyTimeConfig` and
`Window =< TX_NUM` the inductive invariant `TaskInvCorrect`, `NoResponseDroppedCorrect`,
and `ServiceRefinementCorrect`: the debugger implements `DapService`. Every step of
the composition is a step of each half or leaves it alone (`RxStep`, `TxStep`), except
that a command's execution writes `USB_Response`; so `RxInv` and `TxInv` are taken over
from the halves. What they do not say is how the halves fit. `OnInv` counts: what
`recv` has returned is what was executed plus the request in hand, what `send` has
accepted is what was executed but for the response it is at, and the k-th response
accepted answers the k-th request since the configuration. With the order of packets
(`Returned`) that bounds the responses in flight by the host's window, so that the
transfer at `tx_head` is free (`TransferIsFree`). `OffInv` covers the device that is
not configured: there `recv` returns -1, the task executes 65535 bytes of old
request, and `send` refuses. Without `Window =< TX_NUM` `send` may time out and drop a
response; `task_unsolicited` shows what happens without `~AnyTimeConfig`.

`Endpoint0Proofs` proves, for any requests and descriptors and any number of SETUP
packets and resets, `TypeCorrect` and `NoTornRequestCorrect` whatever the timing
(`CopyInv`: what the tripwire lets through is whole); under `Prompt` the inductive
invariant `WorkInvCorrect`, `StatusMeansDoneCorrect` and `StallMeansUnknownCorrect`;
and with `~AsksBeforeSpeedKnown` also `ReplyMatchesRequestCorrect`. What the
host sees depends on what endpoint 0 has primed, and that may have been primed for a
request the host has given up. `WorkInv` says whose it is: unless a newer packet is
unacknowledged or being copied (`Current`), data, status stage and stall belong to the
last request, and a status stage is offered only when the request has had its effect.
`StageInv` ties the ISR's place to the request it has copied, `ReplyInv` adds the
content of the reply, and `SpeedInv` the speed that the configuration descriptor
depends on.

`FirmwareProofs` proves of the port, for any tasks, any order of creation and any nesting,
under `~TickBetweenStores`:

- `KernelInvCorrect`, the inductive invariant, and from it `KernelTypeCorrect` (with
  it: no assertion of the port fails), `MaskedMeansAloneCorrect`,
  `PreparedInSilenceCorrect` and the action property
  `SwitchLeavesNoHandlerOpenCorrect`.

`MaskedMeansAlone` is not inductive: that nobody else is inside a section follows
only from the count that all tasks share. `KernelInv` is `TypeOK` and four parts.
`StartInv` says, for each step of start-up, what has been stored and masked so far,
so that nothing can be taken once the hook has begun. `QuietInv` is about the time
after the tick's handler is stored: which priorities are set, that no tick is
pending, and that the count is at `UNSTARTED` or one above. `RunInv`: once tasks
run, the count is the current task's depth, `MaskedMeansAlone` holds, and BASEPRI or
PRIMASK is set wherever the current task is inside a section, a command or a
schedule. `DepthInv` fits a task's depth to where it is.
The proof goes action by action; a thread's step happens only when no exception
can be taken (`Undisturbed`), so the lemma `TaskRuns` gives each of them that no
handler is open and nobody else is inside.

It carries the three properties to the composition: start-up and the
crash handler leave the kernel alone, and a reset puts it back into its initial
state (`ResetIsInit`), so the invariant survives any number of crashes. It
also proves `FirmwareKeepsBoard`, the inductive invariant of start-up,
and from it `FirmwareStrayWritesAreCaught` and `FirmwareHandOverComplete`, for any
fitting of PSRAM chips and any number of crashes, and `FirmwareTypeCorrect`. The
board's invariant says, stage by stage, what start-up has done so far, and what a
crash leaves: chips in quad mode, and a USB controller that runs.

`TargetProofs` is about the three parts that face the target. For any pins, callbacks
and modes, `GpioInvCorrect` and from it `CallbackForItsEventCorrect`: a task that sets a
pin up has masked it meanwhile (`MaskInv`), so an event that can still reach the
handler, pending in ISR or in its copy `status`, belongs to the pin's present setting
(`EventInv`). For any processor clock of 32 bits and any frequency,
`NeverFasterThanAskedCorrect`, and `ClockTypeCorrect`; `SlowDelayIs` shows that of the
unsigned operations only the subtraction of the fix can wrap, and the wrapped delay is
too long and never too short. `NoSlowerThanNeededCorrect` has the hypothesis
`ClocksAreSafe`, that the half period leaves room for the port write and the fix or
that no delay is needed; `clock_underflow` shows frequencies that do not satisfy it.
For the self-test, which has no constants, `NeverBothDriveCorrect`,
`ReplyReadInStepCorrect`, and for all parts together `TargetTypeCorrect`. The test is a
sequence of 209 operations put together from the functions of the source; the lemma
`TestOps` says which operation stands at each number (`Program`). `SwdInv` then fits
pins, line and target to that number: `PhaseInv` says where the target is in the
protocol, `LineInv` that SWDIO is an output except between the two turnarounds,
`ResetInv` that the line has been high for 50 clocks before the target looks for one,
and `ReadInv` that what has been read is what the target has sent. At which place of
`id_code` a bit belongs is asked of nothing: `swd_read_byte` puts the first bit of each
byte at its highest place, though the protocol sends the lowest first, so the number
printed has the bits of each byte reversed.

The assumptions are those on the constants in the modules, which TLC evaluates in its
runs. `Target` has two: `PinsAreNumbers` (bit positions) and `ClockAssumption` (the
clock and the frequencies are numbers, the clock less than 2^32). `~TickBetweenStores` cannot be dropped, as said above.

tlapm 1.4.5 tells its SMT solver, of any S, that S has length n when its domain is 1..n
and the converse, though S need not be a sequence. A function over 0 .. N - 1, such as
`act`, next to a length then makes an obligation true for no reason. So all proofs were
also checked with the converse taken out of what the solver gets; none depends on it.

Model-checked only: `EveryTransferGivenBack`, `EveryPacketDelivered`,
`EveryRequestAnswered` and all other liveness, which rests on fairness and ENABLED and is
out of the proof system's reach here. Every safety property of a passing run is stated
by a theorem.

## Not modelled

- Descriptor tables, the build and the linker script: no behaviour over time.
- The kernel, the Teensy core library and the CMSIS-DAP firmware: submodules that
  the repository does not contain. `DAP_ProcessCommand` is external; of the kernel
  `KernelPort` keeps who is ready and who sleeps.
- Of `port.c`: stack frames, the floating-point unit, and what `FreeRTOSConfig.h`
  leaves out (tickless idle).
- Of `startup.c`: newlib's system calls, debug printing, clocks of peripherals that
  are not used, the RTC; of the crash handler, what `usb_isr` does when it is polled.
- Of `usb.c`: the start-of-frame and timer interrupts and the countdown to a reboot,
  which nothing enables or requests here; the request 0xF8C0 (lines 523-529), which is
  compiled only with `EXPERIMENTAL_INTERFACE`, a macro that nothing here defines.
- A command that enters a critical section of the kernel, which would end the
  command's masking early: no code of the repository that a command runs does.
- The priming register shared between endpoints (`usb.c:793`): the queues are
  modelled one endpoint at a time.
- Caches: the buffers are invalidated and flushed where the code says so; a model
  of the cache would restate those calls. The crash report is the exception.
- `endpoint0_complete` and `endpoint0_notify_mask`: no call asks for a notification,
  so the mask is always 0.
- `usb_transfer_status` is a read of a status word; time-outs are a choice to
  stop waiting that the code may make at any poll.

## Plan

1. The priming register shared between two endpoints.
2. The task over `CmsisDapUsb` instead of the two halves on abstract queues; that it
   implements DapService then follows from the refinements proved, half by half.
3. The crash handler's polling of `usb_isr` over lists it has interrupted.
