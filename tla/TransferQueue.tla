---------------------------- MODULE TransferQueue ----------------------------
(***************************************************************************)
(* One endpoint queue of src/device/src/usb.c: the linked list of transfer *)
(* descriptors, schedule_transfer with its priming handshake, the ISR's    *)
(* run_callbacks, and beside them the USB controller, modelled from the    *)
(* registers the code reads and writes and from the notes at usb.c:812-832.*)
(*                                                                         *)
(* Processor steps are single accesses to a register or to a descriptor;   *)
(* the controller acts between any two.  schedule_transfer runs with       *)
(* interrupts disabled and run_callbacks in the ISR, so those two never    *)
(* interleave with each other.                                             *)
(*                                                                         *)
(* callback tells the debugger's two endpoints apart: OUT, whose completed *)
(* transfers the ISR takes off the list and calls back, and IN, whose list *)
(* the ISR never touches and whose transfers are used in turn.             *)
(***************************************************************************)
EXTENDS Naturals, SequencesExt

CONSTANT N    \* transfers of the endpoint: RX_NUM or TX_NUM

ASSUME NAssumption == N \in Nat \ {0}

Xfer == 0 .. N - 1
Null == N             \* no transfer, and the terminate bit of a next pointer
XferOrNull == 0 .. N

VARIABLES
    callback,       \* endpoint->callback_function # NULL
    next, act,      \* of each descriptor: next pointer and active bit
    first_transfer, last_transfer,
    qhNext,         \* endpoint->next
    prime, stat, atdtw, complete,  \* ENDPTPRIME, ENDPTSTATUS, USBCMD.ATDTW,
                                   \* ENDPTCOMPLETE: this endpoint's bit
    cur,            \* the descriptor the controller is executing
    hazard, seen,   \* between descriptors, with the next pointer it has read
    live,           \* the host moves data on the endpoint
    moved,          \* a packet has moved since interrupts were disabled
    swPc, transfer, last, status,  \* schedule_transfer and its locals
    turn,           \* the transfer an endpoint without callback uses next
    isrPc, first, t, count,        \* run_callbacks and its locals
    chain           \* what has been scheduled and not given back, oldest first

descriptors == <<next, act>>
queueHead == <<first_transfer, last_transfer, qhNext>>
registers == <<prime, stat, atdtw, complete>>
controller == <<cur, hazard, seen, live, moved>>
scheduler == <<swPc, transfer, last, status, turn>>
isr == <<isrPc, first, t, count>>
vars == <<callback, descriptors, queueHead, registers, controller, scheduler, isr,
          chain>>

Init ==
    /\ callback \in BOOLEAN
    /\ next = [x \in Xfer |-> Null] /\ act = [x \in Xfer |-> FALSE]
    /\ first_transfer = Null /\ last_transfer = Null /\ qhNext = Null
    /\ turn = 0 /\ chain = <<>>
    /\ prime = FALSE /\ stat = FALSE /\ atdtw = FALSE /\ complete = FALSE
    /\ cur = Null /\ hazard = FALSE /\ seen = Null /\ live = FALSE
    /\ moved = FALSE
    /\ swPc = "unconfigured" /\ transfer = 0 /\ last = Null /\ status = FALSE
    /\ isrPc = "idle" /\ first = Null /\ t = Null /\ count = 0

-----------------------------------------------------------------------------
(* The controller.                                                         *)

InIsr == isrPc # "idle"
InterruptsDisabled == swPc \notin {"unconfigured", "idle", "begin"}

\* Priming: the descriptor the queue head points to is loaded, if it is active.
HwPrime ==
    /\ prime /\ ~hazard
    /\ prime' = FALSE
    /\ IF qhNext # Null /\ act[qhNext]
       THEN cur' = qhNext /\ stat' = TRUE
       ELSE cur' = Null /\ stat' = FALSE
    /\ UNCHANGED <<callback, descriptors, queueHead, atdtw, complete, hazard, seen, live,
                   moved, scheduler, isr, chain>>

\* The host moves the packet; the descriptor is retired and its next pointer
\* read.  From here to HwAdvance an addition to the list may go unnoticed, and
\* the controller clears ATDTW to say so.  Descriptors of an endpoint without
\* callback have no IOC bit and set no completion bit.  A packet takes longer on
\* the bus than schedule_transfer with interrupts disabled: one moves at most.
HwRetire ==
    /\ ~(InterruptsDisabled /\ moved)
    /\ moved' = TRUE
    /\ live /\ stat /\ ~hazard /\ ~prime /\ cur # Null
    /\ act' = [act EXCEPT ![cur] = FALSE]
    /\ seen' = next[cur]
    /\ hazard' = TRUE
    /\ atdtw' = FALSE
    /\ complete' = (complete \/ callback)
    /\ chain' = IF callback THEN chain ELSE RemoveFirst(chain, cur)
    /\ UNCHANGED <<callback, next, queueHead, prime, stat, cur, live, scheduler, isr>>

\* On to the next descriptor, or no longer primed.
HwAdvance ==
    /\ hazard
    /\ hazard' = FALSE
    /\ seen' = Null
    /\ IF seen # Null /\ act[seen]
       THEN cur' = seen /\ stat' = TRUE
       ELSE cur' = Null /\ stat' = FALSE
    /\ UNCHANGED <<callback, descriptors, queueHead, prime, atdtw, complete, live,
                   moved, scheduler, isr, chain>>

Controller == HwPrime \/ HwAdvance

\* What a read of ENDPTPRIME may return: the bit, or the one the controller sets
\* momentarily while it moves on to a next descriptor.
PrimeReads(v) == v = prime \/ (v /\ hazard /\ seen # Null)

-----------------------------------------------------------------------------
(* schedule_transfer.                                                      *)

Software(from) == swPc = from /\ ~InIsr

\* A transfer the code above may schedule: not scheduled already, and in turn
\* where usb_cmsis_dap_send goes through them in turn.
MaySchedule(x) ==
    /\ \A k \in 1 .. Len(chain) : chain[k] # x
    /\ ~callback => x = turn /\ ~act[x]

\* usb_prepare_transfer, and the call of usb_receive or usb_transmit.
Prepare(x) ==
    /\ Software("idle")
    /\ MaySchedule(x)
    /\ next' = [next EXCEPT ![x] = Null]
    /\ act' = [act EXCEPT ![x] = TRUE]
    /\ transfer' = x
    /\ turn' = IF turn + 1 >= N THEN 0 ELSE turn + 1
    /\ swPc' = "begin"
    /\ UNCHANGED <<callback, queueHead, registers, controller, last, status, isr, chain>>

\* __disable_irq, read last_transfer, and link the transfer behind it.
Begin ==
    /\ Software("begin")
    /\ last' = last_transfer
    /\ IF last_transfer # Null
       THEN /\ next' = [next EXCEPT ![last_transfer] = transfer]
            /\ swPc' = "prime?"
       ELSE /\ UNCHANGED next
            /\ swPc' = "rearm"
    /\ chain' = Append(chain, transfer)
    /\ moved' = FALSE
    /\ UNCHANGED <<callback, act, queueHead, registers, cur, hazard, seen, live, transfer,
                   status, turn, isr>>

\* Mutant: priming is not noticed.
CheckPrimeNever ==
    /\ Software("prime?")
    /\ swPc' = "trip"
    /\ UNCHANGED <<callback, descriptors, queueHead, registers, controller, transfer,
                   last, status, turn, isr, chain>>

\* "if (USB1_ENDPTPRIME & epmask) goto end"
CheckPrime ==
    /\ Software("prime?")
    /\ \E v \in BOOLEAN :
           /\ PrimeReads(v)
           /\ swPc' = IF v THEN "end" ELSE "trip"
    /\ UNCHANGED <<callback, descriptors, queueHead, registers, controller, transfer,
                   last, status, turn, isr, chain>>

\* "USB1_USBCMD |= USB_USBCMD_ATDTW": in the hazard region it does not stick.
SetTripwire ==
    /\ Software("trip")
    /\ atdtw' = ~hazard
    /\ swPc' = "status"
    /\ UNCHANGED <<callback, descriptors, queueHead, prime, stat, complete, controller,
                   transfer, last, status, turn, isr, chain>>

\* "status = USB1_ENDPTSTATUS"
ReadStatus ==
    /\ Software("status")
    /\ status' = stat
    /\ swPc' = "test"
    /\ UNCHANGED <<callback, descriptors, queueHead, registers, controller, transfer,
                   last, turn, isr, chain>>

\* Mutant: the loop does not test ATDTW.
TestTripwireOnce ==
    /\ Software("test")
    /\ swPc' = IF status THEN "end" ELSE "rearm"
    /\ UNCHANGED <<callback, descriptors, queueHead, registers, controller, transfer,
                   last, status, turn, isr, chain>>

\* The loop condition, then "if (status & epmask) goto end".  The condition's
\* other half, a bound of 2400 cycles, is not reached: the controller keeps the
\* tripwire clear only between two descriptors.
TestTripwire ==
    /\ Software("test")
    /\ \/ ~atdtw /\ swPc' = "trip"
       \/ atdtw /\ swPc' = IF status THEN "end" ELSE "rearm"
    /\ UNCHANGED <<callback, descriptors, queueHead, registers, controller, transfer,
                   last, status, turn, isr, chain>>

\* "endpoint->next = transfer; endpoint->status = 0"
Rearm ==
    /\ Software("rearm")
    /\ qhNext' = transfer
    /\ swPc' = "prime"
    /\ UNCHANGED <<callback, descriptors, first_transfer, last_transfer, registers,
                   controller, transfer, last, status, turn, isr, chain>>

\* "USB1_ENDPTPRIME |= epmask", and first_transfer if the list was empty.
Prime ==
    /\ Software("prime")
    /\ prime' = TRUE
    /\ first_transfer' = IF last = Null THEN transfer ELSE first_transfer
    /\ swPc' = "end"
    /\ UNCHANGED <<callback, descriptors, last_transfer, qhNext, stat, atdtw, complete,
                   controller, transfer, last, status, turn, isr, chain>>

\* "endpoint->last_transfer = transfer; __enable_irq()"
End ==
    /\ Software("end")
    /\ last_transfer' = transfer
    /\ swPc' = "idle"
    /\ UNCHANGED <<callback, descriptors, first_transfer, qhNext, registers, controller,
                   transfer, last, status, turn, isr, chain>>

Scheduling ==
    \/ Begin \/ CheckPrime \/ SetTripwire \/ ReadStatus \/ TestTripwire
    \/ Rearm \/ Prime \/ End

-----------------------------------------------------------------------------
(* usb_isr.                                                                *)

\* ENDPTCOMPLETE is acknowledged, then run_callbacks starts at first_transfer.
IsrAcknowledge ==
    /\ complete /\ ~InIsr /\ ~InterruptsDisabled
    /\ complete' = FALSE
    /\ first' = first_transfer
    /\ t' = first_transfer
    /\ count' = 0
    /\ isrPc' = IF first_transfer = Null THEN "idle" ELSE "walk"
    /\ UNCHANGED <<callback, descriptors, queueHead, prime, stat, atdtw, controller,
                   scheduler, chain>>

\* A completed transfer is counted; the list may end behind it.
IsrCount ==
    /\ isrPc = "walk"
    /\ ~act[t]
    /\ count' = count + 1
    /\ t' = next[t]
    /\ IF next[t] = Null
       THEN /\ first_transfer' = Null
            /\ last_transfer' = Null
            /\ isrPc' = "call"
       ELSE UNCHANGED <<first_transfer, last_transfer, isrPc>>
    /\ UNCHANGED <<callback, descriptors, qhNext, registers, controller, scheduler,
                   first, chain>>

\* Mutants: do-while callbacks; first_transfer is not moved; the callbacks are
\* skipped when the walk stops early.
IsrStopTo(head, pc) ==
    /\ isrPc = "walk"
    /\ act[t]
    /\ first_transfer' = head
    /\ isrPc' = pc
    /\ UNCHANGED <<callback, descriptors, last_transfer, qhNext, registers, controller,
                   scheduler, first, t, count, chain>>
IsrStopCallsAnyway == IsrStopTo(t, "call")
IsrStopKeepsFirst == IsrStopTo(first_transfer, IF count = 0 THEN "idle" ELSE "call")
IsrStopSkipsCalls == IsrStopTo(t, "idle")

\* A transfer that is still active: the new list begins here.
IsrStop ==
    /\ isrPc = "walk"
    /\ act[t]
    /\ first_transfer' = t
    /\ isrPc' = IF count = 0 THEN "idle" ELSE "call"
    /\ UNCHANGED <<callback, descriptors, last_transfer, qhNext, registers, controller,
                   scheduler, first, t, count, chain>>

\* One callback, for first; the callback functions of this firmware do not
\* schedule transfers.
IsrCallback ==
    /\ isrPc = "call"
    /\ first' = next[first]
    /\ count' = count - 1
    /\ isrPc' = IF count = 1 THEN "idle" ELSE "call"
    /\ chain' = RemoveFirst(chain, first)
    /\ UNCHANGED <<callback, descriptors, queueHead, registers, controller, scheduler, t>>

Isr == IsrAcknowledge \/ IsrCount \/ IsrStop \/ IsrCallback

\* The bus-reset branch: completions are cleared, primed endpoints flushed.
BusReset ==
    /\ live /\ ~InIsr /\ ~InterruptsDisabled
    /\ ~prime /\ ~hazard
    /\ complete' = FALSE
    /\ stat' = FALSE
    /\ cur' = Null
    /\ live' = FALSE
    /\ UNCHANGED <<callback, descriptors, queueHead, prime, atdtw, hazard, seen,
                   moved, scheduler, isr, chain>>

\* SET_CONFIGURATION: memset of the queue head and of the transfers.  The host
\* leaves the endpoint alone until the request is over, and a priming posted
\* before the request is over by then.  The queue head held the controller's copy
\* of the descriptor it was executing, so the controller executes nothing until
\* it is primed again, whatever ENDPTSTATUS says.  Configuration 0 turns the
\* endpoint off.
Configure(on) ==
    /\ ~InIsr /\ swPc \in {"unconfigured", "idle"}
    /\ ~prime /\ ~hazard
    /\ next' = [x \in Xfer |-> Null]
    /\ act' = [x \in Xfer |-> FALSE]
    /\ first_transfer' = Null
    /\ last_transfer' = Null
    /\ qhNext' = Null
    /\ turn' = 0
    /\ chain' = <<>>
    /\ cur' = Null
    /\ live' = on
    /\ swPc' = "idle"
    /\ UNCHANGED <<callback, registers, hazard, seen, moved, transfer, last, status, isr>>

Next ==
    \/ Controller \/ HwRetire
    \/ \E x \in Xfer : Prepare(x)
    \/ Scheduling
    \/ Isr
    \/ BusReset
    \/ \E on \in BOOLEAN : Configure(on)

Spec == Init /\ [][Next]_vars

-----------------------------------------------------------------------------
TypeOK ==
    /\ next \in [Xfer -> XferOrNull]
    /\ act \in [Xfer -> BOOLEAN]
    /\ {first_transfer, last_transfer, qhNext, cur, seen, last, first, t}
           \subseteq XferOrNull
    /\ {prime, stat, atdtw, complete, hazard, live, moved, status} \subseteq BOOLEAN
    /\ swPc \in {"unconfigured", "idle", "begin", "prime?", "trip", "status",
                 "test", "rearm", "prime", "end"}
    /\ transfer \in Xfer
    /\ turn \in Xfer
    /\ isrPc \in {"idle", "walk", "call"}
    /\ count \in 0 .. N
    /\ chain \in Seq(Xfer)

Elements == {chain[k] : k \in 1 .. Len(chain)}

\* No scheduled transfer is stranded: when schedule_transfer is done and an
\* active transfer is waiting, the controller is primed, or about to be, with
\* the oldest active one (usb.c:774-799 and the notes on ATDTW, 827-832).
NoTransferStranded ==
    swPc \in {"idle", "begin"} /\ live /\ ~hazard =>
        \A x \in Elements : act[x] =>
            \/ prime /\ qhNext \in Elements /\ act[qhNext]
            \/ stat /\ cur \in Elements /\ act[cur]

\* first_transfer and last_transfer delimit the scheduled transfers whenever
\* neither schedule_transfer nor run_callbacks is at work.
ListDelimitsChain ==
    callback /\ swPc \in {"idle", "begin"} /\ isrPc = "idle" =>
        IF chain = <<>>
        THEN first_transfer = Null /\ last_transfer = Null
        ELSE /\ first_transfer = chain[1]
             /\ last_transfer = chain[Len(chain)]
             /\ \A k \in 1 .. Len(chain) - 1 : next[chain[k]] = chain[k + 1]

\* Completed transfers at the front of the chain.
RetiredPrefix ==
    {k \in 1 .. Len(chain) : \A j \in 1 .. k : ~act[chain[j]]}
Retired == IF RetiredPrefix = {} THEN 0
           ELSE CHOOSE k \in RetiredPrefix : \A j \in RetiredPrefix : j =< k

\* An endpoint with a callback implements TransferFifo.
Fifo == INSTANCE TransferFifo
            WITH done <- Retired,
                 due <- IF isrPc = "call" THEN count ELSE 0,
                 irq <- complete \/ isrPc = "walk"
FifoRefinement ==
    /\ callback => Fifo!FifoInit
    /\ [][callback => [Fifo!FifoNext]_(Fifo!fifoVars)]_vars

\* An endpoint without one implements SilentFifo.
Silent == INSTANCE SilentFifo
SilentRefinement ==
    /\ ~callback => Silent!SilentInit
    /\ [][~callback => [Silent!SilentNext]_(Silent!silentVars)]_vars

\* A transfer is in the end given back: where there is a callback, a completed
\* transfer is called back; where there is none, a scheduled transfer completes.
\* A bus reset may drop it.
EveryTransferGivenBack ==
    \A x \in Xfer :
        x \in Elements /\ (callback => ~act[x])
            ~> x \notin Elements \/ ~live
=============================================================================
