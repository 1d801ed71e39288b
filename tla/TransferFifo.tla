---------------------------- MODULE TransferFifo ----------------------------
(***************************************************************************)
(* What an endpoint queue of src/device/src/usb.c with a callback function *)
(* (the OUT endpoint of the debugger) promises the code above it, with     *)
(* the linked list, the priming handshake and the ISR's list walk left     *)
(* out.  TransferQueue models those and is shown to implement this.        *)
(*                                                                         *)
(* A transfer that is scheduled joins the end of the chain.  The           *)
(* controller completes transfers from the front and owes the processor an *)
(* interrupt for them; the ISR finds completed transfers by walking the    *)
(* chain from the front, takes a number of them, and calls back exactly    *)
(* those, in chain order.  A transfer leaves the chain when it is called   *)
(* back.                                                                   *)
(***************************************************************************)
EXTENDS Naturals, Sequences

CONSTANT Xfer                 \* the transfer descriptors of the endpoint

VARIABLES
    chain,    \* scheduled and not yet called back, oldest first
    done,     \* how many at the front of chain the controller has completed
    due,      \* how many of those the ISR has taken and will call back now
    irq,      \* a completion is still to be reported to run_callbacks
    live      \* the host moves data on the endpoint

fifoVars == <<chain, done, due, irq, live>>

FifoTypeOK ==
    /\ chain \in Seq(Xfer)
    /\ done \in 0 .. Len(chain)
    /\ due \in 0 .. done
    /\ irq \in BOOLEAN
    /\ live \in BOOLEAN

FifoInit ==
    /\ chain = <<>>
    /\ done = 0
    /\ due = 0
    /\ irq = FALSE
    /\ live = FALSE

\* schedule_transfer: the descriptor becomes the last of the list.
Schedule(t) ==
    /\ due = 0
    /\ chain' = Append(chain, t)
    /\ UNCHANGED <<done, due, irq, live>>

\* The controller completes the oldest active descriptor.
Retire ==
    /\ live
    /\ done < Len(chain)
    /\ done' = done + 1
    /\ irq' = TRUE
    /\ UNCHANGED <<chain, due, live>>

\* The ISR acknowledges ENDPTCOMPLETE and counts completed transfers, here in one
\* step: that clearing first and walking then comes to this is what TransferQueue
\* is checked for.  It may miss one that completes while it walks, and then the
\* completion is owed still; it may count one whose completion bit it has not seen
\* yet, and then a later interrupt finds nothing.
Walk(n) ==
    /\ irq
    /\ due = 0
    /\ n \in 0 .. done
    /\ due' = n
    /\ irq' \in BOOLEAN
    /\ n < done => irq'
    /\ UNCHANGED <<chain, done, live>>

\* One call of the endpoint's callback function, for the oldest transfer.
Callback(t) ==
    /\ due > 0
    /\ t = Head(chain)
    /\ chain' = Tail(chain)
    /\ done' = done - 1
    /\ due' = due - 1
    /\ UNCHANGED <<irq, live>>

\* The bus-reset branch of usb_isr: pending completions are discarded and every
\* primed endpoint is flushed; the lists in memory stay as they are.
Flush ==
    /\ due = 0
    /\ live' = FALSE
    /\ irq' = FALSE
    /\ UNCHANGED <<chain, done, due>>

\* usb_endpoint_config followed by the scheduling of the transfers of s: the
\* queue head is cleared, so what was scheduled before is forgotten.
Configure(s, on) ==
    /\ due = 0
    /\ chain' = s
    /\ done' = 0
    /\ live' = on
    /\ UNCHANGED <<due, irq>>

FifoNext ==
    \/ \E t \in Xfer : Schedule(t)
    \/ Retire
    \/ \E n \in 0 .. Len(chain) : Walk(n)
    \/ \E t \in Xfer : Callback(t)
    \/ Flush
    \/ \E on \in BOOLEAN : Configure(<<>>, on)

FifoSpec == FifoInit /\ [][FifoNext]_fifoVars
=============================================================================
