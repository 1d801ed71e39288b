----------------------------- MODULE SilentFifo -----------------------------
(***************************************************************************)
(* What an endpoint queue of src/device/src/usb.c without a callback       *)
(* function (the IN endpoint of the debugger) promises the code above it.  *)
(* The ISR ignores its completions and nobody takes transfers off its      *)
(* list; a completed transfer is known by its cleared active bit alone, so *)
(* here it simply leaves the chain when the controller completes it.       *)
(***************************************************************************)
EXTENDS Sequences

CONSTANT Xfer                 \* the transfer descriptors of the endpoint

VARIABLES
    chain,    \* scheduled and still active, oldest first
    live      \* the host moves data on the endpoint

silentVars == <<chain, live>>

SilentInit ==
    /\ chain = <<>>
    /\ live = FALSE

\* schedule_transfer: the descriptor becomes the last of the list.
Schedule(t) ==
    /\ chain' = Append(chain, t)
    /\ UNCHANGED live

\* The controller completes the oldest active descriptor.
Retire ==
    /\ live
    /\ chain # <<>>
    /\ chain' = Tail(chain)
    /\ UNCHANGED live

\* The bus-reset branch of usb_isr.
Flush ==
    /\ live' = FALSE
    /\ UNCHANGED chain

\* usb_endpoint_config: the queue head is cleared.
Configure(on) ==
    /\ chain' = <<>>
    /\ live' = on

SilentNext ==
    \/ \E t \in Xfer : Schedule(t)
    \/ Retire
    \/ Flush
    \/ \E on \in BOOLEAN : Configure(on)

SilentSpec == SilentInit /\ [][SilentNext]_silentVars
=============================================================================
