----------------------------- MODULE CmsisDapTx -----------------------------
(***************************************************************************)
(* The transmit half of src/device/src/cmsis_dap/usb_cmsis_dap.c: TX_NUM   *)
(* transfers and their buffers, used in turn.  The IN endpoint has no      *)
(* callback; usb_cmsis_dap_send finds out that a transfer is free by       *)
(* reading its active bit, which the controller clears.                    *)
(***************************************************************************)
EXTENDS Naturals, Sequences

CONSTANTS
    TX_NUM,          \* DAP_PACKET_COUNT
    Response,        \* what the task may send
    MaxAccepted,     \* bound: responses scheduled after one configuration
    MaxTxConfigs,    \* bound: SET_CONFIGURATION requests
    AnyTimeTxConfig  \* may SET_CONFIGURATION find send between its first and
                     \* last use of tx_head?

ASSUME TxNumAssumption == TX_NUM \in Nat \ {0}
ASSUME ResponseAssumption == 0 \in Response
ASSUME TxBoundsAssumption == MaxAccepted \in Nat /\ MaxTxConfigs \in Nat
ASSUME AnyTimeTxConfigAssumption == AnyTimeTxConfig \in BOOLEAN

VARIABLES
    usb_configuration,
    tx_head,
    tx_buffer,       \* the response each buffer holds
    active,          \* bit 7 of each transfer's status word
    pointer0,        \* the buffer each transfer points to
    txChain, txLive, \* the IN endpoint, see SilentFifo
    sendPc, xfer,    \* usb_cmsis_dap_send: program counter and local
    USB_Response,    \* the response the task is sending, or sent last
    accepted,        \* responses scheduled since the last configuration
    hostGot,         \* responses the host has read since then
    txConfigs        \* SET_CONFIGURATION requests so far

Transfers == 0 .. TX_NUM - 1

Ep == INSTANCE SilentFifo
          WITH Xfer <- Transfers, chain <- txChain, live <- txLive

txEndpoint == <<txChain, txLive>>
descriptors == <<active, pointer0>>
ghosts == <<accepted, hostGot, txConfigs>>
vars == <<usb_configuration, tx_head, tx_buffer, descriptors, txEndpoint,
          sendPc, xfer, USB_Response, ghosts>>

Init ==
    /\ usb_configuration = 0
    /\ tx_head = 0
    /\ tx_buffer = [b \in Transfers |-> 0]
    /\ active = [t \in Transfers |-> FALSE]
    /\ pointer0 = [t \in Transfers |-> 0]
    /\ Ep!SilentInit
    /\ sendPc = "idle"
    /\ xfer = 0
    /\ USB_Response = 0
    /\ accepted = <<>>
    /\ hostGot = <<>>
    /\ txConfigs = 0

-----------------------------------------------------------------------------
\* The host reads what transfer t points to.
ResponseLeaves(t) ==
    /\ hostGot' = Append(hostGot, tx_buffer[pointer0[t]])
    /\ UNCHANGED <<usb_configuration, tx_head, tx_buffer, pointer0, sendPc,
                   xfer, USB_Response, accepted, txConfigs>>

\* It reads the oldest queued transfer, whose active bit the controller clears.
HostRead ==
    /\ Ep!Retire
    /\ active' = [active EXCEPT ![Head(txChain)] = FALSE]
    /\ ResponseLeaves(Head(txChain))

\* send has not read tx_head yet, or what it read equals what configure sets
\* and it has not looked at the transfer.
SafeToConfigure ==
    \/ sendPc = "idle"
    \/ sendPc \in {"config", "status"} /\ xfer = 0

\* Mutant: tx_transfer is not cleared.
SetConfigurationKeepsStatus(v) ==
    /\ txConfigs < MaxTxConfigs
    /\ AnyTimeTxConfig \/ SafeToConfigure
    /\ usb_configuration' = v
    /\ tx_head' = 0
    /\ Ep!Configure(v # 0)
    /\ accepted' = <<>>
    /\ hostGot' = <<>>
    /\ txConfigs' = txConfigs + 1
    /\ UNCHANGED <<descriptors, tx_buffer, sendPc, xfer, USB_Response>>

\* SET_CONFIGURATION, the transmit part of usb_cmsis_dap_configure: all but the
\* active bits,
ResetTransfers(v) ==
    /\ txConfigs < MaxTxConfigs
    /\ AnyTimeTxConfig \/ SafeToConfigure
    /\ usb_configuration' = v
    /\ pointer0' = [t \in Transfers |-> 0]
    /\ tx_head' = 0
    /\ accepted' = <<>>
    /\ hostGot' = <<>>
    /\ txConfigs' = txConfigs + 1
    /\ UNCHANGED <<tx_buffer, sendPc, xfer, USB_Response>>

\* and those, and the endpoint.
SetConfiguration(v) ==
    /\ ResetTransfers(v)
    /\ active' = [t \in Transfers |-> FALSE]
    /\ Ep!Configure(v # 0)

BusReset ==
    /\ txLive
    /\ Ep!Flush
    /\ UNCHANGED <<usb_configuration, tx_head, tx_buffer, descriptors, sendPc,
                   xfer, USB_Response, ghosts>>

-----------------------------------------------------------------------------
(* usb_cmsis_dap_send, one shared access per step.                         *)

\* The call, with a response; "xfer = tx_transfer + tx_head".
SendCall(r) ==
    /\ sendPc = "idle"
    /\ USB_Response' = r
    /\ xfer' = tx_head
    /\ sendPc' = "config"
    /\ UNCHANGED <<usb_configuration, tx_head, tx_buffer, descriptors,
                   txEndpoint, ghosts>>

\* "if (!usb_configuration) return -1"
SendCheckConfiguration ==
    /\ sendPc = "config"
    /\ sendPc' = IF usb_configuration = 0 THEN "idle" ELSE "status"
    /\ UNCHANGED <<usb_configuration, tx_head, tx_buffer, descriptors,
                   txEndpoint, xfer, USB_Response, ghosts>>

\* Mutant: the active bit is not looked at.
SendTestNothing ==
    /\ sendPc = "status"
    /\ sendPc' = "fill"
    /\ UNCHANGED <<usb_configuration, tx_head, tx_buffer, descriptors,
                   txEndpoint, xfer, USB_Response, ghosts>>

\* "if (!(status & 0x80)) break", else time out or look again.
SendTestStatus ==
    /\ sendPc = "status"
    /\ \/ ~active[xfer] /\ sendPc' = "fill"
       \/ active[xfer] /\ sendPc' \in {"idle", "config"}
    /\ UNCHANGED <<usb_configuration, tx_head, tx_buffer, descriptors,
                   txEndpoint, xfer, USB_Response, ghosts>>

\* memcpy to tx_buffer + tx_head * TX_SIZE: tx_head is read again.
SendFill ==
    /\ sendPc = "fill"
    /\ tx_buffer' = [tx_buffer EXCEPT ![tx_head] = USB_Response]
    /\ sendPc' = "prepare"
    /\ UNCHANGED <<usb_configuration, tx_head, descriptors, txEndpoint, xfer,
                   USB_Response, ghosts>>

\* usb_prepare_transfer: the data pointer,
PointToBuffer ==
    /\ sendPc = "prepare"
    /\ pointer0' = [pointer0 EXCEPT ![xfer] = tx_head]
    /\ sendPc' = "transmit"
    /\ UNCHANGED <<usb_configuration, tx_head, tx_buffer, xfer, USB_Response,
                   ghosts>>

\* and the active bit.
SendPrepare ==
    /\ PointToBuffer
    /\ active' = [active EXCEPT ![xfer] = TRUE]
    /\ UNCHANGED txEndpoint

\* Mutant: the transfer is prepared but not scheduled.
SendForgetsTransmit ==
    /\ sendPc = "transmit"
    /\ accepted' = Append(accepted, USB_Response)
    /\ sendPc' = "bump"
    /\ UNCHANGED <<usb_configuration, tx_head, tx_buffer, descriptors,
                   txEndpoint, xfer, USB_Response, hostGot, txConfigs>>

\* From here on the response counts as accepted.
ResponseAccepted ==
    /\ sendPc = "transmit"
    /\ accepted' = Append(accepted, USB_Response)
    /\ sendPc' = "bump"
    /\ UNCHANGED <<usb_configuration, tx_head, tx_buffer, pointer0, xfer,
                   USB_Response, hostGot, txConfigs>>

\* usb_transmit
SendTransmit == ResponseAccepted /\ Ep!Schedule(xfer) /\ UNCHANGED active

\* Mutant: the increment is missing.
SendBumpMissing ==
    /\ sendPc = "bump"
    /\ sendPc' = "idle"
    /\ UNCHANGED <<usb_configuration, tx_head, tx_buffer, descriptors, txEndpoint, xfer,
                   USB_Response, ghosts>>

\* "if (++tx_head >= TX_NUM) tx_head = 0; return len"
SendBump ==
    /\ sendPc = "bump"
    /\ tx_head' = IF tx_head + 1 >= TX_NUM THEN 0 ELSE tx_head + 1
    /\ sendPc' = "idle"
    /\ UNCHANGED <<usb_configuration, tx_buffer, descriptors, txEndpoint, xfer,
                   USB_Response, ghosts>>

Send ==
    \/ SendCheckConfiguration \/ SendTestStatus \/ SendFill
    \/ SendPrepare \/ SendTransmit \/ SendBump

Next ==
    \/ HostRead
    \/ \E v \in {0, 1} : SetConfiguration(v)
    \/ BusReset
    \/ Len(accepted) < MaxAccepted /\ \E r \in Response : SendCall(r)
    \/ Send

Spec == Init /\ [][Next]_vars

\* A host that has asked for responses reads them, and the task's own steps are
\* always taken; the task need not have a response to send.
FairSpec == Spec /\ WF_vars(Send) /\ WF_vars(HostRead)

-----------------------------------------------------------------------------
TypeOK ==
    /\ usb_configuration \in {0, 1}
    /\ tx_head \in Transfers
    /\ tx_buffer \in [Transfers -> Response]
    /\ active \in [Transfers -> BOOLEAN]
    /\ pointer0 \in [Transfers -> Transfers]
    /\ txChain \in Seq(Transfers)
    /\ txLive \in BOOLEAN
    /\ sendPc \in {"idle", "config", "status", "fill", "prepare", "transmit",
                   "bump"}
    /\ xfer \in Transfers
    /\ USB_Response \in Response
    /\ accepted \in Seq(Response)
    /\ hostGot \in Seq(Response)
    /\ txConfigs \in 0 .. MaxTxConfigs

\* What the queued transfers will deliver, in order.
InFlight == [k \in 1 .. Len(txChain) |-> tx_buffer[pointer0[txChain[k]]]]

\* The host reads the accepted responses in the order send accepted them, each
\* once and unaltered: no buffer is written while its transfer is queued
\* (usb_cmsis_dap.c:186-194), and no transfer is queued twice.
HostReadsWhatWasAccepted == hostGot \o InFlight = accepted

\* Active bits, the endpoint's queue and tx_head tell the same story: send never
\* finds a transfer free that is queued, nor one busy that is not (only a bus reset
\* leaves queued what nobody completes, until the next configuration); and tx_head
\* always points at the one that becomes free first, so a busy tx_head means that
\* all TX_NUM are busy (usb_cmsis_dap.c:186-200).
ActiveMeansQueued ==
    /\ \A t \in Transfers :
           active[t] <=> \/ \E k \in 1 .. Len(txChain) : txChain[k] = t
                         \/ sendPc = "transmit" /\ t = xfer
    /\ sendPc \notin {"bump", "transmit"} /\ active[tx_head] =>
           Len(txChain) = TX_NUM

\* A response that was accepted is read by the host in the end, unless a bus
\* reset or a new configuration drops it.
EveryAcceptedResponseRead ==
    \A k \in 1 .. MaxAccepted :
        Len(accepted) >= k ~>
            Len(hostGot) >= k \/ ~txLive \/ Len(accepted) < k
=============================================================================
