----------------------------- MODULE CmsisDapUsb -----------------------------
(***************************************************************************)
(* usb_cmsis_dap.c over the linked list of usb.c: the composition of a     *)
(* half of the debugger's USB interface with TransferQueue, instead of the *)
(* abstract queue it is written on.  callback says which half: the receive *)
(* path on the OUT endpoint or the transmit path on the IN endpoint.       *)
(*                                                                         *)
(* schedule_transfer is a call here, not a step.  recv and send stand      *)
(* still in it, usb_cmsis_dap_configure goes through it N times inside the *)
(* ISR, and the controller works at the list all the while.                *)
(***************************************************************************)
EXTENDS TransferQueue

CONSTANTS
    MaxSent,      \* bound: packets the host sends
    MaxConfigs,   \* bound: SET_CONFIGURATION requests
    PacketLen,    \* bytes of each packet
    Response,     \* what the task may send
    MaxAccepted   \* bound: responses scheduled after one configuration

ASSUME UsbAssumption ==
    /\ {MaxSent, MaxConfigs, MaxAccepted} \subseteq Nat
    /\ PacketLen \in [0 .. MaxSent -> Nat]
    /\ 0 \in Response

VARIABLES
    usb_configuration, configs,
    todo,         \* what usb_cmsis_dap_configure has yet to queue
    rx_head, rx_tail, rx_list, rx_list_transfer_len, rx_buffer,
    recvPc, tail, i, len, USB_Request, sent, nextPacket,
    tx_head, tx_buffer, pointer0, sendPc, xfer, USB_Response, accepted, hostGot

\* The receive path, on the list.  What is yet to be queued counts as queued: the
\* ISR and the host leave it alone until the request is over.
rxChain == chain \o todo
rxDue == IF isrPc = "call" THEN count ELSE 0
rxIrq == complete \/ isrPc = "walk"
Rx == INSTANCE CmsisDapRx
          WITH RX_NUM <- N, AnyTimeConfig <- FALSE,
               chain <- rxChain, done <- Retired, due <- rxDue, irq <- rxIrq

\* The transmit path, on the list.
Tx == INSTANCE CmsisDapTx
          WITH TX_NUM <- N, AnyTimeTxConfig <- FALSE,
               txConfigs <- configs, MaxTxConfigs <- MaxConfigs,
               active <- act, txChain <- chain, txLive <- live

rxVars == <<rx_head, rx_tail, rx_list, rx_list_transfer_len, rx_buffer, recvPc,
            tail, i, len, USB_Request, sent, nextPacket>>
txVars == <<tx_head, tx_buffer, pointer0, sendPc, xfer, USB_Response, accepted,
            hostGot>>
clients == <<usb_configuration, configs, rxVars, txVars>>
usbVars == <<vars, todo, clients>>

UsbInit ==
    /\ Init
    /\ todo = <<>>
    /\ Rx!Init
    /\ Tx!Init

-----------------------------------------------------------------------------
(* The list, between the calls.                                            *)

\* usb_isr may begin: it is not in usb_cmsis_dap_configure already, and the task
\* is not between NVIC_DISABLE_IRQ and schedule_transfer in rx_queue_transfer.
IsrMayRun == todo = <<>> /\ ~(callback /\ swPc = "begin")

\* The task is not inside a call of schedule_transfer, and no ISR has
\* interrupted it.
TaskRuns == swPc \in {"unconfigured", "idle"} /\ ~InIsr /\ todo = <<>>

\* Steps of the controller, of schedule_transfer and of the ISR that the code
\* above does not notice.
ListStep ==
    /\ \/ Controller
       \/ CheckPrime \/ SetTripwire \/ ReadStatus \/ TestTripwire
       \/ Rearm \/ Prime \/ End
       \/ IsrCount \/ IsrStop
       \/ IsrMayRun /\ (IsrAcknowledge \/ BusReset)
    /\ UNCHANGED <<todo, clients>>

\* SET_CONFIGURATION, up to the loop of usb_cmsis_dap_configure that queues every
\* receive buffer.
SetConfiguration(v) ==
    /\ IsrMayRun
    /\ Configure(v # 0)
    /\ \/ /\ callback
          /\ Rx!EmptyRing(v)
          /\ todo' = [k \in 1 .. N |-> k - 1]
          /\ UNCHANGED txVars
       \/ /\ ~callback
          /\ Tx!ResetTransfers(v)
          /\ UNCHANGED <<todo, rxVars>>

-----------------------------------------------------------------------------
(* The receive path.                                                       *)

\* Mutant: the loop calls rx_queue_transfer for one buffer only.
LoopOnce ==
    /\ todo # <<>>
    /\ Begin
    /\ todo' = <<>>
    /\ UNCHANGED clients

\* The loop: rx_queue_transfer(i), for every i.
LoopPrepare ==
    /\ todo # <<>>
    /\ Prepare(Head(todo))
    /\ UNCHANGED <<todo, clients>>

LoopReceive ==
    /\ todo # <<>>
    /\ Begin
    /\ todo' = Tail(todo)
    /\ UNCHANGED clients

\* The host sends a packet, once the request is over.
HostSend ==
    /\ callback /\ todo = <<>>
    /\ HwRetire
    /\ Rx!PacketArrives(cur)
    /\ UNCHANGED <<todo, txVars>>

\* run_callbacks calls rx_event.
rx_event ==
    /\ IsrCallback
    /\ Rx!StoreInRing(first)
    /\ UNCHANGED <<todo, configs, txVars>>

\* usb_cmsis_dap_recv, up to its call of rx_queue_transfer.
Recv ==
    /\ callback /\ TaskRuns
    /\ UNCHANGED <<vars, todo, txVars>>
    /\ \/ Rx!RecvCall \/ Rx!RecvCheckConfiguration \/ Rx!RecvPoll \/ Rx!RecvTake
       \/ Rx!RecvLength \/ Rx!RecvAdvance \/ Rx!RecvCopy

\* rx_queue_transfer(i), and the return: what recv does next waits for the end of
\* schedule_transfer.
RecvPrepare ==
    /\ callback /\ TaskRuns /\ recvPc = "requeue"
    /\ Prepare(i)
    /\ UNCHANGED <<todo, clients>>

RecvReceive ==
    /\ callback /\ todo = <<>>
    /\ Begin
    /\ Rx!RecvReturn
    /\ UNCHANGED <<todo, configs, txVars>>

-----------------------------------------------------------------------------
(* The transmit path.                                                      *)

\* The host reads a response.
HostRead ==
    /\ ~callback
    /\ HwRetire
    /\ Tx!ResponseLeaves(cur)
    /\ UNCHANGED <<todo, rxVars>>

\* usb_cmsis_dap_send, but for its two calls into usb.c.
Send ==
    /\ ~callback /\ TaskRuns
    /\ UNCHANGED <<vars, todo, rxVars>>
    /\ \/ Len(accepted) < MaxAccepted /\ \E r \in Response : Tx!SendCall(r)
       \/ Tx!SendCheckConfiguration \/ Tx!SendTestStatus \/ Tx!SendFill
       \/ Tx!SendBump

\* usb_prepare_transfer(xfer, txdata, len, 0)
SendPrepare ==
    /\ ~callback /\ TaskRuns
    /\ Prepare(xfer)
    /\ Tx!PointToBuffer
    /\ UNCHANGED <<todo, rxVars>>

\* usb_transmit: the "++tx_head" waits for the end of schedule_transfer.
SendTransmit ==
    /\ ~callback
    /\ Begin
    /\ Tx!ResponseAccepted
    /\ UNCHANGED <<todo, rxVars>>

-----------------------------------------------------------------------------
ReceiveNext ==
    \/ LoopPrepare \/ LoopReceive
    \/ HostSend \/ rx_event \/ Recv \/ RecvPrepare \/ RecvReceive

TransmitNext == HostRead \/ Send \/ SendPrepare \/ SendTransmit

UsbNext ==
    \/ ListStep
    \/ \E v \in {0, 1} : SetConfiguration(v)
    \/ ReceiveNext
    \/ TransmitNext

UsbSpec == UsbInit /\ [][UsbNext]_usbVars

\* A call of schedule_transfer, or the loop that makes N of them, runs on.
CallRuns ==
    \/ LoopPrepare \/ LoopReceive \/ RecvReceive \/ SendTransmit
    \/ /\ \/ CheckPrime \/ SetTripwire \/ ReadStatus \/ TestTripwire
          \/ Rearm \/ Prime \/ End
       /\ UNCHANGED <<todo, clients>>

\* An interrupt that is not masked is taken, and its handler runs on.
IsrRuns ==
    \/ rx_event
    \/ /\ (IsrMayRun /\ IsrAcknowledge) \/ IsrCount \/ IsrStop
       /\ UNCHANGED <<todo, clients>>

\* Nothing obliges the host to send, but it reads what there is for it; recv goes
\* on when the ISR and schedule_transfer let it.
UsbFairSpec ==
    /\ UsbSpec
    /\ WF_usbVars(Controller /\ UNCHANGED <<todo, clients>>)
    /\ WF_usbVars(CallRuns) /\ WF_usbVars(IsrRuns) /\ WF_usbVars(HostRead)
    /\ WF_usbVars(Recv \/ RecvPrepare)

-----------------------------------------------------------------------------
UsbTypeOK ==
    /\ TypeOK
    /\ todo \in Seq(Xfer)
    /\ callback => Rx!TypeOK
    /\ ~callback => Tx!TypeOK

\* What usb_cmsis_dap.c hands to schedule_transfer is not in the list already, and
\* on the IN endpoint it is free and the next in turn; nothing in usb.c tests that
\* (usb.c:741-810).
ScheduledOnce ==
    /\ todo # <<>> /\ swPc = "idle" => MaySchedule(Head(todo))
    /\ recvPc = "requeue" /\ swPc = "idle" /\ todo = <<>> => MaySchedule(i)
    /\ sendPc = "prepare" => MaySchedule(xfer)

\* The processor and the controller never use a buffer together.  A transfer that
\* is active may be written to, or read, at any moment: it holds no packet that
\* waits in the ring or that recv is copying (usb_cmsis_dap.c:150-157), and it
\* does not point to the buffer that send is filling (usb_cmsis_dap.c:193-194).
BuffersApart ==
    /\ callback => \A s \in Rx!Filled : ~act[rx_list[s]]
    /\ recvPc \in {"length", "advance", "copy"} => ~act[i]
    /\ sendPc = "fill" => \A x \in Xfer : act[x] => pointer0[x] # tx_head

\* recv returns the packets in order, and the host reads what send accepted,
\* through the list as through the abstract queue (usb_cmsis_dap.c:117-201).
DeliveredInOrder ==
    /\ callback => Rx!DeliveredInOrder
    /\ ~callback => Tx!HostReadsWhatWasAccepted

\* Nothing gets stuck on the list, between two registers of the controller or in
\* the ring: a packet that the host has sent is returned by recv in the end, and a
\* response that send has scheduled is read by the host, unless a bus reset or a
\* new configuration drops it (usb.c:264-296, 776-810, usb_cmsis_dap.c:117-201).
EveryPacketPasses ==
    /\ \A p \in 1 .. MaxSent :
          callback /\ sent >= p ~> nextPacket > p \/ ~live
    /\ \A k \in 1 .. MaxAccepted :
          ~callback /\ Len(accepted) >= k
              ~> Len(hostGot) >= k \/ ~live \/ Len(accepted) < k

\* With the list in its place the receive path is still what CmsisDapRx says: the
\* loop in usb_cmsis_dap_configure is not interrupted by anything that sees it
\* half done (usb_cmsis_dap.c:77-101), and a packet arrives in the buffer that is
\* taken from the ring for it.
ReceiveRefinement ==
    /\ callback => Rx!Init
    /\ [][callback => [Rx!Next]_(Rx!vars)]_usbVars

\* And the transmit path what CmsisDapTx says (usb_cmsis_dap.c:177-201).
TransmitRefinement ==
    /\ ~callback => Tx!Init
    /\ [][~callback => [Tx!Next]_(Tx!vars)]_usbVars
=============================================================================
