---------------------------- MODULE CmsisDapTask ----------------------------
(***************************************************************************)
(* src/device/src/cmsis_dap/task_cmsis_dap.c: the loop that receives a     *)
(* request, executes it with interrupts masked and sends the response,     *)
(* composed with both halves of usb_cmsis_dap.c, the USB interrupt and the *)
(* host.  A command is abstracted to the request it answers.               *)
(***************************************************************************)
EXTENDS Integers, Sequences

CONSTANTS
    RX_NUM, TX_NUM,  \* DAP_PACKET_COUNT, both
    MaxSent,         \* bound: requests the host sends
    MaxConfigs,      \* bound: SET_CONFIGURATION requests
    PacketLen,       \* bytes of each request
    Window,          \* requests the host leaves unanswered at most
    AnyTimeConfig    \* may SET_CONFIGURATION come at any time?

ASSUME SizesAssumption == {RX_NUM, TX_NUM, Window} \subseteq Nat \ {0}
ASSUME BoundsAssumption == {MaxSent, MaxConfigs} \subseteq Nat
ASSUME AnyTimeConfigAssumption == AnyTimeConfig \in BOOLEAN

\* A request has at least its command byte, and RX_SIZE is 512.
ASSUME RequestAssumption ==
    /\ PacketLen \in [0 .. MaxSent -> Nat]
    /\ \A p \in 1 .. MaxSent : PacketLen[p] \in 1 .. 512

VARIABLES
    usb_configuration,
    rx_head, rx_tail, rx_list, rx_list_transfer_len, rx_buffer,
    chain, done, due, irq, live,
    recvPc, tail, i, len, USB_Request, sent, nextPacket, configs,
    tx_head, tx_buffer, active, pointer0, txChain, txLive,
    sendPc, xfer, USB_Response, accepted, hostGot,
    taskPc, request_len,       \* CmsisDapTask: program counter and local
    masked,                    \* BASEPRI keeps usb_isr out
    hostBase,                  \* sent, at the last configuration
    executions, executed       \* since then: commands run, and the last one

Rx == INSTANCE CmsisDapRx
Tx == INSTANCE CmsisDapTx
          WITH Response <- 0 .. MaxSent, MaxAccepted <- MaxSent,
               MaxTxConfigs <- MaxConfigs, AnyTimeTxConfig <- AnyTimeConfig,
               txConfigs <- configs

taskVars == <<taskPc, request_len, masked, hostBase, executions, executed>>
rxOnly == <<rx_head, rx_tail, rx_list, rx_list_transfer_len, rx_buffer,
            chain, done, due, irq, live, recvPc, tail, i, len, USB_Request,
            sent, nextPacket>>
txOnly == <<tx_head, tx_buffer, active, pointer0, txChain, txLive, sendPc,
            xfer, USB_Response, accepted, hostGot>>
vars == <<usb_configuration, configs, rxOnly, txOnly, taskVars>>

\* uint16_t request_len = usb_cmsis_dap_recv(...)
Uint16(n) == n % 65536

Init ==
    /\ Rx!Init
    /\ Tx!Init
    /\ taskPc = "recv"
    /\ request_len = 0
    /\ masked = FALSE
    /\ hostBase = 0
    /\ executions = 0
    /\ executed = 0

-----------------------------------------------------------------------------
(* The host and the USB interrupt.                                         *)

Outstanding == (sent - hostBase) - Len(hostGot)

HostSend ==
    /\ Outstanding < Window
    /\ Rx!HostSend
    /\ UNCHANGED <<txOnly, taskVars>>

HostRead ==
    /\ Tx!HostRead
    /\ UNCHANGED <<rxOnly, taskVars>>

Completions ==
    /\ ~masked
    /\ Rx!Completions
    /\ UNCHANGED <<txOnly, taskVars>>

\* SET_CONFIGURATION: both halves of usb_cmsis_dap_configure.
SetConfiguration(v) ==
    /\ ~masked
    /\ AnyTimeConfig \/ taskPc = "recv"
    /\ Rx!SetConfiguration(v)
    /\ Tx!SetConfiguration(v)
    /\ hostBase' = sent
    /\ executions' = 0
    /\ executed' = sent
    /\ UNCHANGED <<taskPc, request_len, masked>>

BusReset ==
    /\ ~masked
    /\ Rx!BusReset
    /\ Tx!BusReset
    /\ UNCHANGED taskVars

-----------------------------------------------------------------------------
(* CmsisDapTask.                                                           *)

\* What the return statement recv is at returns.
ReturnValue == CASE recvPc = "config" -> -1
                 [] recvPc = "poll" -> 0
                 [] recvPc = "requeue" -> len

\* Mutants: the length is not tested; or the test is off by one.
ReceiveWhen(Executes(_)) ==
    /\ taskPc = "recv"
    /\ Rx!Task
    /\ IF recvPc' = "idle"
       THEN /\ request_len' = Uint16(ReturnValue)
            /\ taskPc' = IF Executes(request_len') THEN "mask" ELSE "recv"
       ELSE UNCHANGED <<request_len, taskPc>>
    /\ UNCHANGED <<txOnly, masked, hostBase, executions, executed>>
ReceiveAlwaysExecutes == ReceiveWhen(LAMBDA n : TRUE)
ReceiveSkipsShort == ReceiveWhen(LAMBDA n : n > 1)

\* "request_len = usb_cmsis_dap_recv(USB_Request, 100); if (request_len > 0)"
Receive ==
    /\ taskPc = "recv"
    /\ Rx!Task
    /\ IF recvPc' = "idle"
       THEN /\ request_len' = Uint16(ReturnValue)
            /\ taskPc' = IF request_len' > 0 THEN "mask" ELSE "recv"
       ELSE UNCHANGED <<request_len, taskPc>>
    /\ UNCHANGED <<txOnly, masked, hostBase, executions, executed>>

\* portDISABLE_INTERRUPTS()
Mask ==
    /\ taskPc = "mask"
    /\ due = 0
    /\ masked' = TRUE
    /\ taskPc' = "execute"
    /\ UNCHANGED <<usb_configuration, configs, rxOnly, txOnly, request_len,
                   hostBase, executions, executed>>

\* Mutant: portENABLE_INTERRUPTS() is missing.
ExecuteCommandStaysMasked ==
    /\ taskPc = "execute"
    /\ USB_Response' = USB_Request
    /\ IF usb_configuration = 0
       THEN UNCHANGED <<executions, executed>>
       ELSE /\ executions' = executions + 1
            /\ executed' = USB_Request
    /\ taskPc' = "send"
    /\ UNCHANGED <<usb_configuration, configs, rxOnly, tx_head, tx_buffer,
                   active, pointer0, txChain, txLive, sendPc, xfer, accepted,
                   hostGot, request_len, masked, hostBase>>

\* CmsisDapExecuteCommand(USB_Request, USB_Response); portENABLE_INTERRUPTS()
\* While the device is not configured its host has asked for nothing, and what
\* the task executes then is not counted.
ExecuteCommand ==
    /\ taskPc = "execute"
    /\ USB_Response' = USB_Request
    /\ masked' = FALSE
    /\ IF usb_configuration = 0
       THEN UNCHANGED <<executions, executed>>
       ELSE /\ executions' = executions + 1
            /\ executed' = USB_Request
    /\ taskPc' = "send"
    /\ UNCHANGED <<usb_configuration, configs, rxOnly, tx_head, tx_buffer,
                   active, pointer0, txChain, txLive, sendPc, xfer, accepted,
                   hostGot, request_len, hostBase>>

\* usb_cmsis_dap_send(USB_Response, response_len, 100); whatever it returns, the
\* task goes on to its next request.
SendResponse ==
    /\ taskPc = "send"
    /\ due = 0
    /\ \/ Tx!SendCall(USB_Response) /\ UNCHANGED taskPc
       \/ Tx!Send /\ taskPc' = IF sendPc' = "idle" THEN "recv" ELSE "send"
    /\ UNCHANGED <<rxOnly, request_len, masked, hostBase, executions, executed>>

Task == Receive \/ Mask \/ ExecuteCommand \/ SendResponse

Next ==
    \/ HostSend
    \/ HostRead
    \/ Completions
    \/ \E v \in {0, 1} : SetConfiguration(v)
    \/ BusReset
    \/ Task

Spec == Init /\ [][Next]_vars

\* The task runs, pending USB interrupts are taken once they are not masked, and
\* the host reads its responses.  recv and send wait for the host, but not for
\* ever: both time out.
FairSpec ==
    /\ Spec
    /\ WF_vars(Task)
    /\ WF_vars(~masked /\ (\E b \in 0 .. RX_NUM - 1 : Rx!rx_event(b))
               /\ UNCHANGED <<txOnly, taskVars>>)
    /\ WF_vars(~masked /\ due = 0 /\ Rx!IsrWalk(done)
               /\ UNCHANGED <<txOnly, taskVars>>)
    /\ WF_vars(HostRead)

-----------------------------------------------------------------------------
TypeOK ==
    /\ Rx!TypeOK
    /\ Tx!TypeOK
    /\ taskPc \in {"recv", "mask", "execute", "send"}
    /\ request_len \in 0 .. 65535
    /\ masked = (taskPc = "execute")
    /\ {hostBase, executions, executed} \subseteq Nat

\* The debugger implements DapService.
Service == INSTANCE DapService
               WITH asked <- sent, base <- hostBase,
                    answered <- IF hostGot = <<>> THEN hostBase
                                ELSE hostGot[Len(hostGot)]
ServiceRefinement == Service!ServiceSpec

\* A response is never dropped by a timeout of send: a host that leaves at most
\* DAP_PACKET_COUNT requests unanswered always finds a free transfer waiting for
\* the response, for as long as the endpoint is live (usb_cmsis_dap.c:186-190).
NoResponseDropped ==
    sendPc = "status" /\ txLive => ~active[xfer]

\* One response per request: since the last SET_CONFIGURATION the host has read no
\* more responses than it has sent requests (task_cmsis_dap.c:87 "Process DAP
\* command request and prepare response"; README.md:3, "CMSIS-DAP compliant").
NoUnsolicitedResponse == Len(hostGot) =< sent - hostBase

\* A request the controller accepted is answered, unless a bus reset or a new
\* configuration voids it.
EveryRequestAnswered ==
    \A p \in 1 .. MaxSent :
        sent >= p ~> \/ hostGot # <<>> /\ hostGot[Len(hostGot)] >= p
                     \/ hostBase >= p
                     \/ ~live
=============================================================================
