------------------------- MODULE CmsisDapTaskProofs -------------------------
(***************************************************************************)
(* Proofs about CmsisDapTask, for buffers and requests of any number, from *)
(* what CmsisDapRxProofs and CmsisDapTxProofs prove of its two halves.     *)
(***************************************************************************)
EXTENDS CmsisDapTask, SequenceTheorems, TLAPS

RxP == INSTANCE CmsisDapRxProofs
TxP == INSTANCE CmsisDapTxProofs
           WITH Response <- 0 .. MaxSent, MaxAccepted <- MaxSent,
                MaxTxConfigs <- MaxConfigs, AnyTimeTxConfig <- AnyTimeConfig,
                txConfigs <- configs

-----------------------------------------------------------------------------
(* The inductive invariant.  What keeps a response from being dropped is   *)
(* the host's window, and what carries it to usb_cmsis_dap_send is a count *)
(* of the requests received, executed and answered since the last          *)
(* configuration.                                                          *)

\* The types, with those of the two halves as their proofs know them.
Uint16s == 0 .. 65535

OwnTypes ==
    /\ taskPc \in {"recv", "mask", "execute", "send"}
    /\ request_len \in Uint16s
    /\ hostBase \in Nat /\ executions \in Nat /\ executed \in Nat

TaskTypes == RxP!TypeOK /\ TxP!TypeOK /\ OwnTypes

\* Interrupts are masked while a command is executed, and at no other time.
MaskInv == masked = (taskPc = "execute")

\* The task is in one call at a time.
CallInv ==
    /\ taskPc # "recv" => recvPc = "idle"
    /\ taskPc # "send" => sendPc = "idle"

\* A device that is not configured moves nothing.
OffInv ==
    usb_configuration = 0 =>
        /\ ~live /\ ~txLive
        /\ nextPacket = sent + 1 /\ hostBase = sent
        /\ executions = 0 /\ accepted = <<>>
        /\ sendPc \in {"idle", "config"}

\* A request that is received and not executed; a response that is not scheduled.
InHand == IF taskPc \in {"mask", "execute"} THEN 1 ELSE 0
Pending == IF taskPc = "send" /\ sendPc # "bump" THEN 1 ELSE 0

OnInv ==
    usb_configuration # 0 =>
        /\ nextPacket = hostBase + executions + InHand + 1
        /\ taskPc \in {"mask", "execute"} => USB_Request = hostBase + executions + 1
        /\ taskPc = "send" => USB_Response = hostBase + executions
        /\ Len(accepted) = executions - Pending
        /\ \A k \in 1 .. Len(accepted) : accepted[k] = hostBase + k
        /\ (sent - hostBase) - Len(hostGot) =< Window

TaskInv == RxP!RxInv /\ TxP!TxInv /\ CallInv /\ OffInv /\ OnInv

-----------------------------------------------------------------------------
(* What is known of the two halves, with the constants of the composition. *)

\* The receive path: types, its invariant, and what recv returns.
LEMMA RxFacts ==
    /\ RxP!Init => RxP!TypeOK /\ RxP!RxInv
    /\ RxP!TypeOK /\ [RxP!Next]_(RxP!vars) => RxP!TypeOK'
    /\ ~AnyTimeConfig =>
           (RxP!TypeOK /\ RxP!RxInv /\ [RxP!Next]_(RxP!vars) => RxP!RxInv')
    /\ RxP!TypeOK /\ RxP!RxInv => RxP!DeliveredInOrder
    /\ RxP!TypeOK => RxP!RingLength \in 0 .. RX_NUM /\ RxP!Held \in 0 .. 1
<1> USE SizesAssumption, BoundsAssumption, AnyTimeConfigAssumption, RequestAssumption
<1>1. RxP!Init => RxP!TypeOK /\ RxP!RxInv
    BY RxP!TypeInit, RxP!RxInvInit
<1>2. RxP!TypeOK /\ [RxP!Next]_(RxP!vars) => RxP!TypeOK'
    BY RxP!TypeStep
<1>3. ~AnyTimeConfig =>
          (RxP!TypeOK /\ RxP!RxInv /\ [RxP!Next]_(RxP!vars) => RxP!RxInv')
    BY RxP!RxInvStep
<1>4. RxP!TypeOK /\ RxP!RxInv => RxP!DeliveredInOrder
    BY RxP!ReturnedInOrder
<1>5. RxP!TypeOK => RxP!RingLength \in 0 .. RX_NUM /\ RxP!Held \in 0 .. 1
    BY RxP!RingType
<1> QED
    BY <1>1, <1>2, <1>3, <1>4, <1>5

\* The transmit path: the same, and what an active bit means.
LEMMA TxFacts ==
    /\ TxP!Init => TxP!TypeOK /\ TxP!TxInv
    /\ TxP!TypeOK /\ [TxP!Steps]_(TxP!vars) => TxP!TypeOK'
    /\ ~AnyTimeConfig =>
           (TxP!TypeOK /\ TxP!TxInv /\ [TxP!Steps]_(TxP!vars) => TxP!TxInv')
    /\ TxP!TypeOK /\ TxP!TxInv => TxP!ActiveMeansQueued
<1> USE SizesAssumption, BoundsAssumption, AnyTimeConfigAssumption
<1>1. TxP!Init => TxP!TypeOK /\ TxP!TxInv
    BY TxP!TypeInit, TxP!InitHolds
<1>2. TxP!TypeOK /\ [TxP!Steps]_(TxP!vars) => TxP!TypeOK'
    BY TxP!TypeStep
<1>3. ~AnyTimeConfig =>
          (TxP!TypeOK /\ TxP!TxInv /\ [TxP!Steps]_(TxP!vars) => TxP!TxInv')
    BY TxP!StepsHold
<1>4. TxP!TypeOK /\ TxP!TxInv => TxP!ActiveMeansQueued
    BY TxP!InvMeansQueued
<1> QED
    BY <1>1, <1>2, <1>3, <1>4

-----------------------------------------------------------------------------
(* The steps of the composition, as steps of its two halves.               *)

\* Both instances of the receive path agree on its types.
LEMMA RxTypes == Rx!TypeOK <=> RxP!TypeOK
BY DEF Rx!TypeOK, RxP!TypeOK, Rx!Ep!FifoTypeOK, RxP!Ep!FifoTypeOK, Rx!Buffers,
       RxP!Buffers, Rx!Slots, RxP!Slots, Rx!Packets, RxP!Packets

\* So do those of the transmit path.
LEMMA TxTypes == Tx!TypeOK <=> TxP!TypeOK
BY DEF Tx!TypeOK, TxP!TypeOK, Tx!Transfers, TxP!Transfers

\* Every step is one of the receive path, or leaves it alone.
LEMMA RxStep == [Next]_vars => [RxP!Next]_(RxP!vars)
<1> SUFFICES ASSUME [Next]_vars PROVE [RxP!Next]_(RxP!vars)
    OBVIOUS
<1> USE DEF Rx!ring, RxP!ring, Rx!locals, RxP!locals, Rx!endpoint, RxP!endpoint,
            Rx!ghosts, RxP!ghosts, rxOnly, Rx!Buffers, RxP!Buffers
<1>1. CASE HostSend
    BY <1>1 DEF HostSend, Rx!HostSend, Rx!PacketArrives, RxP!HostSend,
                RxP!PacketArrives, Rx!Ep!Retire, RxP!Ep!Retire, RxP!Next
<1>2. CASE HostRead
    BY <1>2 DEF HostRead, Tx!HostRead, Tx!ResponseLeaves, Tx!Ep!Retire, RxP!vars
<1>3. CASE Completions
    <2>1. ASSUME NEW n \in 0 .. done, Rx!IsrWalk(n) PROVE RxP!IsrWalk(n)
        BY <2>1 DEF Rx!IsrWalk, RxP!IsrWalk, Rx!Ep!Walk, RxP!Ep!Walk
    <2>2. ASSUME NEW t \in Rx!Buffers, Rx!rx_event(t) PROVE RxP!rx_event(t)
        BY <2>2 DEF Rx!rx_event, Rx!StoreInRing, RxP!rx_event, RxP!StoreInRing,
                    Rx!Ep!Callback, RxP!Ep!Callback, Rx!Wrap, RxP!Wrap
    <2> QED
        BY <1>3, <2>1, <2>2 DEF Completions, Rx!Completions, RxP!Completions, RxP!Next
<1>4. ASSUME NEW v \in {0, 1}, SetConfiguration(v) PROVE RxP!SetConfiguration(v)
    BY <1>4 DEF SetConfiguration, Rx!SetConfiguration, Rx!EmptyRing,
                RxP!SetConfiguration, RxP!EmptyRing, Rx!SafeToConfigure,
                RxP!SafeToConfigure, Rx!Ep!Configure, RxP!Ep!Configure
<1>5. CASE BusReset
    BY <1>5 DEF BusReset, Rx!BusReset, RxP!BusReset, Rx!Ep!Flush, RxP!Ep!Flush,
                RxP!Next
<1>6. CASE Receive
    <2>1. RxP!Task
        BY <1>6
        DEF Receive, Rx!Task, RxP!Task, Rx!InTask, RxP!InTask, Rx!RecvCall,
            RxP!RecvCall, Rx!RecvCheckConfiguration, RxP!RecvCheckConfiguration,
            Rx!RecvPoll, RxP!RecvPoll, Rx!RecvTake, RxP!RecvTake, Rx!RecvLength,
            RxP!RecvLength, Rx!RecvAdvance, RxP!RecvAdvance, Rx!RecvCopy,
            RxP!RecvCopy, Rx!RecvRequeue, Rx!RecvReturn, RxP!RecvRequeue,
            RxP!RecvReturn, Rx!Ep!Schedule, RxP!Ep!Schedule, Rx!Wrap, RxP!Wrap
    <2> QED
        BY <2>1 DEF RxP!Next
<1>7. CASE Mask \/ ExecuteCommand
    BY <1>7 DEF Mask, ExecuteCommand, RxP!vars
<1>8. CASE SendResponse
    BY <1>8 DEF SendResponse, Tx!SendCall, Tx!Send, Tx!SendCheckConfiguration,
                Tx!SendTestStatus, Tx!SendFill, Tx!SendPrepare, Tx!PointToBuffer,
                Tx!SendTransmit, Tx!ResponseAccepted, Tx!SendBump, Tx!ghosts,
                RxP!vars
<1>9. CASE UNCHANGED vars
    BY <1>9 DEF vars, RxP!vars
<1> QED
    BY <1>1, <1>2, <1>3, <1>4, <1>5, <1>6, <1>7, <1>8, <1>9
    DEF Next, Task, RxP!Next

\* Every step but the execution of a command, which writes USB_Response, is one of
\* the transmit path or leaves it alone.
LEMMA TxStep ==
    ASSUME TxP!TypeOK, [Next]_vars, ~ExecuteCommand
    PROVE  [TxP!Steps]_(TxP!vars)
<1> USE DEF Tx!txEndpoint, TxP!txEndpoint, Tx!descriptors, TxP!descriptors,
            Tx!ghosts, TxP!ghosts, txOnly
<1>1. CASE HostSend
    BY <1>1 DEF HostSend, Rx!HostSend, Rx!PacketArrives, TxP!vars
<1>2. CASE HostRead
    BY <1>2 DEF HostRead, Tx!HostRead, Tx!ResponseLeaves, TxP!HostRead,
                TxP!ResponseLeaves, Tx!Ep!Retire, TxP!Ep!Retire, TxP!Steps
<1>3. CASE Completions
    BY <1>3 DEF Completions, Rx!Completions, Rx!IsrWalk, Rx!rx_event,
                Rx!StoreInRing, Rx!ghosts, TxP!vars
<1>4. ASSUME NEW v \in {0, 1}, SetConfiguration(v) PROVE TxP!SetConfiguration(v)
    BY <1>4 DEF SetConfiguration, Tx!SetConfiguration, Tx!ResetTransfers,
                TxP!SetConfiguration, TxP!ResetTransfers, Tx!SafeToConfigure,
                TxP!SafeToConfigure, Tx!Ep!Configure, TxP!Ep!Configure,
                Tx!Transfers, TxP!Transfers
<1>5. CASE BusReset
    BY <1>5 DEF BusReset, Tx!BusReset, TxP!BusReset, Tx!Ep!Flush, TxP!Ep!Flush,
                TxP!Steps
<1>6. CASE Receive
    BY <1>6 DEF Receive, Rx!Task, Rx!RecvCall, Rx!RecvCheckConfiguration,
                Rx!RecvPoll, Rx!RecvTake, Rx!RecvLength, Rx!RecvAdvance,
                Rx!RecvCopy, Rx!RecvRequeue, Rx!RecvReturn, Rx!ghosts, TxP!vars
<1>7. CASE Mask
    BY <1>7 DEF Mask, TxP!vars
<1>8. CASE SendResponse
    <2>1. Tx!SendCall(USB_Response) => TxP!SendCall(USB_Response)
        BY DEF Tx!SendCall, TxP!SendCall
    <2>2. Tx!Send => TxP!Send
        BY DEF Tx!Send, TxP!Send, Tx!SendCheckConfiguration,
               TxP!SendCheckConfiguration, Tx!SendTestStatus, TxP!SendTestStatus,
               Tx!SendFill, TxP!SendFill, Tx!SendPrepare, Tx!PointToBuffer,
               TxP!SendPrepare, TxP!PointToBuffer, Tx!SendTransmit,
               Tx!ResponseAccepted, TxP!SendTransmit, TxP!ResponseAccepted,
               Tx!Ep!Schedule, TxP!Ep!Schedule, Tx!SendBump, TxP!SendBump
    <2>3. USB_Response \in 0 .. MaxSent
        BY DEF TxP!TypeOK
    <2> QED
        BY <1>8, <2>1, <2>2, <2>3 DEF SendResponse, TxP!Steps
<1>9. CASE UNCHANGED vars
    BY <1>9 DEF vars, TxP!vars
<1> QED
    BY <1>1, <1>2, <1>3, <1>4, <1>5, <1>6, <1>7, <1>8, <1>9
    DEF Next, Task, TxP!Steps

\* A command's execution changes USB_Response while send is not running.
LEMMA ExecuteKeepsTx ==
    ASSUME TaskTypes, ExecuteCommand
    PROVE  /\ TxP!TypeOK'
           /\ CallInv /\ TxP!TxInv => TxP!TxInv'
<1>1. /\ UNCHANGED <<usb_configuration, configs, tx_head, tx_buffer, active,
                     pointer0, txChain, txLive, sendPc, xfer, accepted, hostGot>>
      /\ USB_Response' = USB_Request
      /\ taskPc = "execute"
    BY DEF ExecuteCommand
<1>2. USB_Request \in 0 .. MaxSent
    BY DEF TaskTypes, RxP!TypeOK, RxP!Packets
<1>3. TxP!TypeOK'
    BY <1>1, <1>2 DEF TaskTypes, TxP!TypeOK, TxP!Transfers
<1>4. ASSUME CallInv, TxP!TxInv PROVE TxP!TxInv'
    <2>1. sendPc = "idle"
        BY <1>1, <1>4 DEF CallInv
    <2> QED
        BY <1>1, <1>4, <2>1
        DEF TxP!TxInv, TxP!LocalsInv, TxP!QueueInv, TxP!NextFree, TxP!ActiveInv,
            TxP!Queued, TxP!ContentInv, TxP!Succ, TxP!Transfers, TxP!Back
<1> QED
    BY <1>3, <1>4

-----------------------------------------------------------------------------
(* Types.                                                                  *)

\* What request_len keeps of the return value of usb_cmsis_dap_recv.
LEMMA Uint16Type ==
    /\ \A n \in Int : Uint16(n) \in Uint16s
    /\ \A n \in Uint16s : Uint16(n) = n
    /\ 0 \in Uint16s
BY DEF Uint16, Uint16s

\* recv returns to the task from one of its three return statements.
LEMMA ReturnType ==
    ASSUME len \in Nat, Receive, recvPc' = "idle"
    PROVE  request_len' = Uint16(ReturnValue) /\ request_len' \in Uint16s
<1>1. recvPc \in {"config", "poll", "requeue"}
    BY DEF Receive, Rx!Task, Rx!InTask, Rx!RecvCall, Rx!RecvCheckConfiguration,
           Rx!RecvPoll, Rx!RecvTake, Rx!RecvLength, Rx!RecvAdvance, Rx!RecvCopy,
           Rx!RecvRequeue, Rx!RecvReturn
<1>2. ReturnValue \in Int
    BY <1>1 DEF ReturnValue
<1>3. Uint16(ReturnValue) \in Uint16s
    BY <1>2, Uint16Type, Zenon
<1>4. request_len' = Uint16(ReturnValue)
    BY DEF Receive
<1> QED
    BY <1>3, <1>4, Zenon

\* Every step keeps the task's own variables in their types.
LEMMA OwnTypesStep ==
    ASSUME OwnTypes, sent \in Nat, USB_Request \in Nat, len \in Nat, [Next]_vars
    PROVE  OwnTypes'
<1>1. CASE UNCHANGED taskVars
    BY <1>1 DEF taskVars, OwnTypes
<1>2. ASSUME NEW v \in {0, 1}, SetConfiguration(v) PROVE OwnTypes'
    BY <1>2 DEF SetConfiguration, OwnTypes
<1>3. CASE Receive
    <2>1. request_len' \in Uint16s
        <3>1. CASE recvPc' = "idle"
            BY <1>3, <3>1, ReturnType
        <3>2. CASE recvPc' # "idle"
            BY <1>3, <3>2 DEF Receive, OwnTypes
        <3> QED
            BY <3>1, <3>2
    <2>2. taskPc' \in {"recv", "mask"} /\ UNCHANGED <<hostBase, executions, executed>>
        BY <1>3 DEF Receive
    <2> QED
        BY <2>1, <2>2 DEF OwnTypes
<1>4. CASE Mask
    BY <1>4 DEF Mask, OwnTypes
<1>5. CASE ExecuteCommand
    <2>1. /\ taskPc' = "send" /\ UNCHANGED <<request_len, hostBase>>
          /\ executions' \in {executions, executions + 1}
          /\ executed' \in {executed, USB_Request}
        BY <1>5 DEF ExecuteCommand
    <2> QED
        BY <2>1 DEF OwnTypes
<1>6. CASE SendResponse
    BY <1>6 DEF SendResponse, OwnTypes
<1>7. HostSend \/ HostRead \/ Completions \/ BusReset \/ UNCHANGED vars
         => UNCHANGED taskVars
    BY DEF HostSend, HostRead, Completions, BusReset, vars
<1> QED
    BY <1>1, <1>2, <1>3, <1>4, <1>5, <1>6, <1>7 DEF Next, Task

\* Every step keeps all variables in their types.
LEMMA TypesStep == TaskTypes /\ [Next]_vars => TaskTypes'
<1> SUFFICES ASSUME TaskTypes, [Next]_vars PROVE TaskTypes'
    OBVIOUS
<1>1. RxP!TypeOK'
    BY RxStep, RxFacts DEF TaskTypes
<1>2. TxP!TypeOK'
    <2>1. CASE ExecuteCommand
        BY <2>1, ExecuteKeepsTx
    <2>2. CASE ~ExecuteCommand
        <3>1. TxP!TypeOK
            BY DEF TaskTypes
        <3>2. [TxP!Steps]_(TxP!vars)
            BY <2>2, <3>1, TxStep
        <3> QED
            BY <3>1, <3>2, TxFacts
    <2> QED
        BY <2>1, <2>2
<1>3. sent \in Nat /\ USB_Request \in Nat /\ len \in Nat
    BY BoundsAssumption DEF TaskTypes, RxP!TypeOK, RxP!Packets
<1>4. OwnTypes'
    BY <1>3, OwnTypesStep DEF TaskTypes
<1> QED
    BY <1>1, <1>2, <1>4 DEF TaskTypes

\* Initially both halves have their types, whose invariants hold.
LEMMA HalvesInit == Init => /\ RxP!TypeOK /\ RxP!RxInv
                            /\ TxP!TypeOK /\ TxP!TxInv
<1> SUFFICES ASSUME Init PROVE RxP!Init /\ TxP!Init
    BY RxFacts, TxFacts
<1>1. RxP!Init
    BY DEF Init, Rx!Init, RxP!Init, Rx!Slots, RxP!Slots, Rx!Buffers, RxP!Buffers,
           Rx!NoPacket, RxP!NoPacket, Rx!Ep!FifoInit, RxP!Ep!FifoInit
<1>2. TxP!Init
    BY DEF Init, Tx!Init, TxP!Init, Tx!Transfers, TxP!Transfers, Tx!Ep!SilentInit,
           TxP!Ep!SilentInit
<1> QED
    BY <1>1, <1>2

\* The initial state has the types.
LEMMA TypesInit == Init => TaskTypes
<1> SUFFICES ASSUME Init PROVE TaskTypes
    OBVIOUS
<1>1. /\ taskPc = "recv" /\ request_len = 0
      /\ hostBase = 0 /\ executions = 0 /\ executed = 0
    BY DEF Init
<1> QED
    BY <1>1, HalvesInit, Uint16Type DEF TaskTypes, OwnTypes

\* Interrupts are masked on the way to "execute" and unmasked on the way from it.
LEMMA MaskStep == TaskTypes /\ MaskInv /\ [Next]_vars => MaskInv'
<1> SUFFICES ASSUME TaskTypes, MaskInv, [Next]_vars PROVE MaskInv'
    OBVIOUS
<1>1. CASE UNCHANGED <<taskPc, masked>>
    BY <1>1, Zenon DEF MaskInv
<1>2. CASE Receive
    <2>1. taskPc = "recv" /\ taskPc' # "execute" /\ UNCHANGED masked
        BY <1>2 DEF Receive
    <2>2. ~(taskPc = "execute") /\ ~(taskPc' = "execute")
        BY <2>1
    <2> QED
        BY <2>1, <2>2, Zenon DEF MaskInv
<1>3. CASE Mask
    BY <1>3, Zenon DEF Mask, MaskInv
<1>4. CASE ExecuteCommand
    <2>1. masked' = FALSE /\ ~(taskPc' = "execute")
        BY <1>4 DEF ExecuteCommand
    <2> QED
        BY <2>1, Zenon DEF MaskInv
<1>5. CASE SendResponse
    <2>1. taskPc = "send" /\ taskPc' \in {"send", "recv"} /\ UNCHANGED masked
        BY <1>5 DEF SendResponse
    <2>2. ~(taskPc = "execute") /\ ~(taskPc' = "execute")
        BY <2>1
    <2> QED
        BY <2>1, <2>2, Zenon DEF MaskInv
<1> QED
    BY <1>1, <1>2, <1>3, <1>4, <1>5
    DEF Next, Task, HostSend, HostRead, Completions, SetConfiguration, BusReset,
        taskVars, vars

\* Interrupts are not masked initially.
LEMMA MaskInit == Init => MaskInv
<1> SUFFICES ASSUME Init PROVE MaskInv
    OBVIOUS
<1>1. masked = FALSE /\ ~(taskPc = "execute")
    BY DEF Init
<1> QED
    BY <1>1, Zenon DEF MaskInv

\* The two together are the type invariant.
LEMMA TypesMeanTypeOK == TaskTypes /\ MaskInv => TypeOK
<1> SUFFICES ASSUME TaskTypes, MaskInv PROVE TypeOK
    OBVIOUS
<1>1. Rx!TypeOK /\ Tx!TypeOK
    BY RxTypes, TxTypes DEF TaskTypes
<1>2. /\ taskPc \in {"recv", "mask", "execute", "send"}
      /\ request_len \in 0 .. 65535
      /\ {hostBase, executions, executed} \subseteq Nat
    BY DEF TaskTypes, OwnTypes, Uint16s
<1>3. masked = (taskPc = "execute")
    BY Zenon DEF MaskInv
<1> QED
    BY <1>1, <1>2, <1>3, PTL DEF TypeOK

\* The variables keep their types; interrupts are masked exactly while a command is
\* executed (task_cmsis_dap.c:81-96).
THEOREM TypeCorrect == Spec => []TypeOK
<1>1. Spec => []TaskTypes
    BY TypesInit, TypesStep, PTL DEF Spec
<1>2. Spec => []MaskInv
    BY <1>1, MaskInit, MaskStep, PTL DEF Spec
<1> QED
    BY <1>1, <1>2, TypesMeanTypeOK, PTL

-----------------------------------------------------------------------------
(* What the invariant says at the points that matter.                      *)

\* The lengths and counts as numbers.
LEMMA Numbers ==
    ASSUME TaskTypes
    PROVE  /\ sent \in Nat /\ nextPacket \in Nat /\ USB_Request \in Nat
           /\ hostBase \in Nat /\ executions \in Nat /\ len \in Nat
           /\ hostGot \in Seq(0 .. MaxSent) /\ Len(hostGot) \in Nat
           /\ accepted \in Seq(0 .. MaxSent) /\ Len(accepted) \in Nat
           /\ Len(txChain) \in Nat
           /\ USB_Response \in 0 .. MaxSent
<1>1. /\ sent \in Nat /\ nextPacket \in Nat /\ USB_Request \in Nat /\ len \in Nat
    BY BoundsAssumption DEF TaskTypes, RxP!TypeOK, RxP!Packets
<1>2. /\ hostGot \in Seq(0 .. MaxSent) /\ accepted \in Seq(0 .. MaxSent)
      /\ txChain \in Seq(TxP!Transfers) /\ USB_Response \in 0 .. MaxSent
    BY DEF TaskTypes, TxP!TypeOK
<1>3. Len(hostGot) \in Nat /\ Len(accepted) \in Nat /\ Len(txChain) \in Nat
    BY <1>2, LenProperties
<1>4. hostBase \in Nat /\ executions \in Nat
    BY DEF TaskTypes, OwnTypes
<1> QED
    BY <1>1, <1>2, <1>3, <1>4

\* recv has not returned more packets than were sent; when it has returned all, it
\* has no buffer and the ring is empty.
LEMMA Returned ==
    ASSUME TaskTypes, RxP!RxInv
    PROVE  /\ nextPacket =< sent + 1
           /\ nextPacket = sent + 1 => recvPc \in {"idle", "config", "poll"}
<1>1. /\ sent + 1 = nextPacket + RxP!Held + RxP!RingLength + done
      /\ recvPc = "take" => rx_tail # rx_head
    BY DEF RxP!RxInv, RxP!OrderInv, RxP!LocalsInv
<1>2. /\ RxP!RingLength \in Nat /\ RxP!Held \in Nat /\ done \in Nat
      /\ rx_tail \in 0 .. RX_NUM /\ rx_head \in 0 .. RX_NUM
    <2>1. RxP!TypeOK
        BY DEF TaskTypes
    <2>2. RxP!RingLength \in 0 .. RX_NUM /\ RxP!Held \in 0 .. 1
        BY <2>1, RxFacts
    <2>3. chain \in Seq(RxP!Buffers) /\ done \in 0 .. Len(chain)
        BY <2>1 DEF RxP!TypeOK, RxP!Ep!FifoTypeOK
    <2>4. done \in Nat
        BY <2>3, LenProperties
    <2> QED
        BY <2>1, <2>2, <2>4 DEF RxP!TypeOK, RxP!Slots
<1>3. nextPacket =< sent + 1
    BY <1>1, <1>2, Numbers
<1>4. ASSUME nextPacket = sent + 1 PROVE recvPc \in {"idle", "config", "poll"}
    <2>1. RxP!RingLength = 0 /\ RxP!Held = 0
        <3>1. nextPacket \in Nat
            BY Numbers
        <3>2. nextPacket = nextPacket + RxP!Held + RxP!RingLength + done
            BY <1>1, <1>4
        <3> QED
            BY <1>2, <3>1, <3>2
    <2>2. recvPc \notin {"length", "advance", "copy", "requeue"}
        BY <2>1 DEF RxP!Held, RxP!Holding
    <2>3. recvPc # "take"
        <3> SUFFICES ASSUME recvPc = "take" PROVE FALSE
            OBVIOUS
        <3>1. RxP!RingLength = RxP!Distance(rx_tail, rx_head)
            BY DEF RxP!RingLength, RxP!RingTail
        <3>2. RxP!Distance(rx_tail, rx_head) # 0
            BY <1>1, <1>2, SizesAssumption DEF RxP!Distance
        <3> QED
            BY <2>1, <3>1, <3>2
    <2> QED
        BY <2>2, <2>3 DEF TaskTypes, RxP!TypeOK
<1> QED
    BY <1>3, <1>4

\* When send looks at its transfer, fewer than Window responses are in flight, and
\* so the transfer is free.
LEMMA TransferIsFree ==
    ASSUME TaskTypes, TaskInv, Window =< TX_NUM, sendPc = "status"
    PROVE  usb_configuration # 0 /\ ~active[xfer]
<1>1. usb_configuration # 0
    BY DEF TaskInv, OffInv
<1>2. taskPc = "send"
    BY DEF TaskInv, CallInv
<1>3. /\ nextPacket = hostBase + executions + 1
      /\ Len(accepted) = executions - 1
      /\ (sent - hostBase) - Len(hostGot) =< Window
    BY <1>1, <1>2, Numbers DEF TaskInv, OnInv, InHand, Pending
<1>4. Len(accepted) = Len(hostGot) + Len(txChain) /\ xfer = tx_head
    BY DEF TaskInv, TxP!TxInv, TxP!ContentInv, TxP!LocalsInv
<1>5. nextPacket =< sent + 1
    BY Returned DEF TaskInv
<1>6. TX_NUM \in Nat /\ Window \in Nat
    BY SizesAssumption
<1>7. Len(txChain) < TX_NUM
    BY <1>3, <1>4, <1>5, <1>6, Numbers
<1>8. active[tx_head] => Len(txChain) = TX_NUM
    <2>1. TxP!ActiveMeansQueued
        BY TxFacts DEF TaskTypes, TaskInv
    <2> QED
        BY <2>1 DEF TxP!ActiveMeansQueued
<1> QED
    BY <1>1, <1>4, <1>6, <1>7, <1>8, Numbers

\* What recv returns to the task: nothing, or a request that becomes the one in
\* hand; -1 while the device is not configured, which the task takes for a length.
LEMMA ReceiveMeans ==
    ASSUME TaskTypes, TaskInv, Receive
    PROVE  /\ taskPc = "recv"
           /\ UNCHANGED <<usb_configuration, live, sent, txOnly, hostBase,
                          executions, executed>>
           /\ \/ taskPc' = "recv" /\ UNCHANGED nextPacket
              \/ /\ taskPc' = "mask" /\ recvPc' = "idle"
                 /\ nextPacket' = nextPacket + 1 /\ USB_Request' = nextPacket
                 /\ usb_configuration # 0
              \/ /\ taskPc' \in {"recv", "mask"} /\ recvPc' = "idle"
                 /\ UNCHANGED nextPacket /\ usb_configuration = 0
<1>1. /\ taskPc = "recv" /\ Rx!Task
      /\ UNCHANGED <<txOnly, hostBase, executions, executed>>
      /\ recvPc' # "idle" => UNCHANGED taskPc
      /\ recvPc' = "idle" =>
             taskPc' = IF request_len' > 0 THEN "mask" ELSE "recv"
    BY DEF Receive
<1>2. UNCHANGED <<usb_configuration, live, sent>>
    BY <1>1 DEF Rx!Task, Rx!RecvCall, Rx!RecvCheckConfiguration, Rx!RecvPoll,
                Rx!RecvTake, Rx!RecvLength, Rx!RecvAdvance, Rx!RecvCopy,
                Rx!RecvRequeue, Rx!RecvReturn, Rx!endpoint, Rx!ghosts, Rx!Ep!Schedule
<1>3. /\ recvPc # "requeue" => UNCHANGED nextPacket
      /\ recvPc' = "idle" => \/ recvPc = "config" /\ usb_configuration = 0
                             \/ recvPc \in {"poll", "requeue"}
      /\ recvPc = "requeue" => /\ recvPc' = "idle" /\ nextPacket' = nextPacket + 1
                               /\ UNCHANGED USB_Request
    BY <1>1 DEF Rx!Task, Rx!InTask, Rx!RecvCall, Rx!RecvCheckConfiguration,
                Rx!RecvPoll, Rx!RecvTake, Rx!RecvLength, Rx!RecvAdvance,
                Rx!RecvCopy, Rx!RecvRequeue, Rx!RecvReturn, Rx!ghosts
<1>4. CASE recvPc = "requeue"
    <2>1. /\ nextPacket =< sent /\ len = PacketLen[nextPacket]
          /\ len > 0 => USB_Request = nextPacket
        BY <1>4, RxFacts DEF TaskTypes, TaskInv, RxP!DeliveredInOrder
    <2>2. usb_configuration # 0
        BY <1>4, Returned DEF TaskInv, OffInv
    <2>3. nextPacket \in 1 .. MaxSent
        <3>1. nextPacket >= 1
            BY <1>1, <2>2, Numbers DEF TaskInv, OnInv, InHand
        <3>2. sent =< MaxSent
            BY BoundsAssumption DEF TaskTypes, RxP!TypeOK, RxP!Packets
        <3> QED
            BY <2>1, <3>1, <3>2, Numbers, BoundsAssumption
    <2>4. len \in 1 .. 512
        BY <2>1, <2>3, RequestAssumption
    <2>5. ReturnValue = len
        BY <1>4 DEF ReturnValue
    <2>6. Uint16(len) = len
        BY <2>4 DEF Uint16
    <2>7. request_len' = len
        BY <1>3, <1>4, <2>5, <2>6, Numbers, ReturnType
    <2> QED
        BY <1>1, <1>2, <1>3, <1>4, <2>1, <2>2, <2>4, <2>7
<1>5. CASE recvPc = "poll" /\ recvPc' = "idle"
    <2>1. ReturnValue = 0
        BY <1>5 DEF ReturnValue
    <2>2. Uint16(0) = 0
        BY DEF Uint16
    <2>3. request_len' = 0
        BY <1>5, <2>1, <2>2, Numbers, ReturnType
    <2> QED
        BY <1>1, <1>2, <1>3, <1>5, <2>3
<1>6. CASE recvPc = "config" /\ recvPc' = "idle"
    BY <1>1, <1>2, <1>3, <1>6
<1>7. CASE recvPc' # "idle"
    BY <1>1, <1>2, <1>3, <1>7
<1> QED
    BY <1>3, <1>4, <1>5, <1>6, <1>7

-----------------------------------------------------------------------------
(* The steps.                                                              *)

\* Every step keeps the invariants of the two halves.
LEMMA HalvesHold ==
    ASSUME TaskTypes, TaskInv, ~AnyTimeConfig, [Next]_vars
    PROVE  RxP!RxInv' /\ TxP!TxInv'
<1>1. RxP!RxInv'
    BY RxStep, RxFacts DEF TaskTypes, TaskInv
<1>2. TxP!TxInv'
    <2>1. CASE ExecuteCommand
        BY <2>1, ExecuteKeepsTx DEF TaskInv
    <2>2. CASE ~ExecuteCommand
        <3>1. [TxP!Steps]_(TxP!vars)
            BY <2>2, TxStep DEF TaskTypes
        <3> QED
            BY <3>1, TxFacts DEF TaskTypes, TaskInv
    <2> QED
        BY <2>1, <2>2
<1> QED
    BY <1>1, <1>2

\* What the counts are about.
Flow == CallInv /\ OffInv /\ OnInv

\* The host does not ask for more than its window.
LEMMA SendKeeps == ASSUME TaskTypes, TaskInv, HostSend PROVE Flow'
<1>1. /\ (sent - hostBase) - Len(hostGot) < Window
      /\ live /\ sent' = sent + 1
      /\ UNCHANGED <<usb_configuration, live, recvPc, USB_Request, nextPacket,
                     txOnly, taskPc, hostBase, executions>>
    BY DEF HostSend, Outstanding, Rx!HostSend, Rx!PacketArrives, Rx!Ep!Retire,
           Rx!locals, taskVars
<1>2. CallInv'
    BY <1>1 DEF TaskInv, CallInv, txOnly
<1>3. OffInv'
    BY <1>1 DEF TaskInv, OffInv
<1>4. OnInv'
    <2>1. (sent' - hostBase) - Len(hostGot) =< Window
        BY <1>1, Numbers, SizesAssumption
    <2> QED
        BY <1>1, <2>1 DEF TaskInv, OnInv, InHand, Pending, txOnly
<1> QED
    BY <1>2, <1>3, <1>4 DEF Flow

\* The host reads one response.
LEMMA HostReadCounts ==
    ASSUME TaskTypes, TaskInv, ~AnyTimeConfig, HostRead
    PROVE  /\ usb_configuration # 0
           /\ Len(hostGot') = Len(hostGot) + 1
           /\ Len(hostGot) + 1 =< Len(accepted)
           /\ hostGot' # <<>>
           /\ hostGot'[Len(hostGot')] = accepted[Len(hostGot) + 1]
<1>1. /\ txLive /\ txChain # <<>> /\ txChain' = Tail(txChain)
      /\ UNCHANGED accepted
    BY DEF HostRead, Tx!HostRead, Tx!ResponseLeaves, Tx!Ep!Retire
<1>2. usb_configuration # 0
    BY <1>1 DEF TaskInv, OffInv
<1>3. Len(txChain') = Len(txChain) - 1
    <2>1. txChain \in Seq(TxP!Transfers)
        BY DEF TaskTypes, TxP!TypeOK
    <2> QED
        BY <1>1, <2>1, HeadTailProperties, EmptySeq
<1>4. TxP!TxInv' /\ TaskTypes'
    BY HalvesHold, TypesStep DEF Next
<1>5. /\ Len(accepted) = Len(hostGot) + Len(txChain)
      /\ Len(accepted') = Len(hostGot') + Len(txChain')
      /\ \A k \in 1 .. Len(hostGot') : accepted'[k] = hostGot'[k]
    BY <1>4 DEF TaskInv, TxP!TxInv, TxP!ContentInv
<1>6. Len(hostGot') \in Nat /\ Len(txChain') \in Nat /\ hostGot' \in Seq(0 .. MaxSent)
    <2>1. hostGot' \in Seq(0 .. MaxSent) /\ txChain' \in Seq(TxP!Transfers)
        BY <1>4 DEF TaskTypes, TxP!TypeOK, TxP!Transfers
    <2> QED
        BY <2>1, LenProperties
<1>7. /\ Len(hostGot') = Len(hostGot) + 1
      /\ Len(hostGot) + 1 =< Len(accepted)
    BY <1>1, <1>3, <1>5, <1>6, Numbers
<1>8. hostGot' # <<>>
    BY <1>6, <1>7, Numbers, EmptySeq
<1>9. hostGot'[Len(hostGot')] = accepted[Len(hostGot) + 1]
    <2>1. Len(hostGot') \in 1 .. Len(hostGot')
        BY <1>6, <1>7, Numbers
    <2>2. accepted'[Len(hostGot')] = hostGot'[Len(hostGot')]
        BY <1>5, <2>1
    <2> QED
        BY <1>1, <1>7, <2>2
<1> QED
    BY <1>2, <1>7, <1>8, <1>9

\* A response read makes room in the window.
LEMMA ReadKeeps == ASSUME TaskTypes, TaskInv, ~AnyTimeConfig, HostRead PROVE Flow'
<1>1. /\ usb_configuration # 0
      /\ UNCHANGED <<usb_configuration, recvPc, sendPc, accepted, USB_Response,
                     USB_Request, nextPacket, sent, taskPc, hostBase, executions>>
    BY HostReadCounts DEF HostRead, Tx!HostRead, Tx!ResponseLeaves, rxOnly, taskVars
<1>2. (sent - hostBase) - Len(hostGot') =< Window
    <2>1. (sent - hostBase) - Len(hostGot) =< Window
        BY <1>1 DEF TaskInv, OnInv
    <2>2. Len(hostGot') = Len(hostGot) + 1
        BY HostReadCounts
    <2> QED
        BY <2>1, <2>2, Numbers, SizesAssumption
<1>3. CallInv' /\ OffInv'
    BY <1>1 DEF TaskInv, CallInv, OffInv
<1>4. OnInv'
    BY <1>1, <1>2 DEF TaskInv, OnInv, InHand, Pending
<1> QED
    BY <1>3, <1>4 DEF Flow

\* The steps of the USB interrupt but for SET_CONFIGURATION, and the masking.
LEMMA InterruptKeeps ==
    ASSUME TaskInv, Completions \/ BusReset \/ Mask \/ UNCHANGED vars
    PROVE  Flow'
<1>1. /\ UNCHANGED <<usb_configuration, recvPc, USB_Request, nextPacket, sent,
                     sendPc, USB_Response, accepted, hostGot, hostBase, executions>>
      /\ live' => live
      /\ txLive' => txLive
      /\ \/ UNCHANGED taskPc
         \/ taskPc = "mask" /\ taskPc' = "execute"
    BY DEF Completions, Rx!Completions, Rx!IsrWalk, Rx!Ep!Walk, Rx!rx_event,
           Rx!StoreInRing, Rx!Ep!Callback, Rx!locals, Rx!ghosts, BusReset,
           Rx!BusReset, Rx!Ep!Flush, Tx!BusReset, Tx!Ep!Flush, Tx!ghosts, Mask,
           rxOnly, txOnly, taskVars, vars
<1> QED
    BY <1>1 DEF TaskInv, Flow, CallInv, OffInv, OnInv, InHand, Pending

\* A configuration finds the task in recv, and starts the counts afresh.
LEMMA ConfigureKeeps ==
    ASSUME TaskTypes, TaskInv, ~AnyTimeConfig, NEW v \in {0, 1}, SetConfiguration(v)
    PROVE  Flow'
<1>1. /\ taskPc = "recv" /\ UNCHANGED <<taskPc, recvPc, sendPc, sent>>
      /\ usb_configuration' = v
      /\ live' = (v # 0) /\ txLive' = (v # 0)
      /\ nextPacket' = sent + 1 /\ hostBase' = sent /\ executions' = 0
      /\ accepted' = <<>> /\ hostGot' = <<>>
    BY DEF SetConfiguration, Rx!SetConfiguration, Rx!EmptyRing, Rx!Ep!Configure,
           Tx!SetConfiguration, Tx!ResetTransfers, Tx!Ep!Configure
<1>2. sendPc = "idle" /\ CallInv'
    BY <1>1 DEF TaskInv, CallInv
<1>3. v = 0 => ~live' /\ ~txLive'
    BY <1>1
<1>4. OffInv'
    BY <1>1, <1>2, <1>3 DEF OffInv
<1>5. OnInv'
    BY <1>1, <1>2, Numbers, EmptySeq, SizesAssumption DEF OnInv, InHand, Pending
<1> QED
    BY <1>2, <1>4, <1>5 DEF Flow

\* The task receives.
LEMMA ReceiveKeeps == ASSUME TaskTypes, TaskInv, Receive PROVE Flow'
<1>1. sendPc = "idle"
    BY ReceiveMeans DEF TaskInv, CallInv
<1>2. CallInv'
    BY <1>1, ReceiveMeans DEF CallInv, txOnly
<1>3. OffInv'
    BY ReceiveMeans DEF TaskInv, OffInv, txOnly
<1>4. OnInv'
    BY ReceiveMeans, Numbers DEF TaskInv, OnInv, InHand, Pending, txOnly
<1> QED
    BY <1>2, <1>3, <1>4 DEF Flow

\* The task executes the request in hand.
LEMMA ExecuteKeeps == ASSUME TaskTypes, TaskInv, ExecuteCommand PROVE Flow'
<1>1. /\ taskPc = "execute" /\ taskPc' = "send"
      /\ USB_Response' = USB_Request
      /\ usb_configuration # 0 => executions' = executions + 1
      /\ usb_configuration = 0 => executions' = executions
      /\ UNCHANGED <<usb_configuration, live, txLive, recvPc, sendPc, nextPacket,
                     sent, accepted, hostGot, hostBase>>
    BY DEF ExecuteCommand, rxOnly
<1>2. sendPc = "idle" /\ CallInv'
    BY <1>1 DEF TaskInv, CallInv
<1>3. OffInv'
    BY <1>1 DEF TaskInv, OffInv
<1>4. OnInv'
    BY <1>1, <1>2, Numbers DEF TaskInv, OnInv, InHand, Pending
<1> QED
    BY <1>2, <1>3, <1>4 DEF Flow

\* The task sends: every step but the scheduling of the transfer leaves the
\* response pending, or is the last one.
LEMMA SendResponseKeeps ==
    ASSUME TaskTypes, TaskInv, Window =< TX_NUM, SendResponse
    PROVE  Flow'
<1>1. /\ taskPc = "send"
      /\ UNCHANGED <<usb_configuration, live, txLive, recvPc, nextPacket, sent,
                     USB_Response, hostGot, hostBase, executions>>
      /\ \/ sendPc = "idle" /\ sendPc' = "config"
            /\ UNCHANGED <<taskPc, accepted>>
         \/ Tx!Send /\ taskPc' = IF sendPc' = "idle" THEN "recv" ELSE "send"
    BY DEF SendResponse, Tx!SendCall, Tx!Send, Tx!SendCheckConfiguration,
           Tx!SendTestStatus, Tx!SendFill, Tx!SendPrepare, Tx!PointToBuffer,
           Tx!SendTransmit, Tx!ResponseAccepted, Tx!Ep!Schedule, Tx!SendBump,
           Tx!descriptors, Tx!txEndpoint, Tx!ghosts, rxOnly
<1>2. CASE sendPc = "idle" /\ sendPc' = "config" /\ UNCHANGED <<taskPc, accepted>>
    BY <1>1, <1>2 DEF TaskInv, Flow, CallInv, OffInv, OnInv, InHand, Pending
<1>3. CASE Tx!Send /\ taskPc' = IF sendPc' = "idle" THEN "recv" ELSE "send"
    <2>1. CallInv'
        BY <1>1, <1>3 DEF TaskInv, CallInv
    <2>2. CASE Tx!SendCheckConfiguration
        <3>1. /\ sendPc = "config" /\ UNCHANGED accepted
              /\ sendPc' = IF usb_configuration = 0 THEN "idle" ELSE "status"
            BY <2>2 DEF Tx!SendCheckConfiguration, Tx!ghosts
        <3> QED
            BY <1>1, <1>3, <2>1, <3>1
            DEF TaskInv, Flow, OffInv, OnInv, InHand, Pending
    <2>3. CASE Tx!SendTestStatus
        <3>1. /\ sendPc = "status" /\ sendPc' = "fill" /\ UNCHANGED accepted
              /\ usb_configuration # 0
            BY <2>3, TransferIsFree DEF Tx!SendTestStatus, Tx!ghosts
        <3> QED
            BY <1>1, <1>3, <2>1, <3>1
            DEF TaskInv, Flow, OffInv, OnInv, InHand, Pending
    <2>4. CASE Tx!SendFill \/ Tx!SendPrepare
        <3>1. /\ sendPc \in {"fill", "prepare"} /\ sendPc' \in {"prepare", "transmit"}
              /\ UNCHANGED accepted
            BY <2>4 DEF Tx!SendFill, Tx!SendPrepare, Tx!PointToBuffer, Tx!ghosts
        <3> QED
            BY <1>1, <1>3, <2>1, <3>1
            DEF TaskInv, Flow, OffInv, OnInv, InHand, Pending
    <2>5. CASE Tx!SendTransmit
        <3>1. /\ sendPc = "transmit" /\ sendPc' = "bump"
              /\ accepted' = Append(accepted, USB_Response)
            BY <2>5 DEF Tx!SendTransmit, Tx!ResponseAccepted
        <3>2. usb_configuration # 0 /\ taskPc' = "send"
            BY <1>3, <3>1 DEF TaskInv, OffInv
        <3>3. /\ Len(accepted') = Len(accepted) + 1
              /\ \A k \in 1 .. Len(accepted) : accepted'[k] = accepted[k]
              /\ accepted'[Len(accepted) + 1] = USB_Response
            BY <3>1, Numbers, AppendProperties
        <3>4. /\ nextPacket = hostBase + executions + 1
              /\ USB_Response = hostBase + executions
              /\ Len(accepted) = executions - 1
              /\ \A k \in 1 .. Len(accepted) : accepted[k] = hostBase + k
              /\ (sent - hostBase) - Len(hostGot) =< Window
            BY <1>1, <3>1, <3>2, Numbers DEF TaskInv, OnInv, InHand, Pending
        <3>5. \A k \in 1 .. Len(accepted') : accepted'[k] = hostBase + k
            <4> TAKE k \in 1 .. Len(accepted')
            <4>1. CASE k = Len(accepted) + 1
                BY <3>3, <3>4, <4>1, Numbers
            <4>2. CASE k # Len(accepted) + 1
                <5>1. k \in 1 .. Len(accepted)
                    BY <3>3, <4>2, Numbers
                <5> QED
                    BY <3>3, <3>4, <5>1
            <4> QED
                BY <4>1, <4>2
        <3>6. Len(accepted') = executions
            BY <3>3, <3>4, Numbers
        <3>7. OnInv'
            <4>1. InHand' = 0 /\ Pending' = 0
                BY <3>1, <3>2 DEF InHand, Pending
            <4>2. nextPacket' = hostBase' + executions' + InHand' + 1
                BY <1>1, <3>4, <4>1, Numbers
            <4>3. Len(accepted') = executions' - Pending'
                BY <1>1, <3>6, <4>1, Numbers
            <4>4. \A k \in 1 .. Len(accepted') : accepted'[k] = hostBase' + k
                BY <1>1, <3>5
            <4>5. /\ taskPc' \notin {"mask", "execute"}
                  /\ USB_Response' = hostBase' + executions'
                  /\ (sent' - hostBase') - Len(hostGot') =< Window
                BY <1>1, <3>2, <3>4
            <4> QED
                BY <4>2, <4>3, <4>4, <4>5 DEF OnInv
        <3> QED
            BY <1>1, <2>1, <3>2, <3>7 DEF Flow, OffInv
    <2>6. CASE Tx!SendBump
        <3>1. sendPc = "bump" /\ sendPc' = "idle" /\ UNCHANGED accepted
            BY <2>6 DEF Tx!SendBump, Tx!ghosts
        <3> QED
            BY <1>1, <1>3, <2>1, <3>1
            DEF TaskInv, Flow, OffInv, OnInv, InHand, Pending
    <2> QED
        BY <1>3, <2>2, <2>3, <2>4, <2>5, <2>6 DEF Tx!Send
<1> QED
    BY <1>1, <1>2, <1>3

-----------------------------------------------------------------------------
(* The invariant, and what follows from it.                                *)

\* Nothing has happened yet, and the device is not configured.
LEMMA TaskInvInit == Init => TaskInv
<1> SUFFICES ASSUME Init PROVE TaskInv
    OBVIOUS
<1>1. /\ usb_configuration = 0 /\ taskPc = "recv" /\ recvPc = "idle" /\ sendPc = "idle"
      /\ live = FALSE /\ txLive = FALSE
      /\ nextPacket = 1 /\ sent = 0 /\ hostBase = 0 /\ executions = 0
      /\ accepted = <<>>
    BY DEF Init, Rx!Init, Rx!Ep!FifoInit, Tx!Init, Tx!Ep!SilentInit
<1>2. ~live /\ ~txLive
    BY <1>1
<1>3. CallInv /\ OffInv /\ OnInv
    BY <1>1, <1>2 DEF CallInv, OffInv, OnInv
<1> QED
    BY <1>3, HalvesInit DEF TaskInv

\* The invariant survives every step.
LEMMA TaskInvStep ==
    ASSUME ~AnyTimeConfig, Window =< TX_NUM, TaskTypes, TaskInv, [Next]_vars
    PROVE  TaskInv'
<1>1. Flow'
    BY SendKeeps, ReadKeeps, InterruptKeeps, ConfigureKeeps, ReceiveKeeps,
       ExecuteKeeps, SendResponseKeeps DEF Next, Task
<1>2. RxP!RxInv' /\ TxP!TxInv'
    BY HalvesHold
<1> QED
    BY <1>1, <1>2 DEF TaskInv, Flow

\* The counts of requests received, executed and answered agree, in every
\* reachable state, when the host keeps to a window of DAP_PACKET_COUNT requests
\* and configures the device while the task waits for one.
THEOREM TaskInvCorrect ==
    ASSUME ~AnyTimeConfig, Window =< TX_NUM
    PROVE  Spec => [](TaskTypes /\ TaskInv)
<1>1. Init => TaskTypes /\ TaskInv
    BY TypesInit, TaskInvInit
<1>2. TaskTypes /\ TaskInv /\ [Next]_vars => (TaskTypes /\ TaskInv)'
    BY TypesStep, TaskInvStep
<1> QED
    BY <1>1, <1>2, PTL DEF Spec

\* Such a host always finds a free transfer waiting for its response
\* (usb_cmsis_dap.c:186-190, task_cmsis_dap.c:98).
THEOREM NoResponseDroppedCorrect ==
    ASSUME ~AnyTimeConfig, Window =< TX_NUM
    PROVE  Spec => []NoResponseDropped
<1>1. TaskTypes /\ TaskInv => NoResponseDropped
    BY TransferIsFree DEF NoResponseDropped
<1> QED
    BY <1>1, TaskInvCorrect, PTL

-----------------------------------------------------------------------------
(* The refinement: the debugger implements DapService.                     *)

\* The response the host read last, as the refinement maps it.
Answered == IF hostGot = <<>> THEN hostBase ELSE hostGot[Len(hostGot)]

\* The responses read are numbered without a gap, so the last one's number gives
\* how many there are; there are no more than commands executed.
LEMMA AnsweredCounts ==
    ASSUME TaskTypes, TaskInv
    PROVE  /\ Answered = hostBase + Len(hostGot)
           /\ Len(hostGot) =< executions
<1>1. /\ Len(accepted) = Len(hostGot) + Len(txChain)
      /\ \A k \in 1 .. Len(hostGot) : accepted[k] = hostGot[k]
    BY DEF TaskInv, TxP!TxInv, TxP!ContentInv
<1>2. CASE usb_configuration = 0
    <2>1. Len(accepted) = 0 /\ executions = 0
        BY <1>2, EmptySeq DEF TaskInv, OffInv
    <2>2. Len(hostGot) = 0
        BY <1>1, <2>1, Numbers
    <2>3. hostGot = <<>>
        BY <2>2, Numbers, EmptySeq
    <2> QED
        BY <2>1, <2>2, <2>3, Numbers DEF Answered
<1>3. CASE usb_configuration # 0
    <2>1. /\ Len(accepted) =< executions
          /\ \A k \in 1 .. Len(accepted) : accepted[k] = hostBase + k
        BY <1>3, Numbers DEF TaskInv, OnInv, Pending
    <2>2. CASE hostGot = <<>>
        BY <2>2, EmptySeq, Numbers DEF Answered
    <2>3. CASE hostGot # <<>>
        <3>1. Len(hostGot) \in 1 .. Len(hostGot) /\ Len(hostGot) \in 1 .. Len(accepted)
            BY <1>1, <2>3, EmptySeq, Numbers
        <3>2. hostGot[Len(hostGot)] = hostBase + Len(hostGot)
            BY <1>1, <2>1, <3>1
        <3> QED
            BY <1>1, <2>1, <2>3, <3>2, Numbers DEF Answered
    <2>4. Len(hostGot) =< executions
        BY <1>1, <2>1, Numbers
    <2> QED
        BY <2>2, <2>3, <2>4
<1> QED
    BY <1>2, <1>3

\* The host's read is the service's answer to the next request.
LEMMA ReadIsAnswer ==
    ASSUME TaskTypes, TaskInv, ~AnyTimeConfig, HostRead
    PROVE  /\ Answered < hostBase + executions
           /\ Answered' = Answered + 1
<1>1. /\ usb_configuration # 0
      /\ Len(hostGot) + 1 =< Len(accepted)
      /\ hostGot' # <<>>
      /\ hostGot'[Len(hostGot')] = accepted[Len(hostGot) + 1]
    BY HostReadCounts
<1>2. /\ Len(accepted) =< executions
      /\ \A k \in 1 .. Len(accepted) : accepted[k] = hostBase + k
    BY <1>1, Numbers DEF TaskInv, OnInv, Pending
<1>3. Len(hostGot) + 1 \in 1 .. Len(accepted)
    BY <1>1, Numbers
<1>4. accepted[Len(hostGot) + 1] = hostBase + (Len(hostGot) + 1)
    BY <1>2, <1>3
<1>5. Answered = hostBase + Len(hostGot)
    BY AnsweredCounts
<1>6. Answered' = accepted[Len(hostGot) + 1]
    BY <1>1 DEF Answered
<1> QED
    BY <1>1, <1>2, <1>4, <1>5, <1>6, Numbers

\* Every step is a step of the service, or changes nothing that it speaks of.
LEMMA ServiceStep ==
    ASSUME ~AnyTimeConfig, Window =< TX_NUM, TaskTypes, TaskInv, [Next]_vars
    PROVE  [Service!ServiceNext]_(Service!serviceVars)
<1> USE DEF Service!serviceVars, Service!ServiceNext
<1>1. CASE HostSend
    <2>1. sent' = sent + 1 /\ UNCHANGED <<hostBase, executions, executed, hostGot>>
        BY <1>1 DEF HostSend, Rx!HostSend, Rx!PacketArrives, taskVars, txOnly
    <2> QED
        BY <2>1 DEF Service!Ask
<1>2. CASE HostRead
    <2>1. UNCHANGED <<sent, hostBase, executions, executed>>
        BY <1>2 DEF HostRead, taskVars, rxOnly
    <2> QED
        BY <1>2, <2>1, ReadIsAnswer DEF Service!Answer, Answered
<1>3. ASSUME NEW v \in {0, 1}, SetConfiguration(v) PROVE Service!Configure
    BY <1>3 DEF SetConfiguration, Rx!SetConfiguration, Rx!EmptyRing,
                Tx!SetConfiguration, Tx!ResetTransfers, Service!Configure
<1>4. CASE ExecuteCommand
    <2>1. /\ taskPc = "execute" /\ UNCHANGED <<sent, hostBase, hostGot>>
          /\ usb_configuration = 0 => UNCHANGED <<executions, executed>>
          /\ usb_configuration # 0 => /\ executions' = executions + 1
                                      /\ executed' = USB_Request
        BY <1>4 DEF ExecuteCommand, rxOnly
    <2>2. CASE usb_configuration = 0
        BY <2>1, <2>2
    <2>3. CASE usb_configuration # 0
        <3>1. /\ nextPacket = hostBase + executions + 1 + 1
              /\ USB_Request = hostBase + executions + 1
            BY <2>1, <2>3 DEF TaskInv, OnInv, InHand
        <3>2. nextPacket =< sent + 1
            BY Returned DEF TaskInv
        <3>3. hostBase + executions < sent
            BY <3>1, <3>2, Numbers
        <3> QED
            BY <2>1, <2>3, <3>1, <3>3 DEF Service!Execute
    <2> QED
        BY <2>2, <2>3
<1>5. ASSUME Completions \/ BusReset \/ Receive \/ Mask \/ SendResponse \/ UNCHANGED vars
      PROVE  UNCHANGED <<sent, hostBase, executions, executed, hostGot>>
    <2>1. CASE Completions \/ BusReset
        BY <2>1 DEF Completions, Rx!Completions, Rx!IsrWalk, Rx!rx_event,
                    Rx!StoreInRing, Rx!ghosts, BusReset, Rx!BusReset, Tx!BusReset,
                    Tx!ghosts, txOnly, taskVars
    <2>2. CASE Receive
        BY <2>2, ReceiveMeans DEF txOnly
    <2>3. CASE Mask \/ UNCHANGED vars
        BY <2>3 DEF Mask, rxOnly, txOnly, taskVars, vars
    <2>4. CASE SendResponse
        BY <2>4 DEF SendResponse, Tx!SendCall, Tx!Send, Tx!SendCheckConfiguration,
                    Tx!SendTestStatus, Tx!SendFill, Tx!SendPrepare, Tx!PointToBuffer,
                    Tx!SendTransmit, Tx!ResponseAccepted, Tx!SendBump, Tx!ghosts, rxOnly
    <2> QED
        BY <1>5, <2>1, <2>2, <2>3, <2>4
<1> QED
    BY <1>1, <1>2, <1>3, <1>4, <1>5 DEF Next, Task

\* The debugger executes every request once and in order, and the host reads one
\* response for each command executed, in that order (task_cmsis_dap.c:81-100,
\* usb_cmsis_dap.c:107-200).
THEOREM ServiceRefinementCorrect ==
    ASSUME ~AnyTimeConfig, Window =< TX_NUM
    PROVE  Spec => ServiceRefinement
<1>1. Init => Service!ServiceInit
    BY DEF Init, Rx!Init, Tx!Init, Service!ServiceInit
<1>2. TaskTypes /\ TaskInv /\ [Next]_vars
          => [Service!ServiceNext]_(Service!serviceVars)
    BY ServiceStep
<1> QED
    BY <1>1, <1>2, TaskInvCorrect, PTL
    DEF Spec, ServiceRefinement, Service!ServiceSpec
=============================================================================
