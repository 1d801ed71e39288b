-------------------------- MODULE CmsisDapUsbProofs --------------------------
(***************************************************************************)
(* Proofs about CmsisDapUsb, for any number of transfers, from what        *)
(* TransferQueueProofs proves of the list and CmsisDapRxProofs and         *)
(* CmsisDapTxProofs of the code above it.  They cite no invariant of the   *)
(* abstract queues: every step of the composition is shown to be a step of *)
(* the half it is about.                                                   *)
(***************************************************************************)
EXTENDS CmsisDapUsb, TransferQueueProofs, SequenceTheorems

RxP == INSTANCE CmsisDapRxProofs
           WITH RX_NUM <- N, AnyTimeConfig <- FALSE,
                chain <- rxChain, done <- Retired, due <- rxDue, irq <- rxIrq
TxP == INSTANCE CmsisDapTxProofs
           WITH TX_NUM <- N, AnyTimeTxConfig <- FALSE,
                txConfigs <- configs, MaxTxConfigs <- MaxConfigs,
                active <- act, txChain <- chain, txLive <- live

-----------------------------------------------------------------------------
(* What is known of the two halves, on the list.                           *)

\* The receive path: types, its invariant, and what recv returns.
LEMMA RxFacts ==
    /\ RxP!Init => RxP!TypeOK /\ RxP!RxInv
    /\ RxP!TypeOK /\ RxP!RxInv /\ [RxP!Next]_(RxP!vars) => (RxP!TypeOK /\ RxP!RxInv)'
    /\ RxP!TypeOK /\ RxP!RxInv => RxP!DeliveredInOrder
<1> USE NAssumption, UsbAssumption
<1>1. RxP!Init => RxP!TypeOK /\ RxP!RxInv
  BY RxP!TypeInit, RxP!RxInvInit
<1>2. RxP!TypeOK /\ [RxP!Next]_(RxP!vars) => RxP!TypeOK'
  BY RxP!TypeStep
<1>3. RxP!TypeOK /\ RxP!RxInv /\ [RxP!Next]_(RxP!vars) => RxP!RxInv'
  BY RxP!RxInvStep
<1>4. RxP!TypeOK /\ RxP!RxInv => RxP!DeliveredInOrder
  BY RxP!ReturnedInOrder
<1> QED
  BY <1>1, <1>2, <1>3, <1>4

\* The transmit path: the same, and which transfer is free.
LEMMA TxFacts ==
    /\ TxP!Init => TxP!TypeOK /\ TxP!TxInv
    /\ TxP!TypeOK /\ TxP!TxInv /\ [TxP!Steps]_(TxP!vars) => (TxP!TypeOK /\ TxP!TxInv)'
    /\ TxP!TypeOK /\ TxP!TxInv => TxP!HostReadsWhatWasAccepted
    /\ TxP!Next => TxP!Steps
<1> USE NAssumption, UsbAssumption
<1>1. TxP!Init => TxP!TypeOK /\ TxP!TxInv
  BY TxP!TypeInit, TxP!InitHolds
<1>2. TxP!TypeOK /\ [TxP!Steps]_(TxP!vars) => TxP!TypeOK'
  BY TxP!TypeStep
<1>3. TxP!TypeOK /\ TxP!TxInv /\ [TxP!Steps]_(TxP!vars) => TxP!TxInv'
  BY TxP!StepsHold
<1>4. TxP!TypeOK /\ TxP!TxInv => TxP!HostReadsWhatWasAccepted
  BY TxP!InvMeansInOrder
<1>5. TxP!Next => TxP!Steps
  BY TxP!NextIsSteps
<1> QED
  BY <1>1, <1>2, <1>3, <1>4, <1>5

\* Both instances of the receive path say the same.
LEMMA RxSame ==
    /\ Rx!TypeOK <=> RxP!TypeOK
    /\ Rx!Init <=> RxP!Init
    /\ Rx!DeliveredInOrder <=> RxP!DeliveredInOrder
    /\ Rx!Filled = RxP!Filled
<1> USE DEF Rx!Buffers, RxP!Buffers, Rx!Slots, RxP!Slots, Rx!Packets, RxP!Packets
<1>1. Rx!TypeOK <=> RxP!TypeOK
  BY DEF Rx!TypeOK, RxP!TypeOK, Rx!Ep!FifoTypeOK, RxP!Ep!FifoTypeOK
<1>2. Rx!Init <=> RxP!Init
  BY DEF Rx!Init, RxP!Init, Rx!NoPacket, RxP!NoPacket, Rx!Ep!FifoInit, RxP!Ep!FifoInit
<1>3. Rx!DeliveredInOrder <=> RxP!DeliveredInOrder
  BY DEF Rx!DeliveredInOrder, RxP!DeliveredInOrder
<1>4. Rx!Filled = RxP!Filled
  BY DEF Rx!Filled, RxP!Filled, Rx!Between, RxP!Between, Rx!Distance, RxP!Distance,
         Rx!RingTail, RxP!RingTail
<1> QED
  BY <1>1, <1>2, <1>3, <1>4

\* Their steps, too.
LEMMA RxSameSteps == [Rx!Next]_(Rx!vars) => [RxP!Next]_(RxP!vars)
<1> USE DEF Rx!ring, RxP!ring, Rx!locals, RxP!locals, Rx!endpoint, RxP!endpoint,
            Rx!ghosts, RxP!ghosts, Rx!Buffers, RxP!Buffers
<1>1. Rx!HostSend => RxP!HostSend
  BY DEF Rx!HostSend, RxP!HostSend, Rx!PacketArrives, RxP!PacketArrives, Rx!Ep!Retire,
         RxP!Ep!Retire
<1>2. Rx!Completions => RxP!Completions
  BY DEF Rx!Completions, RxP!Completions, Rx!IsrWalk, RxP!IsrWalk, Rx!Ep!Walk,
         RxP!Ep!Walk, Rx!rx_event, RxP!rx_event, Rx!StoreInRing, RxP!StoreInRing,
         Rx!Ep!Callback, RxP!Ep!Callback, Rx!Wrap, RxP!Wrap
<1>3. \A v \in {0, 1} : Rx!SetConfiguration(v) => RxP!SetConfiguration(v)
  BY DEF Rx!SetConfiguration, RxP!SetConfiguration, Rx!EmptyRing, RxP!EmptyRing,
         Rx!SafeToConfigure, RxP!SafeToConfigure, Rx!Ep!Configure, RxP!Ep!Configure
<1>4. Rx!BusReset => RxP!BusReset
  BY DEF Rx!BusReset, RxP!BusReset, Rx!Ep!Flush, RxP!Ep!Flush
<1>5. Rx!Task => RxP!Task
  BY DEF Rx!Task, RxP!Task, Rx!InTask, RxP!InTask, Rx!RecvCall, RxP!RecvCall,
         Rx!RecvCheckConfiguration, RxP!RecvCheckConfiguration, Rx!RecvPoll, RxP!RecvPoll,
         Rx!RecvTake, RxP!RecvTake, Rx!RecvLength, RxP!RecvLength, Rx!RecvAdvance,
         RxP!RecvAdvance, Rx!RecvCopy, RxP!RecvCopy, Rx!RecvRequeue, RxP!RecvRequeue,
         Rx!RecvReturn, RxP!RecvReturn, Rx!Ep!Schedule, RxP!Ep!Schedule, Rx!Wrap, RxP!Wrap
<1>6. Rx!Next => RxP!Next
  BY <1>1, <1>2, <1>3, <1>4, <1>5 DEF Rx!Next, RxP!Next
<1>7. Rx!vars = RxP!vars /\ Rx!vars' = RxP!vars'
  BY DEF Rx!vars, RxP!vars
<1> QED
  BY <1>6, <1>7

\* Both instances of the transmit path.
LEMMA TxSame ==
    /\ Tx!TypeOK <=> TxP!TypeOK
    /\ Tx!Init <=> TxP!Init
    /\ Tx!HostReadsWhatWasAccepted <=> TxP!HostReadsWhatWasAccepted
<1> USE DEF Tx!Transfers, TxP!Transfers
<1>1. Tx!TypeOK <=> TxP!TypeOK
  BY DEF Tx!TypeOK, TxP!TypeOK
<1>2. Tx!Init <=> TxP!Init
  BY DEF Tx!Init, TxP!Init, Tx!Ep!SilentInit, TxP!Ep!SilentInit
<1>3. Tx!HostReadsWhatWasAccepted <=> TxP!HostReadsWhatWasAccepted
  BY DEF Tx!HostReadsWhatWasAccepted, TxP!HostReadsWhatWasAccepted, Tx!InFlight,
         TxP!InFlight
<1> QED
  BY <1>1, <1>2, <1>3

\* Their steps, which the invariant knows without the bound on responses.
LEMMA TxSameSteps == [Tx!Next]_(Tx!vars) => [TxP!Steps]_(TxP!vars)
<1> USE DEF Tx!txEndpoint, TxP!txEndpoint, Tx!descriptors, TxP!descriptors, Tx!ghosts,
            TxP!ghosts, Tx!Transfers, TxP!Transfers
<1>1. Tx!HostRead => TxP!HostRead
  BY DEF Tx!HostRead, TxP!HostRead, Tx!ResponseLeaves, TxP!ResponseLeaves, Tx!Ep!Retire,
         TxP!Ep!Retire
<1>2. \A v \in {0, 1} : Tx!SetConfiguration(v) => TxP!SetConfiguration(v)
  BY DEF Tx!SetConfiguration, TxP!SetConfiguration, Tx!ResetTransfers, TxP!ResetTransfers,
         Tx!SafeToConfigure, TxP!SafeToConfigure, Tx!Ep!Configure, TxP!Ep!Configure
<1>3. Tx!BusReset => TxP!BusReset
  BY DEF Tx!BusReset, TxP!BusReset, Tx!Ep!Flush, TxP!Ep!Flush
<1>4. \A r \in Response : Tx!SendCall(r) => TxP!SendCall(r)
  BY DEF Tx!SendCall, TxP!SendCall
<1>5. Tx!Send => TxP!Send
  BY DEF Tx!Send, TxP!Send, Tx!SendCheckConfiguration, TxP!SendCheckConfiguration,
         Tx!SendTestStatus, TxP!SendTestStatus, Tx!SendFill, TxP!SendFill, Tx!SendPrepare,
         TxP!SendPrepare, Tx!PointToBuffer, TxP!PointToBuffer, Tx!SendTransmit,
         TxP!SendTransmit, Tx!ResponseAccepted, TxP!ResponseAccepted, Tx!Ep!Schedule,
         TxP!Ep!Schedule, Tx!SendBump, TxP!SendBump
<1>6. Tx!Next => TxP!Steps
  BY <1>1, <1>2, <1>3, <1>4, <1>5 DEF Tx!Next, TxP!Steps
<1>7. Tx!vars = TxP!vars /\ Tx!vars' = TxP!vars'
  BY DEF Tx!vars, TxP!vars
<1> QED
  BY <1>6, <1>7

-----------------------------------------------------------------------------
(* What is scheduled and what is yet to be, together.                      *)

\* The first part of it is the chain, and the first of the rest comes next.
LEMMA RxChainIs ==
    ASSUME chain \in Seq(Xfer), todo \in Seq(Xfer)
    PROVE  /\ Len(chain) \in Nat
           /\ Len(chain) =< Len(rxChain) /\ Len(rxChain) \in Nat
           /\ \A k \in 1 .. Len(chain) : rxChain[k] = chain[k]
           /\ todo # <<>> =>
                 /\ Len(chain) + 1 \in 1 .. Len(rxChain)
                 /\ rxChain[Len(chain) + 1] = Head(todo)
                 /\ Head(todo) \in Xfer /\ Tail(todo) \in Seq(Xfer)
<1>1. /\ Len(chain) \in Nat /\ Len(todo) \in Nat
      /\ todo # <<>> => /\ Len(todo) # 0 /\ Head(todo) = todo[1] /\ Head(todo) \in Xfer
                        /\ Tail(todo) \in Seq(Xfer)
  BY LenProperties, EmptySeq, HeadTailProperties
<1>2. /\ Len(rxChain) = Len(chain) + Len(todo)
      /\ \A k \in 1 .. Len(chain) + Len(todo) :
            rxChain[k] = IF k <= Len(chain) THEN chain[k] ELSE todo[k - Len(chain)]
  BY ConcatProperties, Zenon DEF rxChain
<1>3. ASSUME todo # <<>>
      PROVE  /\ Len(chain) + 1 \in 1 .. Len(rxChain)
             /\ rxChain[Len(chain) + 1] = Head(todo)
  <2>1. Len(chain) + 1 \in 1 .. Len(chain) + Len(todo)
    BY <1>1, <1>3
  <2>2. (Len(chain) + 1) - Len(chain) = 1 /\ ~(Len(chain) + 1 <= Len(chain))
    BY <1>1
  <2> QED
    BY <1>1, <1>2, <1>3, <2>1, <2>2
<1> QED
  BY <1>1, <1>2, <1>3

\* Scheduling the first of the rest only moves the border.
LEMMA BorderMoves ==
    ASSUME NEW c \in Seq(Xfer), NEW s \in Seq(Xfer), s # <<>>
    PROVE  Append(c, Head(s)) \o Tail(s) = c \o s
<1>1. Head(s) \in Xfer /\ Head(s) = s[1] /\ Tail(s) \in Seq(Xfer)
  BY HeadTailProperties
<1>2. 1 \in 1 .. Len(s) /\ Len(s) \in 1 .. Len(s)
  BY EmptySeq
<1>3. <<Head(s)>> \o Tail(s) = s
  <2>1. SubSeq(s, 1, Len(s)) = <<s[1]>> \o SubSeq(s, 1 + 1, Len(s))
    BY <1>2, SubSeqRecursiveFirst, Zenon
  <2>2. Tail(s) = SubSeq(s, 2, Len(s))
    BY TailIsSubSeq, Zenon
  <2>3. SubSeq(s, 1, Len(s)) = s
    BY SubSeqFull, Zenon
  <2>4. 1 + 1 = 2
    OBVIOUS
  <2> QED
    BY <1>1, <2>1, <2>2, <2>3, <2>4, Zenon
<1>4. ASSUME NEW h \in Seq(Xfer), NEW r \in Seq(Xfer)
      PROVE  (c \o h) \o r = c \o (h \o r)
  BY ConcatAssociative
<1>5. <<Head(s)>> \in Seq(Xfer)
  BY <1>1
<1>6. Append(c, Head(s)) = c \o <<Head(s)>>
  BY <1>1, AppendIsConcat, Zenon
<1> QED
  BY <1>1, <1>3, <1>4, <1>5, <1>6, Zenon

-----------------------------------------------------------------------------
(* The list's steps, as steps of the queue the receive path is written on. *)

\* When nothing is yet to be scheduled the two agree.
LEMMA RxEndpoint ==
    ASSUME chain \in Seq(Xfer), chain' \in Seq(Xfer), todo = <<>>, todo' = <<>>
    PROVE  /\ rxChain = chain /\ rxChain' = chain'
           /\ Fifo!Retire => Rx!Ep!Retire
           /\ \A n : Fifo!Walk(n) => Rx!Ep!Walk(n)
           /\ \A x : Fifo!Callback(x) => Rx!Ep!Callback(x)
           /\ \A x : Fifo!Schedule(x) => Rx!Ep!Schedule(x)
           /\ Fifo!Flush => Rx!Ep!Flush
<1>1. rxChain = chain /\ rxChain' = chain'
  BY ConcatEmptySeq, Zenon DEF rxChain
<1> QED
  BY <1>1 DEF Fifo!Retire, Fifo!Walk, Fifo!Callback, Fifo!Schedule, Fifo!Flush,
              Rx!Ep!Retire, Rx!Ep!Walk, Rx!Ep!Callback, Rx!Ep!Schedule, Rx!Ep!Flush,
              rxDue, rxIrq

\* What that queue does not see of the list, nor of the loop that fills it.
LEMMA RxEndpointStutters ==
    ASSUME UNCHANGED Fifo!fifoVars, UNCHANGED todo
    PROVE  UNCHANGED Rx!endpoint
BY DEF Fifo!fifoVars, Rx!endpoint, rxChain, rxDue, rxIrq

\* A transfer that the loop schedules counted as scheduled before.
LEMMA RxEndpointFills ==
    ASSUME chain \in Seq(Xfer), todo \in Seq(Xfer), todo # <<>>,
           Fifo!Schedule(Head(todo)), todo' = Tail(todo)
    PROVE  UNCHANGED Rx!endpoint
<1>1. chain' = Append(chain, Head(todo))
      /\ UNCHANGED <<Retired, Due, Irq, live>>
  BY DEF Fifo!Schedule, Due, Irq
<1>2. rxChain' = rxChain
  BY <1>1, BorderMoves, Zenon DEF rxChain
<1> QED
  BY <1>1, <1>2 DEF Rx!endpoint, rxDue, rxIrq, Due, Irq

\* A configuration schedules all at once.
LEMMA RxEndpointConfigures ==
    ASSUME NEW on \in BOOLEAN, Fifo!Configure(<<>>, on),
           todo' = [k \in 1 .. N |-> k - 1]
    PROVE  Rx!Ep!Configure([k \in 1 .. N |-> k - 1], on) /\ todo' \in Seq(Xfer)
<1>1. todo' \in Seq(Xfer)
  <2>1. [k \in 1 .. N |-> k - 1] \in [1 .. N -> Xfer]
    BY NAssumption DEF Xfer
  <2> QED
    BY <2>1, NAssumption, SeqDef
<1>2. chain' = <<>>
  BY DEF Fifo!Configure
<1>3. rxChain' = todo'
  BY <1>1, <1>2, ConcatEmptySeq, Zenon DEF rxChain
<1> QED
  BY <1>1, <1>3 DEF Fifo!Configure, Rx!Ep!Configure, rxDue, rxIrq

-----------------------------------------------------------------------------
(* The inductive invariant.  The halves' own invariants carry over as they *)
(* are; what is new says where the call of schedule_transfer stands.       *)

\* An active transfer is in the list, or about to enter it.
ActiveListed ==
    \A x \in Xfer : act[x] => x \in Elements \/ (swPc = "begin" /\ x = transfer)

\* The transfer that is prepared is the loop's next one, or recv's; the ISR does
\* nothing else while the loop is at work.
ReceiveLink ==
    /\ sendPc = "idle"
    /\ todo # <<>> => isrPc = "idle"
    /\ swPc = "begin" =>
          IF todo # <<>> THEN transfer = Head(todo)
                         ELSE recvPc = "requeue" /\ transfer = i

\* The transfer that is prepared is send's; tx_head, or the one after it, is the one
\* whose turn it is.
TransmitLink ==
    /\ todo = <<>> /\ recvPc = "idle"
    /\ swPc = "begin" => sendPc = "transmit" /\ transfer = xfer
    /\ turn = IF sendPc \in {"transmit", "bump"} THEN Succ(tx_head) ELSE tx_head

UsbInv ==
    /\ QueueInv
    /\ todo \in Seq(Xfer)
    /\ callback => RxP!TypeOK /\ RxP!RxInv /\ ReceiveLink /\ ActiveListed
    /\ ~callback => TxP!TypeOK /\ TxP!TxInv /\ TransmitLink

-----------------------------------------------------------------------------
(* Every step is one of the list's.                                        *)

\* What recv and send hand over is a transfer, and so is the loop's next one.
LEMMA TransfersHandedOver ==
    ASSUME UsbInv
    PROVE  /\ chain \in Seq(Xfer)
           /\ callback => i \in Xfer
           /\ ~callback => xfer \in Xfer
           /\ todo # <<>> => callback /\ Head(todo) \in Xfer
<1>1. chain \in Seq(Xfer)
  BY DEF UsbInv, QueueInv, TypeOK
<1>2. callback => i \in Xfer
  BY DEF UsbInv, RxP!TypeOK, RxP!Buffers, Xfer
<1>3. ~callback => xfer \in Xfer
  BY DEF UsbInv, TxP!TypeOK, TxP!Transfers, Xfer
<1>4. todo # <<>> => callback /\ Head(todo) \in Xfer
  BY <1>1, RxChainIs DEF UsbInv, TransmitLink
<1> QED
  BY <1>1, <1>2, <1>3, <1>4

\* So the list's invariant holds after it, and callback is what it was.
LEMMA QueueStep ==
    ASSUME UsbInv, callback \/ N > 1, [UsbNext]_usbVars
    PROVE  [Next]_vars /\ QueueInv' /\ callback' = callback /\ chain' \in Seq(Xfer)
<1>1. [Next]_vars
  <2>1. CASE ListStep
    BY <2>1 DEF ListStep, Next, Scheduling, Isr
  <2>2. ASSUME NEW v \in {0, 1}, SetConfiguration(v)
        PROVE  Next
    <3>1. Configure(v # 0) /\ (v # 0) \in BOOLEAN
      BY <2>2 DEF SetConfiguration
    <3> QED
      BY <3>1 DEF Next
  <2>3. CASE ReceiveNext
    BY <2>3, TransfersHandedOver
    DEF ReceiveNext, LoopPrepare, LoopReceive, HostSend, rx_event, Recv, RecvPrepare,
        RecvReceive, TaskRuns, Next, Scheduling, Isr
  <2>4. CASE TransmitNext
    BY <2>4, TransfersHandedOver
    DEF TransmitNext, HostRead, Send, SendPrepare, SendTransmit, Next, Scheduling
  <2>5. CASE UNCHANGED usbVars
    BY <2>5 DEF usbVars
  <2> QED
    BY <2>1, <2>2, <2>3, <2>4, <2>5 DEF UsbNext
<1>2. QueueInv' /\ callback' = callback
  BY <1>1, StepHolds, CallbackStays DEF UsbInv
<1>3. chain' \in Seq(Xfer)
  BY <1>2 DEF QueueInv, TypeOK
<1> QED
  BY <1>1, <1>2, <1>3

\* A transfer is active from its preparation to its completion, and in the list for
\* longer than that.
LEMMA ActiveListedStep ==
    ASSUME QueueInv, callback, ActiveListed, [Next]_vars
    PROVE  ActiveListed'
<1> USE DEF ActiveListed, Elements
<1>1. CASE UNCHANGED <<act, chain, swPc, transfer>>
  BY <1>1
<1>2. CASE HwRetire
  BY <1>2 DEF HwRetire, scheduler, QueueInv, TypeOK
<1>3. ASSUME NEW x \in Xfer, Prepare(x) PROVE ActiveListed'
  BY <1>3 DEF Prepare, Software, QueueInv, TypeOK
<1>4. CASE Begin
  <2>1. act' = act /\ chain' = Append(chain, transfer) /\ transfer \in Xfer
        /\ chain \in Seq(Xfer)
    BY <1>4 DEF Begin, QueueInv, TypeOK
  <2>2. /\ Len(chain) \in Nat /\ Len(chain') = Len(chain) + 1
        /\ \A k \in 1 .. Len(chain) : chain'[k] = chain[k]
        /\ chain'[Len(chain) + 1] = transfer
    BY <2>1, AppendProperties, LenProperties
  <2> QED
    BY <2>1, <2>2
<1>5. CASE Scheduling /\ ~Begin
  BY <1>1, <1>5
  DEF Scheduling, CheckPrime, SetTripwire, ReadStatus, TestTripwire, Rearm, Prime, End,
      Software, descriptors
<1>6. CASE IsrCallback
  <2>1. chain \in Seq(Xfer) /\ chain # <<>> /\ first = chain[1] /\ ~act[chain[1]]
    BY <1>6 DEF IsrCallback, QueueInv, TypeOK, WalkInv
  <2>2. chain' = Tail(chain)
    BY <1>6, <2>1, WithoutFirst DEF IsrCallback
  <2>3. /\ Len(chain) \in Nat /\ Len(chain') = Len(chain) - 1
        /\ \A k \in 1 .. Len(chain') : chain'[k] = chain[k + 1]
    BY <2>1, <2>2, HeadTailProperties, LenProperties
  <2>4. \A k \in 2 .. Len(chain) : k - 1 \in 1 .. Len(chain') /\ chain'[k - 1] = chain[k]
    BY <2>3
  <2>5. \A x \in Elements : x = chain[1] \/ x \in Elements'
    BY <2>3, <2>4
  <2> QED
    BY <1>6, <2>1, <2>5 DEF IsrCallback, descriptors, scheduler
<1>7. CASE Controller \/ IsrAcknowledge \/ IsrCount \/ IsrStop \/ BusReset \/ UNCHANGED vars
  BY <1>1, <1>7 DEF Controller, HwPrime, HwAdvance, IsrAcknowledge, IsrCount, IsrStop,
                    BusReset, vars, descriptors, scheduler
<1>8. ASSUME NEW on \in BOOLEAN, Configure(on) PROVE ActiveListed'
  BY <1>8 DEF Configure
<1> QED
  BY <1>2, <1>3, <1>4, <1>5, <1>6, <1>7, <1>8 DEF Next, Isr

-----------------------------------------------------------------------------
(* On the OUT endpoint, every step is one of the receive path.             *)

\* Steps that leave the receive path alone, whatever they do to the list.
LEMMA RxUnseen ==
    ASSUME UNCHANGED Rx!endpoint, UNCHANGED <<usb_configuration, configs, rxVars>>
    PROVE  UNCHANGED Rx!vars
BY DEF rxVars, Rx!vars, Rx!ring, Rx!locals, Rx!ghosts

\* The list's own steps: the walk, the bus reset, and those that are not seen.
LEMMA ReceiveListStep ==
    ASSUME UsbInv, callback, chain' \in Seq(Xfer), ListStep
    PROVE  [Rx!Next]_(Rx!vars)
<1>1. QueueInv /\ ReceiveLink /\ chain \in Seq(Xfer)
  BY TransfersHandedOver DEF UsbInv
<1>2. UNCHANGED todo /\ UNCHANGED <<usb_configuration, configs, rxVars>>
  BY DEF ListStep, clients
<1>3. CASE UNCHANGED Fifo!fifoVars
  BY <1>2, <1>3, RxEndpointStutters, RxUnseen
<1>4. CASE \/ Controller \/ CheckPrime \/ SetTripwire \/ ReadStatus \/ TestTripwire
           \/ Rearm \/ Prime \/ End
  <2>1. UNCHANGED <<chain, live, act, isrPc, count, complete>>
    BY <1>4 DEF Controller, HwPrime, HwAdvance, CheckPrime, SetTripwire, ReadStatus,
                TestTripwire, Rearm, Prime, End, descriptors, registers, controller, isr
  <2>2. UNCHANGED Fifo!fifoVars
    BY <2>1, RetiredIsRetiredOf DEF Fifo!fifoVars
  <2> QED
    BY <1>3, <2>2
<1>5. CASE IsrCount \/ IsrStop \/ (IsrMayRun /\ IsrAcknowledge)
  <2>1. todo = <<>> /\ todo' = <<>>
    BY <1>1, <1>2, <1>5 DEF ReceiveLink, IsrCount, IsrStop, IsrMayRun
  <2>2. CASE \E n \in 0 .. Len(chain) : Fifo!Walk(n)
    <3>1. PICK n \in 0 .. Len(chain) : Fifo!Walk(n)
      BY <2>2
    <3>2. Rx!Ep!Walk(n) /\ n \in 0 .. Retired
      BY <1>1, <2>1, <3>1, RxEndpoint DEF Fifo!Walk
    <3>3. Rx!IsrWalk(n)
      BY <1>2, <3>2 DEF Rx!IsrWalk, rxVars, Rx!ring, Rx!locals, Rx!ghosts
    <3> QED
      BY <3>2, <3>3 DEF Rx!Next, Rx!Completions
  <2> QED
    BY <1>1, <1>3, <1>5, <2>2, FifoWalks
<1>6. CASE IsrMayRun /\ BusReset
  <2>1. todo = <<>> /\ todo' = <<>> /\ live
    BY <1>2, <1>6 DEF IsrMayRun, BusReset
  <2>2. Rx!Ep!Flush
    BY <1>1, <1>6, <2>1, FifoResets, RxEndpoint
  <2>3. Rx!BusReset
    BY <1>2, <2>1, <2>2 DEF Rx!BusReset, rxVars, Rx!ring, Rx!locals, Rx!ghosts
  <2> QED
    BY <2>3 DEF Rx!Next
<1> QED
  BY <1>4, <1>5, <1>6 DEF ListStep

\* A configuration empties the ring and queues every buffer, as one step.
LEMMA ReceiveConfigureStep ==
    ASSUME QueueInv, callback, NEW v \in {0, 1}, SetConfiguration(v)
    PROVE  Rx!SetConfiguration(v) /\ todo' \in Seq(Xfer)
<1>1. Configure(v # 0) /\ Rx!EmptyRing(v) /\ todo' = [k \in 1 .. N |-> k - 1]
  BY DEF SetConfiguration
<1>2. (v # 0) \in BOOLEAN
  OBVIOUS
<1>3. Fifo!Configure(<<>>, v # 0)
  BY <1>1, <1>2, FifoResets
<1>4. Rx!Ep!Configure([k \in 1 .. N |-> k - 1], v # 0) /\ todo' \in Seq(Xfer)
  BY <1>1, <1>2, <1>3, RxEndpointConfigures
<1> QED
  BY <1>1, <1>4 DEF Rx!SetConfiguration

\* The loop of the configuration is not seen; the others are what their names say.
LEMMA ReceivePathStep ==
    ASSUME UsbInv, callback, chain' \in Seq(Xfer), ReceiveNext
    PROVE  [Rx!Next]_(Rx!vars) /\ todo' \in Seq(Xfer)
<1>1. QueueInv /\ ReceiveLink /\ chain \in Seq(Xfer) /\ todo \in Seq(Xfer)
  BY TransfersHandedOver DEF UsbInv
<1>2. CASE LoopPrepare \/ RecvPrepare
  <2>1. UNCHANGED <<todo, clients>>
    BY <1>2 DEF LoopPrepare, RecvPrepare
  <2>2. UNCHANGED Fifo!fifoVars
    BY <1>1, <1>2, TransfersHandedOver, FifoPrepares DEF LoopPrepare, RecvPrepare
  <2> QED
    BY <1>1, <2>1, <2>2, RxEndpointStutters, RxUnseen DEF clients
<1>3. CASE LoopReceive
  <2>1. todo # <<>> /\ Begin /\ todo' = Tail(todo) /\ UNCHANGED clients
    BY <1>3 DEF LoopReceive
  <2>2. transfer = Head(todo)
    BY <1>1, <2>1 DEF ReceiveLink, Begin, Software
  <2>3. Fifo!Schedule(Head(todo))
    BY <1>1, <2>1, <2>2, FifoSchedules
  <2>4. todo' \in Seq(Xfer)
    BY <1>1, <2>1, RxChainIs
  <2> QED
    BY <1>1, <2>1, <2>3, <2>4, RxEndpointFills, RxUnseen DEF clients
<1>4. CASE HostSend
  <2>1. /\ HwRetire /\ Rx!PacketArrives(cur)
        /\ todo = <<>> /\ todo' = <<>>
    BY <1>4 DEF HostSend
  <2>2. Rx!Ep!Retire /\ cur = rxChain[Retired + 1]
    BY <1>1, <2>1, FifoRetires, RxEndpoint
  <2>3. Rx!HostSend
    BY <2>1, <2>2 DEF Rx!HostSend
  <2> QED
    BY <1>1, <2>1, <2>3 DEF Rx!Next
<1>5. CASE rx_event
  <2>1. IsrCallback /\ Rx!StoreInRing(first) /\ UNCHANGED todo
    BY <1>5 DEF rx_event
  <2>2. todo = <<>> /\ todo' = <<>>
    BY <1>1, <2>1 DEF ReceiveLink, IsrCallback
  <2>3. first \in Xfer /\ Rx!Ep!Callback(first)
    BY <1>1, <2>1, <2>2, FifoCallsBack, RxEndpoint
  <2>4. Rx!rx_event(first) /\ first \in Rx!Buffers
    BY <2>1, <2>3 DEF Rx!rx_event, Rx!Buffers, Xfer
  <2> QED
    BY <1>1, <2>2, <2>4 DEF Rx!Next, Rx!Completions
<1>6. CASE Recv
  BY <1>1, <1>6 DEF Recv, Rx!Next, Rx!Task
<1>7. CASE RecvReceive
  <2>1. Begin /\ Rx!RecvReturn /\ todo = <<>> /\ todo' = <<>>
    BY <1>7 DEF RecvReceive
  <2>2. transfer = i
    BY <1>1, <2>1 DEF ReceiveLink, Begin, Software
  <2>3. Fifo!Schedule(i)
    BY <1>1, <2>1, <2>2, FifoSchedules
  <2>4. Rx!Ep!Schedule(i)
    BY <1>1, <2>1, <2>3, RxEndpoint
  <2> QED
    BY <1>1, <2>1, <2>4 DEF Rx!Next, Rx!Task, Rx!RecvRequeue
<1> QED
  BY <1>2, <1>3, <1>4, <1>5, <1>6, <1>7 DEF ReceiveNext

\* All of them.
LEMMA ReceiveStep ==
    ASSUME UsbInv, callback, [UsbNext]_usbVars
    PROVE  [Rx!Next]_(Rx!vars) /\ todo' \in Seq(Xfer)
<1>1. QueueInv /\ todo \in Seq(Xfer) /\ chain' \in Seq(Xfer)
  BY QueueStep DEF UsbInv
<1>2. CASE ListStep
  BY <1>1, <1>2, ReceiveListStep DEF ListStep
<1>3. ASSUME NEW v \in {0, 1}, SetConfiguration(v)
      PROVE  Rx!Next /\ todo' \in Seq(Xfer)
  BY <1>1, <1>3, ReceiveConfigureStep DEF Rx!Next
<1>4. CASE ReceiveNext
  BY <1>1, <1>4, ReceivePathStep
<1>5. ~TransmitNext
  BY DEF TransmitNext, HostRead, Send, SendPrepare, SendTransmit
<1>6. CASE UNCHANGED usbVars
  <2>1. UNCHANGED <<chain, act, todo, isrPc, count, complete, live, clients>>
    BY <1>6 DEF usbVars, vars, descriptors, isr, registers, controller
  <2>2. UNCHANGED Fifo!fifoVars
    BY <2>1, RetiredIsRetiredOf DEF Fifo!fifoVars
  <2> QED
    BY <1>1, <2>1, <2>2, RxEndpointStutters, RxUnseen DEF clients
<1> QED
  BY <1>2, <1>3, <1>4, <1>5, <1>6 DEF UsbNext

\* The call of schedule_transfer stays where the invariant says it is.
LEMMA ReceiveLinkStep ==
    ASSUME UsbInv, callback, [UsbNext]_usbVars
    PROVE  ReceiveLink'
<1> USE DEF ReceiveLink
<1>1. ReceiveLink
  BY DEF UsbInv
<1>2. CASE ListStep
  <2>1. /\ UNCHANGED <<todo, sendPc, recvPc, i, transfer>>
        /\ swPc' = "begin" => swPc = "begin"
        /\ isrPc' # isrPc => isrPc # "idle" \/ todo = <<>>
    BY <1>2
    DEF ListStep, clients, rxVars, txVars, Controller, HwPrime, HwAdvance,
        CheckPrime, SetTripwire, ReadStatus, TestTripwire, Rearm, Prime, End,
        IsrAcknowledge, IsrCount, IsrStop, BusReset, IsrMayRun, scheduler, isr
  <2> QED
    BY <1>1, <2>1
<1>3. ASSUME NEW v \in {0, 1}, SetConfiguration(v) PROVE ReceiveLink'
  <2>1. swPc' = "idle" /\ isrPc' = "idle" /\ UNCHANGED sendPc
    BY <1>3 DEF SetConfiguration, Configure, InIsr, isr, txVars
  <2> QED
    BY <1>1, <2>1
<1>4. CASE LoopPrepare \/ RecvPrepare
  <2>1. /\ swPc' = "begin" /\ isrPc' = "idle" /\ UNCHANGED <<todo, sendPc, recvPc, i>>
        /\ \/ todo # <<>> /\ transfer' = Head(todo)
           \/ todo = <<>> /\ recvPc = "requeue" /\ transfer' = i
    BY <1>4 DEF LoopPrepare, RecvPrepare, TaskRuns, Prepare, Software, InIsr, isr,
                clients, rxVars, txVars
  <2> QED
    BY <1>1, <2>1
<1>5. CASE LoopReceive \/ RecvReceive
  <2>1. swPc' # "begin" /\ isrPc' = "idle" /\ UNCHANGED sendPc
    BY <1>5 DEF LoopReceive, RecvReceive, Begin, Software, InIsr, isr, clients, txVars
  <2> QED
    BY <1>1, <2>1
<1>6. CASE HostSend \/ rx_event
  <2>1. UNCHANGED <<todo, sendPc, recvPc, i, transfer, swPc>>
    BY <1>6 DEF HostSend, Rx!PacketArrives, rx_event, Rx!StoreInRing, Rx!locals, txVars,
                HwRetire, IsrCallback, scheduler
  <2>2. todo = <<>>
    BY <1>1, <1>6 DEF HostSend, rx_event, IsrCallback
  <2> QED
    BY <1>1, <2>1, <2>2
<1>7. CASE Recv
  <2>1. todo = <<>> /\ swPc # "begin" /\ UNCHANGED <<todo, swPc, sendPc>>
    BY <1>7 DEF Recv, TaskRuns, vars, scheduler, txVars
  <2> QED
    BY <1>1, <2>1
<1>8. CASE UNCHANGED usbVars
  BY <1>1, <1>8 DEF usbVars, vars, scheduler, isr, clients, rxVars, txVars
<1>9. ~TransmitNext
  BY DEF TransmitNext, HostRead, Send, SendPrepare, SendTransmit
<1> QED
  BY <1>2, <1>3, <1>4, <1>5, <1>6, <1>7, <1>8, <1>9 DEF UsbNext, ReceiveNext

-----------------------------------------------------------------------------
(* On the IN endpoint, every step is one of the transmit path.             *)

\* The steps of the receive path and of the ISR's walk are not taken there.
LEMMA NotReceiving ==
    ASSUME UsbInv, ~callback
    PROVE  ~ReceiveNext /\ ~IsrAcknowledge /\ ~IsrCount /\ ~IsrStop
<1>1. isrPc = "idle" /\ ~complete /\ todo = <<>>
  BY DEF UsbInv, TransmitLink, QueueInv, TypeOK, WalkInv
<1> QED
  BY <1>1 DEF ReceiveNext, LoopPrepare, LoopReceive, HostSend, rx_event, Recv,
              RecvPrepare, RecvReceive, IsrAcknowledge, IsrCount, IsrStop,
              IsrCallback

\* The list's own steps are not seen, but for the bus reset.
LEMMA TransmitListStep ==
    ASSUME UsbInv, ~callback, ListStep
    PROVE  [Tx!Next]_(Tx!vars)
<1>1. UNCHANGED <<usb_configuration, configs, txVars>>
  BY DEF ListStep, clients
<1>2. CASE BusReset
  BY <1>1, <1>2 DEF BusReset, descriptors, Tx!BusReset, Tx!Ep!Flush, Tx!descriptors,
                    Tx!ghosts, Tx!Next, txVars
<1>3. CASE \/ Controller \/ CheckPrime \/ SetTripwire \/ ReadStatus \/ TestTripwire
           \/ Rearm \/ Prime \/ End
  <2>1. UNCHANGED <<chain, live, act>>
    BY <1>3 DEF Controller, HwPrime, HwAdvance, CheckPrime, SetTripwire, ReadStatus,
                TestTripwire, Rearm, Prime, End, descriptors, controller
  <2> QED
    BY <1>1, <2>1 DEF Tx!vars, Tx!descriptors, Tx!txEndpoint, Tx!ghosts, txVars
<1> QED
  BY <1>2, <1>3, NotReceiving DEF ListStep

\* The host reads, and send prepares and schedules, what the path says.
LEMMA TransmitPathStep ==
    ASSUME UsbInv, ~callback, TransmitNext
    PROVE  Tx!Next
<1>1. QueueInv /\ TransmitLink
  BY DEF UsbInv
<1>2. CASE HostRead
  <2>1. HwRetire /\ Tx!ResponseLeaves(cur)
    BY <1>2 DEF HostRead
  <2>2. PICK k \in 1 .. Len(chain) : chain[k] = cur /\ k = 1
    BY <1>1, <2>1, RetiredIs
  <2>3. chain \in Seq(Xfer) /\ chain # <<>> /\ Head(chain) = cur
    BY <1>1, <2>2 DEF QueueInv, TypeOK
  <2>4. chain' = Tail(chain)
    BY <1>1, <2>1, <2>2, <2>3, WithoutFirst DEF HwRetire
  <2>5. act' = [act EXCEPT ![cur] = FALSE] /\ live /\ UNCHANGED live
    BY <2>1 DEF HwRetire
  <2>6. Tx!HostRead
    BY <2>1, <2>3, <2>4, <2>5 DEF Tx!HostRead, Tx!Ep!Retire
  <2> QED
    BY <2>6 DEF Tx!Next
<1>3. CASE Send
  BY <1>3 DEF Send, Tx!Next, Tx!Send
<1>4. CASE SendPrepare
  <2>1. Tx!PointToBuffer /\ act' = [act EXCEPT ![xfer] = TRUE] /\ UNCHANGED <<chain, live>>
    BY <1>4 DEF SendPrepare, Prepare, controller
  <2>2. Tx!SendPrepare
    BY <2>1 DEF Tx!SendPrepare, Tx!txEndpoint
  <2> QED
    BY <2>2 DEF Tx!Next, Tx!Send
<1>5. CASE SendTransmit
  <2>1. Begin /\ Tx!ResponseAccepted
    BY <1>5 DEF SendTransmit
  <2>2. transfer = xfer
    BY <1>1, <2>1 DEF TransmitLink, Begin, Software
  <2>3. chain' = Append(chain, xfer) /\ UNCHANGED <<live, act>>
    BY <2>1, <2>2 DEF Begin
  <2>4. Tx!SendTransmit
    BY <2>1, <2>3 DEF Tx!SendTransmit, Tx!Ep!Schedule
  <2> QED
    BY <2>4 DEF Tx!Next, Tx!Send
<1> QED
  BY <1>2, <1>3, <1>4, <1>5 DEF TransmitNext

\* All of them.
LEMMA TransmitStep ==
    ASSUME UsbInv, ~callback, [UsbNext]_usbVars
    PROVE  [Tx!Next]_(Tx!vars)
<1>1. CASE ListStep
  BY <1>1, TransmitListStep
<1>2. ASSUME NEW v \in {0, 1}, SetConfiguration(v)
      PROVE  Tx!Next
  <2>1. Configure(v # 0) /\ Tx!ResetTransfers(v)
    BY <1>2 DEF SetConfiguration
  <2>2. Tx!SetConfiguration(v)
    BY <2>1 DEF Configure, Tx!SetConfiguration, Tx!Ep!Configure, Tx!Transfers, Xfer
  <2> QED
    BY <2>2 DEF Tx!Next
<1>3. CASE TransmitNext
  BY <1>3, TransmitPathStep
<1>4. CASE UNCHANGED usbVars
  BY <1>4 DEF usbVars, vars, descriptors, controller, clients, txVars, Tx!vars,
              Tx!descriptors, Tx!txEndpoint, Tx!ghosts
<1> QED
  BY <1>1, <1>2, <1>3, <1>4, NotReceiving DEF UsbNext

\* send prepares and schedules the transfer whose turn it is.
LEMMA TransmitLinkStep ==
    ASSUME UsbInv, ~callback, [UsbNext]_usbVars
    PROVE  TransmitLink'
<1> USE DEF TransmitLink, Succ
<1>1. TransmitLink
  BY DEF UsbInv
<1>2. CASE ListStep
  <2>1. /\ UNCHANGED <<todo, recvPc, sendPc, transfer, xfer, turn, tx_head>>
        /\ swPc' = "begin" => swPc = "begin"
    BY <1>2
    DEF ListStep, clients, rxVars, txVars, Controller, HwPrime, HwAdvance,
        CheckPrime, SetTripwire, ReadStatus, TestTripwire, Rearm, Prime, End,
        IsrAcknowledge, IsrCount, IsrStop, BusReset, scheduler
  <2> QED
    BY <1>1, <2>1
<1>3. ASSUME NEW v \in {0, 1}, SetConfiguration(v) PROVE TransmitLink'
  <2>1. /\ swPc' = "idle" /\ turn' = 0 /\ tx_head' = 0 /\ UNCHANGED <<todo, recvPc, sendPc>>
        /\ sendPc \in {"idle", "config", "status"}
    BY <1>3 DEF SetConfiguration, Configure, Tx!ResetTransfers, Tx!SafeToConfigure, rxVars
  <2> QED
    BY <1>1, <2>1
<1>4. CASE HostRead
  <2>1. UNCHANGED <<todo, recvPc, sendPc, swPc, transfer, xfer, turn, tx_head>>
    BY <1>4 DEF HostRead, HwRetire, Tx!ResponseLeaves, rxVars, scheduler
  <2> QED
    BY <1>1, <2>1
<1>5. CASE Send
  <2>1. /\ UNCHANGED <<todo, recvPc, swPc, turn>> /\ swPc # "begin"
        /\ \/ sendPc \notin {"transmit", "bump"} /\ sendPc' \notin {"transmit", "bump"}
              /\ UNCHANGED tx_head
           \/ /\ sendPc = "bump" /\ sendPc' = "idle"
              /\ tx_head' = IF tx_head + 1 >= N THEN 0 ELSE tx_head + 1
    BY <1>5 DEF Send, TaskRuns, vars, scheduler, rxVars, Tx!SendCall,
                Tx!SendCheckConfiguration, Tx!SendTestStatus, Tx!SendFill, Tx!SendBump
  <2> QED
    BY <1>1, <2>1
<1>6. CASE SendPrepare
  <2>1. /\ swPc' = "begin" /\ transfer' = xfer /\ sendPc = "prepare" /\ sendPc' = "transmit"
        /\ UNCHANGED <<todo, recvPc, xfer, tx_head>>
        /\ turn' = IF turn + 1 >= N THEN 0 ELSE turn + 1
    BY <1>6 DEF SendPrepare, Prepare, Tx!PointToBuffer, rxVars
  <2> QED
    BY <1>1, <2>1
<1>7. CASE SendTransmit
  <2>1. /\ swPc' # "begin" /\ sendPc = "transmit" /\ sendPc' = "bump"
        /\ UNCHANGED <<todo, recvPc, tx_head, turn>>
    BY <1>7 DEF SendTransmit, Begin, Tx!ResponseAccepted, rxVars
  <2> QED
    BY <1>1, <2>1
<1>8. CASE UNCHANGED usbVars
  BY <1>1, <1>8 DEF usbVars, vars, scheduler, clients, rxVars, txVars
<1> QED
  BY <1>2, <1>3, <1>4, <1>5, <1>6, <1>7, <1>8, NotReceiving DEF UsbNext, TransmitNext

-----------------------------------------------------------------------------
(* The invariant.                                                          *)

\* Initially nothing is scheduled and no call is under way.
LEMMA UsbInvInit == UsbInit => UsbInv
<1> SUFFICES ASSUME UsbInit PROVE UsbInv
  OBVIOUS
<1>1. QueueInv
  BY InitHolds DEF UsbInit
<1>2. todo = <<>> /\ todo \in Seq(Xfer)
  BY EmptySeq DEF UsbInit
<1>3. RxP!TypeOK /\ RxP!RxInv
  BY RxSame, RxFacts DEF UsbInit
<1>4. TxP!TypeOK /\ TxP!TxInv
  BY TxSame, TxFacts DEF UsbInit
<1>5. /\ swPc = "unconfigured" /\ turn = 0 /\ act = [x \in Xfer |-> FALSE]
      /\ sendPc = "idle" /\ recvPc = "idle" /\ tx_head = 0
  BY DEF UsbInit, Init, Rx!Init, Tx!Init
<1>6. ReceiveLink /\ TransmitLink /\ ActiveListed
  BY <1>2, <1>5 DEF ReceiveLink, TransmitLink, ActiveListed
<1> QED
  BY <1>1, <1>2, <1>3, <1>4, <1>6 DEF UsbInv

\* It survives every step.
LEMMA UsbInvStep ==
    ASSUME UsbInv, callback \/ N > 1, [UsbNext]_usbVars
    PROVE  UsbInv' /\ callback' = callback
<1>1. [Next]_vars /\ QueueInv' /\ callback' = callback
  BY QueueStep
<1>2. CASE callback
  <2>1. todo' \in Seq(Xfer) /\ [RxP!Next]_(RxP!vars)
    BY <1>2, ReceiveStep, RxSameSteps
  <2>2. RxP!TypeOK' /\ RxP!RxInv'
    BY <1>2, <2>1, RxFacts DEF UsbInv
  <2>3. ReceiveLink' /\ ActiveListed'
    BY <1>1, <1>2, ReceiveLinkStep, ActiveListedStep DEF UsbInv
  <2> QED
    BY <1>1, <1>2, <2>1, <2>2, <2>3 DEF UsbInv
<1>3. CASE ~callback
  <2>1. [TxP!Steps]_(TxP!vars)
    BY <1>3, TransmitStep, TxSameSteps
  <2>2. TxP!TypeOK' /\ TxP!TxInv'
    BY <1>3, <2>1, TxFacts DEF UsbInv
  <2>3. TransmitLink'
    BY <1>3, TransmitLinkStep
  <2>4. todo' \in Seq(Xfer)
    BY <2>3, EmptySeq DEF TransmitLink
  <2> QED
    BY <1>1, <1>3, <2>2, <2>3, <2>4 DEF UsbInv
<1> QED
  BY <1>1, <1>2, <1>3

\* An endpoint is one of the two for good.
LEMMA EndpointStays == [UsbNext]_usbVars => callback' = callback
<1>1. \A x : Prepare(x) => callback' = callback
  BY DEF Prepare
<1>2. \A on : Configure(on) => callback' = callback
  BY DEF Configure
<1>3. HwRetire \/ IsrCallback \/ Begin => callback' = callback
  BY DEF HwRetire, IsrCallback, Begin
<1>4. ListStep => callback' = callback
  BY CallbackStays DEF ListStep, Next, Scheduling, Isr
<1> QED
  BY <1>1, <1>2, <1>3, <1>4
  DEF UsbNext, SetConfiguration, ReceiveNext, LoopPrepare, LoopReceive, HostSend,
      rx_event, Recv, RecvPrepare, RecvReceive, TransmitNext, HostRead, Send,
      SendPrepare, SendTransmit, usbVars, vars

\* The invariants of the list and of the code above it hold together in every
\* reachable state, for any number of receive transfers and two transmit transfers
\* or more.
THEOREM UsbInvCorrect ==
    UsbSpec => [](callback \/ N > 1 => UsbInv)
<1>1. UsbInit => (callback \/ N > 1 => UsbInv)
  BY UsbInvInit
<1>2. (callback \/ N > 1 => UsbInv) /\ [UsbNext]_usbVars
          => (callback \/ N > 1 => UsbInv)'
  BY UsbInvStep, EndpointStays
<1> QED
  BY <1>1, <1>2, PTL DEF UsbSpec

-----------------------------------------------------------------------------
(* What follows from it.                                                   *)

\* The transfers in the list, and the loop's next one, are neither in the ring nor
\* with recv.
LEMMA ReceiveOwners ==
    ASSUME UsbInv, callback
    PROVE  /\ \A x \in Elements : /\ \A s \in RxP!Filled : rx_list[s] # x
                                  /\ RxP!Holding => x # i
           /\ todo # <<>> => /\ Head(todo) \notin Elements
                             /\ \A s \in RxP!Filled : rx_list[s] # Head(todo)
                             /\ RxP!Holding => Head(todo) # i
<1>1. chain \in Seq(Xfer) /\ todo \in Seq(Xfer)
  BY TransfersHandedOver DEF UsbInv
<1>2. RxP!ExclusiveOwnership
  BY DEF UsbInv, RxP!RxInv
<1>3. /\ \A j, k \in 1 .. Len(rxChain) : rxChain[j] = rxChain[k] => j = k
      /\ \A j \in 1 .. Len(rxChain), s \in RxP!Filled : rxChain[j] # rx_list[s]
      /\ RxP!Holding => \A j \in 1 .. Len(rxChain) : rxChain[j] # i
  BY <1>2 DEF RxP!ExclusiveOwnership
<1>4. /\ Len(chain) \in Nat
      /\ \A k \in 1 .. Len(chain) : k \in 1 .. Len(rxChain) /\ rxChain[k] = chain[k]
      /\ todo # <<>> => /\ Len(chain) + 1 \in 1 .. Len(rxChain)
                        /\ rxChain[Len(chain) + 1] = Head(todo)
  BY <1>1, RxChainIs
<1>5. \A x \in Elements : /\ \A s \in RxP!Filled : rx_list[s] # x
                          /\ RxP!Holding => x # i
  BY <1>3, <1>4 DEF Elements
<1>6. ASSUME todo # <<>>
      PROVE  /\ Head(todo) \notin Elements
             /\ \A s \in RxP!Filled : rx_list[s] # Head(todo)
             /\ RxP!Holding => Head(todo) # i
  <2>1. \A k \in 1 .. Len(chain) : chain[k] # Head(todo)
    <3>1. \A k \in 1 .. Len(chain) : k # Len(chain) + 1
      BY <1>4
    <3> QED
      BY <1>3, <1>4, <1>6, <3>1
  <2> QED
    BY <1>3, <1>4, <1>6, <2>1 DEF Elements
<1> QED
  BY <1>5, <1>6

\* send's transfer is free, and is the one whose turn it is.
LEMMA SendsFreeTransfer ==
    ASSUME UsbInv, ~callback, sendPc \in {"fill", "prepare"}
    PROVE  /\ xfer = tx_head /\ turn = tx_head /\ tx_head \in Xfer
           /\ \A k \in 1 .. Len(chain) : chain[k] # tx_head
           /\ \A x \in Xfer : act[x] => x # tx_head /\ pointer0[x] = x
<1>1. TxP!TypeOK /\ TxP!TxInv /\ TransmitLink
  BY DEF UsbInv
<1>2. /\ xfer = tx_head /\ Len(chain) < N /\ TxP!NextFree = tx_head
      /\ tx_head \in Xfer /\ TxP!Transfers = Xfer
  BY <1>1 DEF TxP!TxInv, TxP!LocalsInv, TxP!NextFree, TxP!TypeOK, TxP!Transfers, Xfer
<1>3. turn = tx_head
  BY <1>1 DEF TransmitLink
<1>4. ~TxP!Queued(tx_head)
  BY <1>1, <1>2, TxP!NextFreeIsFree, NAssumption, UsbAssumption
<1>5. \A k \in 1 .. Len(chain) : chain[k] # tx_head
  BY <1>4 DEF TxP!Queued
<1>6. \A x \in Xfer : act[x] => TxP!Queued(x) /\ pointer0[x] = x
  BY <1>1, <1>2 DEF TxP!TxInv, TxP!ActiveInv, TxP!ContentInv
<1> QED
  BY <1>2, <1>3, <1>4, <1>5, <1>6

\* The arguments of schedule_transfer.
LEMMA InvMeansScheduledOnce == UsbInv => ScheduledOnce
<1> SUFFICES ASSUME UsbInv PROVE ScheduledOnce
  OBVIOUS
<1>1. CASE callback
  <2>1. sendPc = "idle"
    BY <1>1 DEF UsbInv, ReceiveLink
  <2>2. todo # <<>> => MaySchedule(Head(todo))
    BY <1>1, ReceiveOwners DEF MaySchedule, Elements
  <2>3. recvPc = "requeue" => MaySchedule(i)
    BY <1>1, ReceiveOwners DEF MaySchedule, Elements, RxP!Holding
  <2> QED
    BY <2>1, <2>2, <2>3 DEF ScheduledOnce
<1>2. CASE ~callback
  <2>1. todo = <<>> /\ recvPc = "idle"
    BY <1>2 DEF UsbInv, TransmitLink
  <2>2. sendPc = "prepare" => MaySchedule(xfer)
    BY <1>2, SendsFreeTransfer DEF MaySchedule
  <2> QED
    BY <2>1, <2>2 DEF ScheduledOnce
<1> QED
  BY <1>1, <1>2

\* The buffers of active transfers.
LEMMA InvMeansApart == UsbInv => BuffersApart
<1> SUFFICES ASSUME UsbInv PROVE BuffersApart
  OBVIOUS
<1>1. CASE callback
  <2>1. ReceiveLink /\ ActiveListed /\ i \in Xfer /\ RxP!TypeOK
    BY <1>1, TransfersHandedOver DEF UsbInv
  <2>2. \A s \in Rx!Filled : rx_list[s] \in Xfer
    BY <2>1, RxSame DEF RxP!TypeOK, RxP!Filled, RxP!Between, RxP!Buffers, Xfer
  <2>3. \A s \in Rx!Filled : ~act[rx_list[s]]
    <3>1. ASSUME NEW s \in RxP!Filled, act[rx_list[s]]
          PROVE  FALSE
      <4>1. rx_list[s] \in Elements \/ (swPc = "begin" /\ rx_list[s] = transfer)
        BY <2>1, <2>2, <3>1, RxSame DEF ActiveListed
      <4>2. rx_list[s] \notin Elements
        BY <1>1, ReceiveOwners
      <4>3. todo # <<>> => rx_list[s] # Head(todo)
        BY <1>1, ReceiveOwners
      <4>4. RxP!Holding => rx_list[s] # i
        BY <1>1 DEF UsbInv, RxP!RxInv, RxP!ExclusiveOwnership
      <4> QED
        BY <2>1, <4>1, <4>2, <4>3, <4>4 DEF ReceiveLink, RxP!Holding
    <3> QED
      BY <3>1, RxSame
  <2>4. recvPc \in {"length", "advance", "copy"} => ~act[i]
    <3>1. ASSUME recvPc \in {"length", "advance", "copy"}, act[i]
          PROVE  FALSE
      <4>1. i \in Elements \/ (swPc = "begin" /\ i = transfer)
        BY <2>1, <3>1 DEF ActiveListed
      <4>2. i \notin Elements /\ (todo # <<>> => Head(todo) # i)
        BY <1>1, <3>1, ReceiveOwners DEF RxP!Holding
      <4> QED
        BY <2>1, <3>1, <4>1, <4>2 DEF ReceiveLink
    <3> QED
      BY <3>1
  <2> QED
    BY <1>1, <2>1, <2>3, <2>4 DEF BuffersApart, ReceiveLink
<1>2. CASE ~callback
  <2>1. recvPc = "idle"
    BY <1>2 DEF UsbInv, TransmitLink
  <2>2. sendPc = "fill" => \A x \in Xfer : act[x] => pointer0[x] # tx_head
    BY <1>2, SendsFreeTransfer
  <2> QED
    BY <1>2, <2>1, <2>2 DEF BuffersApart
<1> QED
  BY <1>1, <1>2

\* Types, of the list and of the half above it.
THEOREM UsbTypeCorrect ==
    ASSUME N > 1
    PROVE  UsbSpec => []UsbTypeOK
<1>1. (callback \/ N > 1 => UsbInv) => UsbTypeOK
  BY RxSame, TxSame DEF UsbInv, QueueInv, UsbTypeOK
<1> QED
  BY <1>1, UsbInvCorrect, PTL

\* usb_cmsis_dap.c never hands schedule_transfer a transfer that is scheduled
\* already, and on the IN endpoint only a free one that is next in turn
\* (usb_cmsis_dap.c:77-201, usb.c:741-810).
THEOREM ScheduledOnceCorrect ==
    ASSUME N > 1
    PROVE  UsbSpec => []ScheduledOnce
<1>1. (callback \/ N > 1 => UsbInv) => ScheduledOnce
  BY InvMeansScheduledOnce
<1> QED
  BY <1>1, UsbInvCorrect, PTL

\* The controller never writes to a buffer whose packet recv has yet to copy, and
\* never reads one that send is filling (usb_cmsis_dap.c:150-157, 193-194).
THEOREM BuffersApartCorrect ==
    ASSUME N > 1
    PROVE  UsbSpec => []BuffersApart
<1>1. (callback \/ N > 1 => UsbInv) => BuffersApart
  BY InvMeansApart
<1> QED
  BY <1>1, UsbInvCorrect, PTL

\* Packets and responses keep their order through the linked list
\* (usb_cmsis_dap.c:117-201).
THEOREM DeliveredInOrderCorrect ==
    ASSUME N > 1
    PROVE  UsbSpec => []DeliveredInOrder
<1>1. (callback \/ N > 1 => UsbInv) => DeliveredInOrder
  BY RxFacts, TxFacts, RxSame, TxSame DEF UsbInv, DeliveredInOrder
<1> QED
  BY <1>1, UsbInvCorrect, PTL

\* The receive path on the linked list is the receive path on the abstract queue,
\* for any number of transfers: what is proved of CmsisDapRx holds of it
\* (usb_cmsis_dap.c:77-162).
THEOREM ReceiveRefinementCorrect == UsbSpec => ReceiveRefinement
<1>1. UsbInit => (callback => Rx!Init)
  BY DEF UsbInit
<1>2. (callback \/ N > 1 => UsbInv) /\ [UsbNext]_usbVars
          => [callback => [Rx!Next]_(Rx!vars)]_usbVars
  BY ReceiveStep
<1> QED
  BY <1>1, <1>2, UsbInvCorrect, PTL DEF UsbSpec, ReceiveRefinement

\* The transmit path on the linked list is the one on the abstract queue, for two
\* transfers or more (usb_cmsis_dap.c:177-201).
THEOREM TransmitRefinementCorrect ==
    ASSUME N > 1
    PROVE  UsbSpec => TransmitRefinement
<1>1. UsbInit => (~callback => Tx!Init)
  BY DEF UsbInit
<1>2. (callback \/ N > 1 => UsbInv) /\ [UsbNext]_usbVars
          => [~callback => [Tx!Next]_(Tx!vars)]_usbVars
  BY TransmitStep
<1> QED
  BY <1>1, <1>2, UsbInvCorrect, PTL DEF UsbSpec, TransmitRefinement
=============================================================================
