-------------------------- MODULE CmsisDapTxProofs --------------------------
(***************************************************************************)
(* Proofs about CmsisDapTx, for every TX_NUM, any responses, and any       *)
(* number of responses and configurations.                                 *)
(***************************************************************************)
EXTENDS CmsisDapTx, SequenceTheorems, TLAPS

USE TxNumAssumption, ResponseAssumption, TxBoundsAssumption,
    AnyTimeTxConfigAssumption

-----------------------------------------------------------------------------
(* The inductive invariant.  What keeps send from writing over a buffer in *)
(* flight is where the queued transfers are: the last ones send has gone   *)
(* through, without a gap, up to tx_head.                                  *)

\* The transfer after h, and the n-th before it, n at most TX_NUM.
Succ(h) == IF h + 1 >= TX_NUM THEN 0 ELSE h + 1
Back(h, n) == IF h >= n THEN h - n ELSE h - n + TX_NUM

\* The transfer that comes after the last one scheduled.
NextFree == IF sendPc = "bump" THEN Succ(tx_head) ELSE tx_head

\* send's transfer is the one tx_head points at, and from the test of its status
\* to its scheduling another transfer fits into the queue.
LocalsInv ==
    /\ sendPc # "idle" => xfer = tx_head
    /\ sendPc \in {"fill", "prepare", "transmit"} => Len(txChain) < TX_NUM

QueueInv ==
    /\ Len(txChain) =< TX_NUM
    /\ \A k \in 1 .. Len(txChain) :
           txChain[k] = Back(NextFree, Len(txChain) - k + 1)

Queued(t) == \E k \in 1 .. Len(txChain) : txChain[k] = t
ActiveInv ==
    \A t \in Transfers : active[t] <=> Queued(t) \/ (sendPc = "transmit" /\ t = xfer)

\* Every queued transfer points to its own buffer, which holds the response that
\* was accepted with it.
ContentInv ==
    /\ \A t \in Transfers : active[t] => pointer0[t] = t
    /\ sendPc \in {"prepare", "transmit"} => tx_buffer[xfer] = USB_Response
    /\ Len(accepted) = Len(hostGot) + Len(txChain)
    /\ \A k \in 1 .. Len(hostGot) : accepted[k] = hostGot[k]
    /\ \A k \in 1 .. Len(txChain) :
           accepted[Len(hostGot) + k] = tx_buffer[txChain[k]]

TxInv == LocalsInv /\ QueueInv /\ ActiveInv /\ ContentInv

\* Next without its bound on the number of responses.
Steps ==
    \/ HostRead
    \/ \E v \in {0, 1} : SetConfiguration(v)
    \/ BusReset
    \/ \E r \in Response : SendCall(r)
    \/ Send

-----------------------------------------------------------------------------
(* Arithmetic of the transfers, which are used in turn.                    *)

\* tx_head stays a transfer when it is advanced (usb_cmsis_dap.c:198).
LEMMA SuccType == \A h \in Transfers : Succ(h) \in Transfers
BY DEF Succ, Transfers

\* What comes back after n steps is a transfer, and no other is as many back.
LEMMA BackType ==
    \A h \in Transfers, n \in 1 .. TX_NUM :
        /\ Back(h, n) \in Transfers
        /\ Back(h, n) = h <=> n = TX_NUM
        /\ \A m \in 1 .. TX_NUM : Back(h, m) = Back(h, n) => m = n
BY DEF Back, Transfers

\* One on and one more back.
LEMMA BackSucc ==
    \A h \in Transfers : /\ Back(Succ(h), 1) = h
                         /\ \A n \in 1 .. TX_NUM - 1 : Back(Succ(h), n + 1) = Back(h, n)
BY DEF Back, Succ, Transfers

-----------------------------------------------------------------------------
(* The endpoint's and the histories' sequences.                            *)

\* A queued transfer is a transfer.
LEMMA ChainElement ==
    ASSUME TypeOK
    PROVE  /\ Len(txChain) \in Nat
           /\ \A k \in 1 .. Len(txChain) : txChain[k] \in Transfers
           /\ Len(accepted) \in Nat /\ Len(hostGot) \in Nat
BY ElementOfSeq, LenProperties DEF TypeOK

\* The host takes the oldest.
LEMMA RetireChain ==
    ASSUME TypeOK, Ep!Retire
    PROVE  /\ Len(txChain) > 0
           /\ Head(txChain) = txChain[1]
           /\ txChain' \in Seq(Transfers)
           /\ Len(txChain') = Len(txChain) - 1
           /\ \A k \in 1 .. Len(txChain) - 1 : txChain'[k] = txChain[k + 1]
BY HeadTailProperties, EmptySeq DEF Ep!Retire, TypeOK

\* send's transfer becomes the last.
LEMMA ScheduleChain ==
    ASSUME TypeOK, Ep!Schedule(xfer)
    PROVE  /\ txChain' \in Seq(Transfers)
           /\ Len(txChain') = Len(txChain) + 1
           /\ \A k \in 1 .. Len(txChain) : txChain'[k] = txChain[k]
           /\ txChain'[Len(txChain) + 1] = xfer
BY AppendProperties DEF Ep!Schedule, TypeOK

-----------------------------------------------------------------------------
(* Types.                                                                  *)

\* Every step keeps the variables in their types: no index into tx_buffer or
\* tx_transfer is out of bounds (usb_cmsis_dap.c:164-200).
LEMMA TypeStep == TypeOK /\ [Steps]_vars => TypeOK'
<1> SUFFICES ASSUME TypeOK, [Steps]_vars PROVE TypeOK'
    OBVIOUS
<1> USE DEF TypeOK, txEndpoint, descriptors, ghosts
<1>1. CASE HostRead
    <2>1. Head(txChain) \in Transfers /\ txChain' \in Seq(Transfers)
        BY <1>1, RetireChain, ChainElement DEF HostRead, ResponseLeaves
    <2>2. tx_buffer[pointer0[Head(txChain)]] \in Response
        BY <2>1
    <2>3. hostGot' \in Seq(Response)
        BY <1>1, <2>2, AppendProperties DEF HostRead, ResponseLeaves
    <2>4. active' \in [Transfers -> BOOLEAN]
        BY <1>1 DEF HostRead, ResponseLeaves
    <2> QED
        BY <1>1, <2>1, <2>3, <2>4 DEF HostRead, ResponseLeaves, Ep!Retire
<1>2. ASSUME NEW v \in {0, 1}, SetConfiguration(v) PROVE TypeOK'
    <2>1. 0 \in Transfers
        BY DEF Transfers
    <2>2. txChain' \in Seq(Transfers) /\ txLive' \in BOOLEAN
        BY <1>2, EmptySeq DEF SetConfiguration, ResetTransfers, Ep!Configure
    <2>3. accepted' \in Seq(Response) /\ hostGot' \in Seq(Response)
        BY <1>2, EmptySeq DEF SetConfiguration, ResetTransfers
    <2> QED
        BY <1>2, <2>1, <2>2, <2>3 DEF SetConfiguration, ResetTransfers
<1>3. CASE BusReset
    BY <1>3 DEF BusReset, Ep!Flush
<1>4. ASSUME NEW r \in Response, SendCall(r) PROVE TypeOK'
    BY <1>4 DEF SendCall
<1>5. CASE SendCheckConfiguration
    BY <1>5 DEF SendCheckConfiguration
<1>6. CASE SendTestStatus
    BY <1>6 DEF SendTestStatus
<1>7. CASE SendFill
    BY <1>7 DEF SendFill
<1>8. CASE SendPrepare
    BY <1>8 DEF SendPrepare, PointToBuffer
<1>9. CASE SendTransmit
    <2>1. txChain' \in Seq(Transfers)
        BY <1>9, ScheduleChain DEF SendTransmit, ResponseAccepted
    <2>2. accepted' \in Seq(Response)
        BY <1>9, AppendProperties DEF SendTransmit, ResponseAccepted
    <2> QED
        BY <1>9, <2>1, <2>2 DEF SendTransmit, ResponseAccepted, Ep!Schedule
<1>10. CASE SendBump
    BY <1>10, SuccType DEF SendBump, Succ
<1>11. CASE UNCHANGED vars
    BY <1>11 DEF vars
<1> QED
    BY <1>1, <1>2, <1>3, <1>4, <1>5, <1>6, <1>7, <1>8, <1>9, <1>10, <1>11
    DEF Steps, Send

\* A step of the specification is one of these.
LEMMA NextIsSteps == Next => Steps
BY DEF Next, Steps

\* The initial state: nothing queued, nothing accepted.
LEMMA TypeInit == Init => TypeOK
<1> SUFFICES ASSUME Init PROVE TypeOK
    OBVIOUS
<1>1. 0 \in Transfers /\ 0 \in 0 .. MaxTxConfigs
    BY DEF Transfers
<1>2. txChain \in Seq(Transfers) /\ txLive \in BOOLEAN
    BY EmptySeq DEF Init, Ep!SilentInit
<1>3. accepted \in Seq(Response) /\ hostGot \in Seq(Response)
    BY EmptySeq DEF Init
<1> QED
    BY <1>1, <1>2, <1>3 DEF Init, TypeOK

\* The type invariant of the transmit path, whenever SET_CONFIGURATION comes.
THEOREM TypeCorrect == Spec => []TypeOK
BY TypeInit, TypeStep, NextIsSteps, PTL DEF Spec

-----------------------------------------------------------------------------
(* The invariant, action by action.                                        *)

\* Initially nothing is queued.
LEMMA InitHolds == Init => TxInv
BY DEF Init, Ep!SilentInit, TxInv, LocalsInv, QueueInv, Queued, ActiveInv, ContentInv

\* Of two lengths neither of which is the greater, both are the same.
LEMMA SameNumber ==
    ASSUME NEW m \in Nat, NEW n \in Nat, m =< n, n =< m
    PROVE  m = n
OBVIOUS

\* The oldest transfer is not one of those behind it.
LEMMA HeadIsApart ==
    ASSUME TypeOK, TxInv
    PROVE  \A j, k \in 1 .. Len(txChain) : txChain[j] = txChain[k] => j = k
<1> TAKE j, k \in 1 .. Len(txChain)
<1>1. NextFree \in Transfers
    BY SuccType DEF TypeOK, NextFree
<1>2. Len(txChain) \in Nat /\ Len(txChain) =< TX_NUM
    BY ChainElement DEF TxInv, QueueInv
<1>3. Len(txChain) - j + 1 \in 1 .. TX_NUM /\ Len(txChain) - k + 1 \in 1 .. TX_NUM
    BY <1>2
<1>4. /\ txChain[j] = Back(NextFree, Len(txChain) - j + 1)
      /\ txChain[k] = Back(NextFree, Len(txChain) - k + 1)
    BY DEF TxInv, QueueInv
<1>5. txChain[j] = txChain[k] => Len(txChain) - j + 1 = Len(txChain) - k + 1
    BY <1>1, <1>3, <1>4, BackType
<1> QED
    BY <1>2, <1>5

\* While another transfer fits into the queue, the next one is not in it.
LEMMA NextFreeIsFree ==
    ASSUME TypeOK, TxInv, Len(txChain) < TX_NUM
    PROVE  ~Queued(NextFree)
<1>1. NextFree \in Transfers
    BY SuccType DEF TypeOK, NextFree
<1> SUFFICES ASSUME NEW k \in 1 .. Len(txChain) PROVE txChain[k] # NextFree
    BY DEF Queued
<1>2. Len(txChain) - k + 1 \in 1 .. TX_NUM /\ Len(txChain) - k + 1 # TX_NUM
    BY ChainElement
<1> QED
    BY <1>1, <1>2, BackType DEF TxInv, QueueInv

\* When none fits, the next one is the oldest in the queue.
LEMMA NextFreeIsQueued ==
    ASSUME TypeOK, TxInv, Len(txChain) >= TX_NUM
    PROVE  Queued(NextFree) /\ Len(txChain) = TX_NUM
<1>1. NextFree \in Transfers
    BY SuccType DEF TypeOK, NextFree
<1>2. Len(txChain) = TX_NUM
    <2>1. Len(txChain) \in Nat /\ TX_NUM \in Nat
        BY ChainElement, TxNumAssumption
    <2>2. Len(txChain) =< TX_NUM /\ TX_NUM =< Len(txChain)
        BY <2>1 DEF TxInv, QueueInv
    <2> QED
        BY <2>1, <2>2, SameNumber, Zenon
<1>3. txChain[1] = Back(NextFree, TX_NUM)
    BY <1>2 DEF TxInv, QueueInv
<1>4. Back(NextFree, TX_NUM) = NextFree
    BY <1>1, BackType
<1> QED
    BY <1>2, <1>3, <1>4 DEF Queued

\* The oldest transfer leaves the queue, and its response goes to the host.
LEMMA HostReadHolds == ASSUME TypeOK, TxInv, HostRead PROVE TxInv'
<1>1. /\ Len(txChain) > 0
      /\ Head(txChain) = txChain[1] /\ txChain[1] \in Transfers
      /\ Len(txChain') = Len(txChain) - 1
      /\ \A k \in 1 .. Len(txChain) - 1 : txChain'[k] = txChain[k + 1]
    BY RetireChain, ChainElement DEF HostRead, ResponseLeaves
<1>2. /\ UNCHANGED <<tx_head, tx_buffer, pointer0, sendPc, xfer, USB_Response,
                     accepted>>
      /\ active' = [active EXCEPT ![txChain[1]] = FALSE]
      /\ hostGot' = Append(hostGot, tx_buffer[pointer0[txChain[1]]])
    BY <1>1 DEF HostRead, ResponseLeaves
<1>3. Len(txChain) \in Nat /\ Len(hostGot) \in Nat
    BY ChainElement
<1>4. LocalsInv'
    BY <1>1, <1>2, <1>3 DEF TxInv, LocalsInv
<1>5. QueueInv'
    BY <1>1, <1>2, <1>3 DEF TxInv, QueueInv, NextFree
<1>6. ActiveInv'
    <2> SUFFICES ASSUME NEW t \in Transfers
                 PROVE  (active[t] <=> Queued(t) \/ (sendPc = "transmit" /\ t = xfer))'
        BY DEF ActiveInv
    <2>1. Queued(t)' <=> Queued(t) /\ t # txChain[1]
        <3>1. Queued(t)' => \E k \in 1 .. Len(txChain) - 1 : txChain[k + 1] = t
            BY <1>1 DEF Queued
        <3>2. Queued(t)' => Queued(t) /\ t # txChain[1]
            BY <3>1, <1>3, HeadIsApart DEF Queued
        <3>3. ASSUME Queued(t), t # txChain[1] PROVE Queued(t)'
            <4>1. PICK k \in 1 .. Len(txChain) : txChain[k] = t
                BY <3>3 DEF Queued
            <4>2. k - 1 \in 1 .. Len(txChain')
                BY <1>1, <1>3, <3>3, <4>1
            <4>3. txChain'[k - 1] = t
                BY <1>1, <1>3, <4>1, <4>2
            <4> QED
                BY <4>2, <4>3 DEF Queued
        <3> QED
            BY <3>2, <3>3
    <2>2. sendPc = "transmit" => xfer # txChain[1]
        <3> SUFFICES ASSUME sendPc = "transmit" PROVE xfer # txChain[1]
            OBVIOUS
        <3>1. Len(txChain) < TX_NUM /\ NextFree = xfer
            BY DEF TxInv, LocalsInv, NextFree
        <3> QED
            BY <1>1, <1>3, <3>1, NextFreeIsFree DEF Queued
    <2> QED
        BY <1>2, <2>1, <2>2 DEF TxInv, ActiveInv, TypeOK
<1>7. ContentInv'
    <2>1. active[txChain[1]] /\ pointer0[txChain[1]] = txChain[1]
        BY <1>1, <1>3 DEF TxInv, ActiveInv, Queued, ContentInv
    <2>2. accepted[Len(hostGot) + 1] = tx_buffer[txChain[1]]
        BY <1>1, <1>3 DEF TxInv, ContentInv
    <2>3. tx_buffer[txChain[1]] \in Response
        BY <1>1 DEF TypeOK
    <2>4. /\ Len(hostGot') = Len(hostGot) + 1
          /\ \A k \in 1 .. Len(hostGot) : hostGot'[k] = hostGot[k]
          /\ hostGot'[Len(hostGot) + 1] = tx_buffer[txChain[1]]
        BY <1>2, <2>1, <2>3, AppendProperties DEF TypeOK
    <2>5. Len(accepted') = Len(hostGot') + Len(txChain')
        <3>1. Len(accepted) = Len(hostGot) + Len(txChain)
            BY DEF TxInv, ContentInv
        <3>2. Len(accepted') = Len(accepted)
            BY <1>2
        <3>3. Len(txChain') = Len(txChain) - 1 /\ Len(hostGot') = Len(hostGot) + 1
            BY <1>1, <2>4
        <3> QED
            BY <1>3, <3>1, <3>2, <3>3
    <2>6. \A k \in 1 .. Len(hostGot') : accepted'[k] = hostGot'[k]
        BY <1>2, <1>3, <2>2, <2>4 DEF TxInv, ContentInv
    <2>7. ASSUME NEW k \in 1 .. Len(txChain')
          PROVE  accepted'[Len(hostGot') + k] = tx_buffer'[txChain'[k]]
        <3>1. k + 1 \in 1 .. Len(txChain) /\ txChain'[k] = txChain[k + 1]
            BY <1>1, <1>3
        <3>2. Len(hostGot') + k = Len(hostGot) + (k + 1)
            BY <1>3, <2>4
        <3> QED
            BY <1>2, <3>1, <3>2 DEF TxInv, ContentInv
    <2>8. \A t \in Transfers : active'[t] => pointer0'[t] = t
        BY <1>2 DEF TxInv, ContentInv, TypeOK
    <2> QED
        BY <1>2, <2>5, <2>6, <2>7, <2>8 DEF TxInv, ContentInv
<1> QED
    BY <1>4, <1>5, <1>6, <1>7 DEF TxInv

\* A configuration clears the transfers, and finds send where it has not used
\* what it has read of tx_head.
LEMMA ConfigureHolds ==
    ASSUME TypeOK, TxInv, NEW v, SetConfiguration(v), ~AnyTimeTxConfig
    PROVE  TxInv'
<1>1. /\ tx_head' = 0 /\ txChain' = <<>>
      /\ active' = [t \in Transfers |-> FALSE]
      /\ accepted' = <<>> /\ hostGot' = <<>>
      /\ UNCHANGED <<sendPc, xfer>>
      /\ SafeToConfigure
    BY DEF SetConfiguration, ResetTransfers, Ep!Configure
<1>2. sendPc \in {"idle", "config", "status"} /\ (sendPc # "idle" => xfer = 0)
    BY <1>1 DEF SafeToConfigure
<1>3. LocalsInv' /\ QueueInv' /\ ContentInv'
    BY <1>1, <1>2 DEF LocalsInv, QueueInv, ContentInv
<1>4. ActiveInv'
    BY <1>1, <1>2 DEF ActiveInv, Queued
<1> QED
    BY <1>3, <1>4 DEF TxInv

\* A bus reset leaves the queue as it is.
LEMMA ResetHolds == ASSUME TxInv, BusReset PROVE TxInv'
BY DEF BusReset, Ep!Flush, descriptors, ghosts, TxInv, LocalsInv, QueueInv,
       NextFree, Queued, ActiveInv, ContentInv

\* send reads tx_head.
LEMMA CallHolds == ASSUME TxInv, NEW r, SendCall(r) PROVE TxInv'
BY DEF SendCall, descriptors, txEndpoint, ghosts, TxInv, LocalsInv, QueueInv,
       NextFree, Queued, ActiveInv, ContentInv

\* A step before the status test changes nothing the invariant depends on.
LEMMA CheckHolds == ASSUME TxInv, SendCheckConfiguration PROVE TxInv'
BY DEF SendCheckConfiguration, descriptors, txEndpoint, ghosts, TxInv, LocalsInv,
       QueueInv, NextFree, Queued, ActiveInv, ContentInv

\* A transfer that is not active is not queued, so there is room for it.
LEMMA TestHolds == ASSUME TypeOK, TxInv, SendTestStatus PROVE TxInv'
<1>1. sendPc = "status" /\ xfer = tx_head /\ NextFree = xfer
    BY DEF SendTestStatus, TxInv, LocalsInv, NextFree
<1>2. sendPc' = "fill" => Len(txChain) < TX_NUM
    <2> SUFFICES ASSUME sendPc' = "fill", Len(txChain) >= TX_NUM PROVE FALSE
        BY ChainElement
    <2>1. ~active[xfer]
        BY DEF SendTestStatus
    <2>2. Queued(xfer)
        BY <1>1, NextFreeIsQueued
    <2> QED
        BY <2>1, <2>2 DEF TxInv, ActiveInv, TypeOK
<1>3. sendPc' \in {"fill", "idle", "config"}
    BY DEF SendTestStatus
<1>4. UNCHANGED <<tx_head, tx_buffer, descriptors, txEndpoint, xfer, USB_Response,
                  accepted, hostGot>>
    BY DEF SendTestStatus, ghosts
<1> QED
    BY <1>1, <1>2, <1>3, <1>4
    DEF descriptors, txEndpoint, TxInv, LocalsInv, QueueInv, NextFree, Queued,
        ActiveInv, ContentInv

\* The buffer that is filled belongs to no queued transfer.
LEMMA FillHolds == ASSUME TypeOK, TxInv, SendFill PROVE TxInv'
<1>1. /\ sendPc = "fill" /\ sendPc' = "prepare"
      /\ xfer = tx_head /\ NextFree = tx_head
      /\ Len(txChain) < TX_NUM
    BY DEF SendFill, TxInv, LocalsInv, NextFree
<1>2. UNCHANGED <<tx_head, descriptors, txEndpoint, xfer, USB_Response, accepted,
                  hostGot>>
    BY DEF SendFill, ghosts
<1>3. tx_buffer' = [tx_buffer EXCEPT ![tx_head] = USB_Response]
    BY DEF SendFill
<1>4. LocalsInv' /\ QueueInv' /\ ActiveInv'
    BY <1>1, <1>2 DEF descriptors, txEndpoint, TxInv, LocalsInv, QueueInv, NextFree,
                      Queued, ActiveInv
<1>5. \A k \in 1 .. Len(txChain) : tx_buffer'[txChain[k]] = tx_buffer[txChain[k]]
    BY <1>1, <1>3, NextFreeIsFree, ChainElement DEF Queued, TypeOK
<1>6. tx_buffer'[xfer] = USB_Response
    BY <1>1, <1>3 DEF TypeOK
<1>7. ContentInv'
    BY <1>1, <1>2, <1>5, <1>6
    DEF descriptors, txEndpoint, TxInv, ContentInv
<1> QED
    BY <1>4, <1>7 DEF TxInv

\* The transfer becomes active, and points to its own buffer.
LEMMA PrepareHolds == ASSUME TypeOK, TxInv, SendPrepare PROVE TxInv'
<1>1. /\ sendPc = "prepare" /\ sendPc' = "transmit" /\ xfer = tx_head
      /\ active' = [active EXCEPT ![xfer] = TRUE]
      /\ pointer0' = [pointer0 EXCEPT ![xfer] = xfer]
      /\ UNCHANGED <<tx_head, tx_buffer, txChain, xfer, USB_Response, accepted,
                     hostGot>>
    BY DEF SendPrepare, PointToBuffer, txEndpoint, ghosts, TxInv, LocalsInv
<1>2. LocalsInv' /\ QueueInv'
    BY <1>1 DEF TxInv, LocalsInv, QueueInv, NextFree
<1>3. ActiveInv'
    BY <1>1 DEF TxInv, ActiveInv, Queued, TypeOK
<1>4. ContentInv'
    BY <1>1 DEF TxInv, ContentInv, TypeOK
<1> QED
    BY <1>2, <1>3, <1>4 DEF TxInv

\* The transfer joins the queue behind the others; its response is accepted.
LEMMA TransmitHolds == ASSUME TypeOK, TxInv, SendTransmit PROVE TxInv'
<1>1. /\ sendPc = "transmit" /\ sendPc' = "bump"
      /\ xfer = tx_head /\ xfer \in Transfers
      /\ Len(txChain) < TX_NUM
      /\ UNCHANGED <<tx_head, tx_buffer, active, pointer0, xfer, USB_Response,
                     hostGot>>
      /\ accepted' = Append(accepted, USB_Response)
    BY DEF SendTransmit, ResponseAccepted, descriptors, TxInv, LocalsInv, TypeOK
<1>2. /\ Len(txChain') = Len(txChain) + 1
      /\ \A k \in 1 .. Len(txChain) : txChain'[k] = txChain[k]
      /\ txChain'[Len(txChain) + 1] = xfer
    BY ScheduleChain DEF SendTransmit, ResponseAccepted
<1>3. Len(txChain) \in Nat /\ Len(hostGot) \in Nat /\ Len(accepted) \in Nat
    BY ChainElement
<1>4. LocalsInv'
    BY <1>1 DEF TxInv, LocalsInv
<1>5. QueueInv'
    <2>1. NextFree = tx_head /\ NextFree' = Succ(tx_head)
        BY <1>1 DEF NextFree, Succ
    <2>2. ASSUME NEW k \in 1 .. Len(txChain')
          PROVE  txChain'[k] = Back(NextFree', Len(txChain') - k + 1)
        <3>1. CASE k = Len(txChain) + 1
            BY <1>1, <1>2, <1>3, <2>1, <3>1, BackSucc
        <3>2. CASE k # Len(txChain) + 1
            <4>1. /\ k \in 1 .. Len(txChain)
                  /\ Len(txChain) - k + 1 \in 1 .. TX_NUM - 1
                  /\ Len(txChain') - k + 1 = (Len(txChain) - k + 1) + 1
                BY <1>1, <1>2, <1>3, <3>2
            <4>2. txChain'[k] = Back(tx_head, Len(txChain) - k + 1)
                BY <1>2, <2>1, <4>1 DEF TxInv, QueueInv
            <4> QED
                BY <1>1, <2>1, <4>1, <4>2, BackSucc
        <3> QED
            BY <3>1, <3>2
    <2> QED
        BY <1>1, <1>2, <1>3, <2>2 DEF QueueInv
<1>6. ActiveInv'
    <2>1. \A t : Queued(t)' <=> Queued(t) \/ t = xfer
        BY <1>2, <1>3 DEF Queued
    <2> QED
        BY <1>1, <2>1 DEF TxInv, ActiveInv
<1>7. ContentInv'
    <2>1. tx_buffer[xfer] = USB_Response /\ USB_Response \in Response
        BY <1>1 DEF TxInv, ContentInv, TypeOK
    <2>2. /\ Len(accepted') = Len(accepted) + 1
          /\ \A k \in 1 .. Len(accepted) : accepted'[k] = accepted[k]
          /\ accepted'[Len(accepted) + 1] = USB_Response
        BY <1>1, <2>1, AppendProperties DEF TypeOK
    <2>3. Len(accepted) = Len(hostGot) + Len(txChain)
        BY DEF TxInv, ContentInv
    <2>4. \A k \in 1 .. Len(hostGot') : accepted'[k] = hostGot'[k]
        BY <1>1, <1>3, <2>2, <2>3 DEF TxInv, ContentInv
    <2>5. ASSUME NEW k \in 1 .. Len(txChain')
          PROVE  accepted'[Len(hostGot') + k] = tx_buffer'[txChain'[k]]
        <3>1. hostGot' = hostGot /\ tx_buffer' = tx_buffer
            BY <1>1
        <3>2. CASE k = Len(txChain) + 1
            BY <1>2, <1>3, <2>1, <2>2, <2>3, <3>1, <3>2
        <3>3. CASE k # Len(txChain) + 1
            <4>1. k \in 1 .. Len(txChain) /\ Len(hostGot) + k \in 1 .. Len(accepted)
                BY <1>2, <1>3, <2>3, <3>3
            <4>2. accepted[Len(hostGot) + k] = tx_buffer[txChain[k]]
                BY <4>1 DEF TxInv, ContentInv
            <4> QED
                BY <1>2, <2>2, <3>1, <4>1, <4>2
        <3> QED
            BY <3>2, <3>3
    <2>6. Len(accepted') = Len(hostGot') + Len(txChain')
        <3>1. hostGot' = hostGot
            BY <1>1
        <3> QED
            BY <1>2, <1>3, <2>2, <2>3, <3>1
    <2>7. \A t \in Transfers : active'[t] => pointer0'[t] = t
        BY <1>1 DEF TxInv, ContentInv
    <2>8. sendPc' \notin {"prepare", "transmit"}
        BY <1>1
    <2> QED
        BY <2>4, <2>5, <2>6, <2>7, <2>8 DEF ContentInv
<1> QED
    BY <1>4, <1>5, <1>6, <1>7 DEF TxInv

\* tx_head goes on to the transfer that was the next one already.
LEMMA BumpHolds == ASSUME TypeOK, TxInv, SendBump PROVE TxInv'
<1>1. /\ sendPc = "bump" /\ sendPc' = "idle" /\ tx_head' = Succ(tx_head)
      /\ UNCHANGED <<tx_buffer, active, pointer0, txChain, xfer, USB_Response,
                     accepted, hostGot>>
    BY DEF SendBump, Succ, descriptors, txEndpoint, ghosts
<1>2. NextFree' = NextFree
    BY <1>1 DEF NextFree
<1> QED
    BY <1>1, <1>2 DEF TxInv, LocalsInv, QueueInv, ActiveInv, Queued, ContentInv

\* The invariant survives every step.
LEMMA StepsHold ==
    ASSUME ~AnyTimeTxConfig, TypeOK, TxInv, [Steps]_vars
    PROVE  TxInv'
<1>1. CASE UNCHANGED vars
    BY <1>1 DEF vars, descriptors, txEndpoint, ghosts, TxInv, LocalsInv, QueueInv,
                NextFree, Queued, ActiveInv, ContentInv
<1>2. CASE Steps
    BY <1>2, HostReadHolds, ConfigureHolds, ResetHolds, CallHolds, CheckHolds,
       TestHolds, FillHolds, PrepareHolds, TransmitHolds, BumpHolds
    DEF Steps, Send
<1> QED
    BY <1>1, <1>2

\* The queued transfers are the last ones before tx_head, in order, and each holds
\* the response accepted with it (usb_cmsis_dap.c:164-200).
THEOREM TxInvCorrect ==
    ASSUME ~AnyTimeTxConfig
    PROVE  Spec => [](TypeOK /\ TxInv)
<1>1. Init => TypeOK /\ TxInv
    BY TypeInit, InitHolds
<1>2. TypeOK /\ TxInv /\ [Next]_vars => (TypeOK /\ TxInv)'
    BY TypeStep, StepsHold, NextIsSteps
<1> QED
    BY <1>1, <1>2, PTL DEF Spec

-----------------------------------------------------------------------------
(* What follows from it.                                                   *)

\* The responses read and those in flight are the accepted ones.
LEMMA InvMeansInOrder ==
    ASSUME TypeOK, TxInv
    PROVE  HostReadsWhatWasAccepted
<1>1. Len(txChain) \in Nat /\ Len(hostGot) \in Nat /\ Len(accepted) \in Nat
    BY ChainElement
<1>2. ASSUME NEW k \in 1 .. Len(txChain)
      PROVE  /\ tx_buffer[pointer0[txChain[k]]] = accepted[Len(hostGot) + k]
             /\ tx_buffer[pointer0[txChain[k]]] \in Response
    <2>1. txChain[k] \in Transfers
        BY ChainElement
    <2>2. active[txChain[k]]
        BY <2>1 DEF TxInv, ActiveInv, Queued
    <2>3. pointer0[txChain[k]] = txChain[k]
        BY <2>1, <2>2 DEF TxInv, ContentInv
    <2> QED
        BY <2>1, <2>3 DEF TxInv, ContentInv, TypeOK
<1>3. InFlight \in [1 .. Len(txChain) -> Response]
    BY <1>2 DEF InFlight
<1>4. InFlight \in Seq(Response) /\ Len(InFlight) = Len(txChain)
    <2>1. InFlight \in Seq(Response)
        BY <1>1, <1>3, SeqDef
    <2>2. DOMAIN InFlight = 1 .. Len(txChain)
        BY <1>3
    <2>3. Len(InFlight) \in Nat /\ DOMAIN InFlight = 1 .. Len(InFlight)
        BY <2>1, LenProperties
    <2>4. \A k : k \in 1 .. Len(txChain) <=> k \in 1 .. Len(InFlight)
        BY <2>2, <2>3
    <2>5. Len(txChain) =< Len(InFlight) /\ Len(InFlight) =< Len(txChain)
        BY <1>1, <2>3, <2>4
    <2> QED
        BY <1>1, <2>1, <2>3, <2>5, SameNumber, Zenon
<1>5. /\ hostGot \o InFlight \in Seq(Response)
      /\ Len(hostGot \o InFlight) = Len(accepted)
      /\ \A k \in 1 .. Len(accepted) : (hostGot \o InFlight)[k] = accepted[k]
    <2>1. Len(accepted) = Len(hostGot) + Len(txChain)
        BY DEF TxInv, ContentInv
    <2>0. hostGot \in Seq(Response)
        BY DEF TypeOK
    <2>2. /\ hostGot \o InFlight \in Seq(Response)
          /\ Len(hostGot \o InFlight) = Len(accepted)
          /\ \A k \in 1 .. Len(accepted) :
                (hostGot \o InFlight)[k] =
                    IF k <= Len(hostGot) THEN hostGot[k]
                                         ELSE InFlight[k - Len(hostGot)]
        <3>1. /\ hostGot \o InFlight \in Seq(Response)
              /\ Len(hostGot \o InFlight) = Len(hostGot) + Len(InFlight)
              /\ \A k \in 1 .. Len(hostGot) + Len(InFlight) :
                    (hostGot \o InFlight)[k] =
                        IF k <= Len(hostGot) THEN hostGot[k]
                                             ELSE InFlight[k - Len(hostGot)]
            BY <1>4, <2>0, ConcatProperties, Zenon
        <3>2. Len(hostGot) + Len(InFlight) = Len(accepted)
            BY <1>4, <2>1, Zenon
        <3> QED
            BY <3>1, <3>2, Zenon
    <2>3. ASSUME NEW k \in 1 .. Len(accepted)
          PROVE  (hostGot \o InFlight)[k] = accepted[k]
        <3>1. CASE k <= Len(hostGot)
            BY <1>1, <2>2, <3>1 DEF TxInv, ContentInv
        <3>2. CASE ~(k <= Len(hostGot))
            <4>1. k - Len(hostGot) \in 1 .. Len(txChain)
                BY <1>1, <2>1, <3>2
            <4>2. InFlight[k - Len(hostGot)] = accepted[Len(hostGot) + (k - Len(hostGot))]
                BY <1>2, <4>1 DEF InFlight
            <4>3. Len(hostGot) + (k - Len(hostGot)) = k
                BY <1>1
            <4> QED
                BY <2>2, <3>2, <4>2, <4>3
        <3> QED
            BY <3>1, <3>2
    <2> QED
        BY <2>2, <2>3
<1> QED
    BY <1>5, SeqEqual DEF HostReadsWhatWasAccepted, TypeOK

\* An active bit means that its transfer is queued, and a busy tx_head that all are.
LEMMA InvMeansQueued ==
    ASSUME TypeOK, TxInv
    PROVE  ActiveMeansQueued
<1>1. \A t \in Transfers :
          active[t] <=> \/ \E k \in 1 .. Len(txChain) : txChain[k] = t
                        \/ sendPc = "transmit" /\ t = xfer
    BY DEF TxInv, ActiveInv, Queued
<1>2. ASSUME sendPc \notin {"bump", "transmit"}, active[tx_head]
      PROVE  Len(txChain) = TX_NUM
    <2>1. NextFree = tx_head
        BY <1>2 DEF NextFree
    <2>2. Queued(tx_head)
        BY <1>2 DEF TxInv, ActiveInv, TypeOK
    <2>3. Len(txChain) \in Nat
        BY ChainElement
    <2> QED
        BY <2>1, <2>2, <2>3, NextFreeIsFree, NextFreeIsQueued
<1> QED
    BY <1>1, <1>2 DEF ActiveMeansQueued

\* The host reads the responses in the order they were accepted, each once and
\* unaltered, through any number of transfers and responses
\* (usb_cmsis_dap.c:186-200).
THEOREM HostReadsWhatWasAcceptedCorrect ==
    ASSUME ~AnyTimeTxConfig
    PROVE  Spec => []HostReadsWhatWasAccepted
<1>1. TypeOK /\ TxInv => HostReadsWhatWasAccepted
    BY InvMeansInOrder
<1> QED
    BY <1>1, TxInvCorrect, PTL

\* send never takes a queued transfer for a free one, nor waits for one that nobody
\* will complete (usb_cmsis_dap.c:173-190).
THEOREM ActiveMeansQueuedCorrect ==
    ASSUME ~AnyTimeTxConfig
    PROVE  Spec => []ActiveMeansQueued
<1>1. TypeOK /\ TxInv => ActiveMeansQueued
    BY InvMeansQueued
<1> QED
    BY <1>1, TxInvCorrect, PTL
=============================================================================
