-------------------------- MODULE CmsisDapRxProofs --------------------------
(***************************************************************************)
(* Proofs about CmsisDapRx, for every RX_NUM, every number of packets and  *)
(* of configurations, and packets of any length.                           *)
(***************************************************************************)
EXTENDS CmsisDapRx, SequenceTheorems, TLAPS

USE RxNumAssumption, RxBoundsAssumption, PacketLenAssumption,
    AnyTimeConfigAssumption

-----------------------------------------------------------------------------
(* The ring's arithmetic.                                                  *)

\* Wrap stays inside rx_list (usb_cmsis_dap.c:123-124, 148-149).
LEMMA WrapType == \A x \in Slots : Wrap(x) \in Slots /\ Wrap(x) # x
BY DEF Wrap, Slots

\* A ring of RX_NUM + 1 slots holds at most RX_NUM, and none when head = tail.
LEMMA DistanceType ==
    \A x, y \in Slots : /\ Distance(x, y) \in Slots
                        /\ Distance(x, y) = 0 <=> x = y
BY DEF Distance, Slots

\* rx_event, advancing the head of a ring that is not full, adds one slot.
LEMMA DistanceHead ==
    \A x, y \in Slots : Distance(x, y) < RX_NUM =>
        Distance(x, Wrap(y)) = Distance(x, y) + 1
BY DEF Distance, Wrap, Slots

\* recv, advancing the tail of a ring that is not empty, removes one.
LEMMA DistanceTail ==
    \A x, y \in Slots : x # y => Distance(Wrap(x), y) = Distance(x, y) - 1
BY DEF Distance, Wrap, Slots

\* Different slots are at different distances.
LEMMA DistanceInjective ==
    \A x, y, z \in Slots : Distance(x, y) = Distance(x, z) => y = z
BY DEF Distance, Slots

\* The slot the head moves to was free, and is the only one that becomes filled.
LEMMA BetweenHead ==
    ASSUME NEW x \in Slots, NEW y \in Slots, Distance(x, y) < RX_NUM
    PROVE  /\ Wrap(y) # x
           /\ Wrap(y) \notin Between(x, y)
           /\ Between(x, Wrap(y)) = Between(x, y) \union {Wrap(y)}
<1>1. /\ Wrap(y) \in Slots
      /\ Distance(x, Wrap(y)) = Distance(x, y) + 1
      /\ Distance(x, y) \in Int
    BY WrapType, DistanceHead, DistanceType DEF Slots
<1>2. Wrap(y) # x
    BY <1>1, DistanceType DEF Slots
<1>3. Wrap(y) \notin Between(x, y)
    BY <1>1 DEF Between
<1>4. ASSUME NEW s \in Slots
      PROVE  Distance(x, s) =< Distance(x, Wrap(y))
                <=> Distance(x, s) =< Distance(x, y) \/ s = Wrap(y)
    <2>1. Distance(x, s) \in Int
        BY DistanceType DEF Slots
    <2>2. Distance(x, s) = Distance(x, Wrap(y)) => s = Wrap(y)
        BY <1>1, DistanceInjective
    <2> QED
        BY <1>1, <2>1, <2>2
<1> QED
    BY <1>1, <1>2, <1>3, <1>4 DEF Between

\* The slot the tail moves to was filled, and is the only one that is not now.
LEMMA BetweenTail ==
    ASSUME NEW x \in Slots, NEW y \in Slots, x # y
    PROVE  /\ Wrap(x) \in Between(x, y)
           /\ Distance(x, Wrap(x)) = 1
           /\ Between(Wrap(x), y) = Between(x, y) \ {Wrap(x)}
<1>1. Wrap(x) \in Slots /\ Wrap(x) # x
    BY WrapType
<1>2. Distance(x, Wrap(x)) = 1
    BY DEF Distance, Wrap, Slots
<1>3. Distance(x, y) \in Int /\ 1 =< Distance(x, y)
    BY DEF Distance, Slots
<1>4. Wrap(x) \in Between(x, y)
    BY <1>1, <1>2, <1>3 DEF Between
<1>5. ASSUME NEW s \in Slots
      PROVE  (s # Wrap(x) /\ Distance(Wrap(x), s) =< Distance(Wrap(x), y))
                <=> (s # x /\ Distance(x, s) =< Distance(x, y) /\ s # Wrap(x))
    <2>1. Distance(Wrap(x), y) = Distance(x, y) - 1
        BY DistanceTail
    <2>2. s # x => Distance(Wrap(x), s) = Distance(x, s) - 1
        BY DistanceTail
    <2>3. Distance(x, s) \in Int
        BY DistanceType DEF Slots
    <2>4. Distance(Wrap(x), x) = RX_NUM
        BY DEF Distance, Wrap, Slots
    <2>5. Distance(x, y) - 1 < RX_NUM
        BY <1>3, DistanceType DEF Slots
    <2> QED
        BY <1>3, <2>1, <2>2, <2>3, <2>4, <2>5
<1>6. Between(Wrap(x), y) = Between(x, y) \ {Wrap(x)}
    BY <1>5 DEF Between
<1> QED
    BY <1>2, <1>4, <1>6

\* An empty ring has no filled slot.
LEMMA BetweenEmpty == \A x \in Slots : Between(x, x) = {}
BY DEF Between, Distance, Slots

-----------------------------------------------------------------------------
(* The endpoint's actions, as facts about its chain.                       *)

\* Elements of the chain are buffers, and a completed one is at done + 1.
LEMMA ChainElement ==
    ASSUME Ep!FifoTypeOK
    PROVE  /\ Len(chain) \in Nat
           /\ done \in Nat /\ done =< Len(chain)
           /\ due \in Nat /\ due =< done
           /\ \A k \in 1 .. Len(chain) : chain[k] \in Buffers
BY ElementOfSeq, LenProperties DEF Ep!FifoTypeOK

\* A callback takes the first transfer off the chain.
LEMMA CallbackChain ==
    ASSUME Ep!FifoTypeOK, NEW b, Ep!Callback(b)
    PROVE  /\ Len(chain) > 0
           /\ b = chain[1]
           /\ chain' \in Seq(Buffers)
           /\ Len(chain') = Len(chain) - 1
           /\ \A k \in 1 .. Len(chain) - 1 : chain'[k] = chain[k + 1]
<1>1. chain # <<>>
    BY ChainElement, EmptySeq DEF Ep!Callback
<1>2. Len(chain) > 0
    BY ChainElement DEF Ep!Callback
<1> QED
    BY <1>1, <1>2, HeadTailProperties DEF Ep!Callback, Ep!FifoTypeOK

\* rx_queue_transfer puts its transfer behind the others.
LEMMA ScheduleChain ==
    ASSUME Ep!FifoTypeOK, NEW b \in Buffers, Ep!Schedule(b)
    PROVE  /\ chain' \in Seq(Buffers)
           /\ Len(chain') = Len(chain) + 1
           /\ \A k \in 1 .. Len(chain) : chain'[k] = chain[k]
           /\ chain'[Len(chain) + 1] = b
BY AppendProperties DEF Ep!Schedule, Ep!FifoTypeOK

\* usb_cmsis_dap_configure queues buffer 0, 1, ... RX_NUM - 1.
LEMMA ConfigureChain ==
    ASSUME NEW on, Ep!Configure([k \in 1 .. RX_NUM |-> k - 1], on)
    PROVE  /\ chain' \in Seq(Buffers)
           /\ Len(chain') = RX_NUM
           /\ \A k \in 1 .. RX_NUM : chain'[k] = k - 1
<1>1. chain' \in [1 .. RX_NUM -> Buffers]
    BY DEF Ep!Configure, Buffers
<1>2. chain' \in Seq(Buffers)
    BY <1>1, SeqDef
<1>3. Len(chain') = RX_NUM
    BY <1>1, <1>2, LenProperties
<1> QED
    BY <1>2, <1>3 DEF Ep!Configure

-----------------------------------------------------------------------------
(* Types.                                                                  *)

\* Every step keeps the variables in their types; in particular no step of
\* usb_cmsis_dap.c:107-162 indexes rx_list or rx_buffer out of bounds.
LEMMA TypeStep == TypeOK /\ [Next]_vars => TypeOK'
<1> SUFFICES ASSUME TypeOK, [Next]_vars PROVE TypeOK'
    OBVIOUS
<1> USE DEF TypeOK, Packets, Buffers, Slots
<1>1. CASE HostSend
    <2>1. chain[done + 1] \in Buffers
        <3>1. done + 1 \in 1 .. Len(chain)
            BY <1>1 DEF HostSend, PacketArrives, Ep!Retire, Ep!FifoTypeOK
        <3> QED
            BY <3>1, ChainElement
    <2>2. sent' \in Packets
        BY <1>1 DEF HostSend, PacketArrives
    <2>3. rx_buffer' \in [Buffers -> Packets]
        BY <1>1, <2>1, <2>2 DEF HostSend, PacketArrives
    <2>4. Ep!FifoTypeOK'
        BY <1>1 DEF HostSend, PacketArrives, Ep!Retire, Ep!FifoTypeOK
    <2> QED
        BY <1>1, <2>2, <2>3, <2>4 DEF HostSend, PacketArrives, ring, locals
<1>2. ASSUME NEW n \in 0 .. done, IsrWalk(n) PROVE TypeOK'
    BY <1>2 DEF IsrWalk, Ep!Walk, Ep!FifoTypeOK, ring, locals, ghosts
<1>3. ASSUME NEW t \in Buffers, rx_event(t) PROVE TypeOK'
    <2>1. Wrap(rx_head) \in Slots
        BY WrapType
    <2>2. PacketLen[rx_buffer[t]] \in Nat
        OBVIOUS
    <2>3. chain' \in Seq(Buffers) /\ Len(chain') = Len(chain) - 1
        BY <1>3, CallbackChain DEF rx_event, StoreInRing
    <2>4. Ep!FifoTypeOK'
        BY <1>3, <2>3, ChainElement
        DEF rx_event, StoreInRing, Ep!Callback, Ep!FifoTypeOK
    <2> QED
        BY <1>3, <2>1, <2>2, <2>4 DEF rx_event, StoreInRing, locals, ghosts
<1>4. ASSUME NEW v \in {0, 1}, SetConfiguration(v) PROVE TypeOK'
    <2>1. chain' \in Seq(Buffers) /\ Len(chain') = RX_NUM
        BY <1>4, ConfigureChain DEF SetConfiguration, EmptyRing
    <2>2. Ep!FifoTypeOK'
        BY <1>4, <2>1 DEF SetConfiguration, EmptyRing, Ep!Configure, Ep!FifoTypeOK
    <2>3. UNCHANGED <<rx_list, rx_list_transfer_len, rx_buffer, recvPc, tail,
                      i, len, USB_Request, sent>>
        BY <1>4 DEF SetConfiguration, EmptyRing, locals
    <2>4. /\ usb_configuration' \in {0, 1}
          /\ rx_head' \in Slots /\ rx_tail' \in Slots
          /\ nextPacket' \in Nat
          /\ configs' \in Nat
        BY <1>4 DEF SetConfiguration, EmptyRing
    <2> QED
        BY <2>2, <2>3, <2>4 DEF Ep!FifoTypeOK
<1>5. CASE BusReset
    BY <1>5 DEF BusReset, Ep!Flush, Ep!FifoTypeOK, ring, locals, ghosts
<1>6. CASE Task
    <2> USE DEF InTask, endpoint, Ep!FifoTypeOK, ring, locals, ghosts
    <2>1. CASE RecvCall
        BY <2>1 DEF RecvCall
    <2>2. CASE RecvCheckConfiguration
        BY <2>2 DEF RecvCheckConfiguration
    <2>3. CASE RecvPoll
        BY <2>3 DEF RecvPoll
    <2>4. CASE RecvTake
        BY <2>4, WrapType DEF RecvTake
    <2>5. CASE RecvLength
        BY <2>5 DEF RecvLength
    <2>6. CASE RecvAdvance
        BY <2>6 DEF RecvAdvance
    <2>7. CASE RecvCopy
        BY <2>7 DEF RecvCopy
    <2>8. CASE RecvRequeue
        <3> HIDE DEF Ep!FifoTypeOK
        <3>1. chain' \in Seq(Buffers) /\ Len(chain') = Len(chain) + 1
            BY <2>8, ScheduleChain DEF RecvRequeue, RecvReturn
        <3>2. Ep!FifoTypeOK'
            BY <2>8, <3>1, ChainElement
            DEF RecvRequeue, RecvReturn, Ep!Schedule, Ep!FifoTypeOK
        <3>3. UNCHANGED <<usb_configuration, ring, rx_buffer, locals,
                          USB_Request, sent, configs>>
            BY <2>8 DEF RecvRequeue, RecvReturn
        <3>4. recvPc' = "idle" /\ nextPacket' \in Nat
            BY <2>8 DEF RecvRequeue, RecvReturn
        <3> QED
            BY <3>2, <3>3, <3>4 DEF Ep!FifoTypeOK
    <2> QED
        BY <1>6, <2>1, <2>2, <2>3, <2>4, <2>5, <2>6, <2>7, <2>8 DEF Task
<1>7. CASE UNCHANGED vars
    BY <1>7 DEF vars, Ep!FifoTypeOK, endpoint, ring, locals, ghosts
<1> QED
    BY <1>1, <1>2, <1>3, <1>4, <1>5, <1>6, <1>7 DEF Next, Completions

\* TypeOK holds of the empty ring and the unconfigured endpoint.
LEMMA TypeInit == Init => TypeOK
<1> SUFFICES ASSUME Init PROVE TypeOK
    OBVIOUS
<1>1. 0 \in Buffers /\ 0 \in Slots /\ 0 \in Packets
    BY DEF Buffers, Slots, Packets
<1>2. Ep!FifoTypeOK
    <2>1. irq \in BOOLEAN /\ live \in BOOLEAN
        BY Zenon DEF Init, Ep!FifoInit
    <2>2. chain \in Seq(Buffers) /\ Len(chain) = 0
        BY EmptySeq DEF Init, Ep!FifoInit
    <2>3. done \in 0 .. Len(chain) /\ due \in 0 .. done
        BY <2>2 DEF Init, Ep!FifoInit
    <2> QED
        BY <2>1, <2>2, <2>3 DEF Ep!FifoTypeOK
<1>3. /\ rx_list \in [Slots -> Buffers]
      /\ rx_list_transfer_len \in [Slots -> Nat]
      /\ rx_buffer \in [Buffers -> Packets]
    BY <1>1 DEF Init, NoPacket
<1> QED
    BY <1>1, <1>2, <1>3 DEF Init, TypeOK, NoPacket

\* The type invariant of the receive path, for every reachable state.
THEOREM TypeCorrect == Spec => []TypeOK
BY TypeInit, TypeStep, PTL DEF Spec
-----------------------------------------------------------------------------
(* The inductive invariant.  What keeps the ring from overrunning is a     *)
(* count: the RX_NUM buffers are in the chain, in the ring or with the     *)
(* task.  What keeps packets in order is that they are numbered without a  *)
(* gap along the way from the task through the ring to the chain.          *)

\* recv's copy of rx_tail is current until recv moves it, and the ring is not
\* empty when recv takes from it.
LocalsInv ==
    /\ recvPc \in {"config", "poll", "take"} => tail = rx_tail
    /\ recvPc = "take" => rx_tail # rx_head

CountInv ==
    IF configs = 0
    THEN /\ usb_configuration = 0
         /\ chain = <<>>
         /\ rx_head = rx_tail
         /\ recvPc \in {"idle", "config"}
    ELSE Len(chain) + RingLength + Held = RX_NUM

\* The packets the host has sent: returned, held, in the ring, and completed in
\* the chain, numbered in this order.
OrderInv ==
    /\ sent + 1 = nextPacket + Held + RingLength + done
    /\ \A s \in Filled :
           /\ rx_buffer[rx_list[s]]
                 = nextPacket + Held + Distance(RingTail, s) - 1
           /\ rx_list_transfer_len[s] = PacketLen[rx_buffer[rx_list[s]]]
    /\ \A k \in 1 .. done :
           rx_buffer[chain[k]] = nextPacket + Held + RingLength + k - 1

\* The packet recv is returning is the next one, and what it has copied of it is
\* right.
ReturnInv ==
    /\ Holding => rx_buffer[i] = nextPacket
    /\ recvPc = "length" => rx_list_transfer_len[tail] = PacketLen[nextPacket]
    /\ recvPc \in {"advance", "copy", "requeue"} => len = PacketLen[nextPacket]
    /\ recvPc = "requeue" /\ len > 0 => USB_Request = nextPacket

RxInv == LocalsInv /\ CountInv /\ ExclusiveOwnership /\ OrderInv /\ ReturnInv
-----------------------------------------------------------------------------
(* What each step does to the ring as the proofs see it.                   *)

\* RingTail is a slot, and the ring holds between 0 and RX_NUM buffers.
LEMMA RingType ==
    ASSUME TypeOK
    PROVE  /\ RingTail \in Slots /\ rx_head \in Slots
           /\ RingLength \in 0 .. RX_NUM
           /\ Held \in 0 .. 1
           /\ Filled \subseteq Slots
           /\ \A s \in Slots : Distance(RingTail, s) \in 0 .. RX_NUM
<1>1. RingTail \in Slots /\ rx_head \in Slots
    BY DEF TypeOK, RingTail
<1>2. \A s \in Slots : Distance(RingTail, s) \in Slots
    BY <1>1, DistanceType
<1>3. RingLength \in Slots
    BY <1>1, <1>2 DEF RingLength
<1> QED
    BY <1>1, <1>2, <1>3 DEF Held, Filled, Between, Slots

\* The steps that move no buffer into, out of or along the ring.
Quiet ==
    \/ HostSend \/ BusReset \/ \E n \in 0 .. done : IsrWalk(n)
    \/ RecvCall \/ RecvCheckConfiguration \/ RecvPoll
    \/ RecvLength \/ RecvAdvance \/ RecvCopy
    \/ UNCHANGED vars

ringView == <<RingTail, RingLength, Held, Holding, Filled, rx_head, rx_list,
              rx_list_transfer_len, configs, nextPacket>>

\* A quiet step changes nothing the ring's invariants speak of but packets.
LEMMA QuietRing ==
    ASSUME TypeOK, LocalsInv, Quiet
    PROVE  UNCHANGED ringView
<1> USE DEF InTask, ring, locals, ghosts
<1> SUFFICES /\ RingTail' = RingTail
             /\ Holding' <=> Holding
             /\ UNCHANGED <<rx_head, rx_list, rx_list_transfer_len, configs,
                            nextPacket>>
    BY DEF ringView, RingLength, Held, Filled, Between, Distance
<1>1. CASE HostSend \/ BusReset \/ \E n \in 0 .. done : IsrWalk(n)
    BY <1>1 DEF HostSend, PacketArrives, BusReset, IsrWalk, RingTail, Holding
<1>2. CASE RecvCall \/ RecvCheckConfiguration \/ RecvPoll
    BY <1>2 DEF RecvCall, RecvCheckConfiguration, RecvPoll, RingTail, Holding
<1>3. CASE RecvLength \/ RecvAdvance \/ RecvCopy
    BY <1>3 DEF RecvLength, RecvAdvance, RecvCopy, RingTail, Holding
<1>4. CASE UNCHANGED vars
    BY <1>4 DEF vars, RingTail, Holding
<1> QED
    BY <1>1, <1>2, <1>3, <1>4 DEF Quiet

\* rx_event finds room in the ring and fills the slot behind the head.
LEMMA EventRing ==
    ASSUME TypeOK, CountInv, NEW t \in Buffers, rx_event(t)
    PROVE  /\ RingLength < RX_NUM
           /\ rx_head' = Wrap(rx_head) /\ rx_head' \in Slots
           /\ UNCHANGED <<RingTail, Held, Holding, configs, nextPacket>>
           /\ RingLength' = RingLength + 1
           /\ rx_head' # RingTail
           /\ rx_head' \notin Filled
           /\ Filled' = Filled \union {rx_head'}
<1>1. Len(chain) > 0 /\ Len(chain) \in Nat
    BY CallbackChain, ChainElement DEF rx_event, StoreInRing, TypeOK
<1>2. configs # 0
    BY <1>1, EmptySeq DEF CountInv
<1>3. RingLength < RX_NUM
    BY <1>1, <1>2, RingType DEF CountInv
<1>4. /\ rx_head' = Wrap(rx_head)
      /\ RingTail' = RingTail
      /\ Held' = Held /\ (Holding' <=> Holding)
      /\ UNCHANGED <<configs, nextPacket>>
    BY DEF rx_event, StoreInRing, RingTail, Held, Holding, locals, ghosts
<1>5. RingLength' = RingLength + 1
    BY <1>3, <1>4, RingType, DistanceHead DEF RingLength
<1>6. /\ rx_head' # RingTail
      /\ rx_head' \notin Filled
      /\ Filled' = Filled \union {rx_head'}
    BY <1>3, <1>4, RingType, BetweenHead DEF RingLength, Filled
<1>7. rx_head' \in Slots
    BY <1>4, RingType, WrapType
<1> QED
    BY <1>3, <1>4, <1>5, <1>6, <1>7

\* recv takes the slot in front, and the buffer in it.
LEMMA TakeRing ==
    ASSUME TypeOK, LocalsInv, RecvTake
    PROVE  /\ RingTail' = Wrap(RingTail)
           /\ RingTail' \in Filled
           /\ Distance(RingTail, RingTail') = 1
           /\ i' = rx_list[RingTail'] /\ tail' = RingTail'
           /\ RingLength' = RingLength - 1
           /\ Filled' = Filled \ {RingTail'}
           /\ \A s \in Slots \ {RingTail} :
                  Distance(RingTail', s) = Distance(RingTail, s) - 1
           /\ Held = 0 /\ Held' = 1 /\ ~Holding /\ Holding'
           /\ UNCHANGED <<rx_head, rx_list, rx_list_transfer_len, configs,
                          nextPacket, sent, rx_buffer, chain, done, due>>
<1>1. /\ RingTail = rx_tail /\ tail = rx_tail /\ RingTail # rx_head
      /\ RingTail' = Wrap(RingTail) /\ tail' = RingTail'
      /\ i' = rx_list[RingTail']
      /\ Held = 0 /\ Held' = 1 /\ ~Holding /\ Holding'
      /\ UNCHANGED <<rx_head, rx_list, rx_list_transfer_len, configs,
                     nextPacket, sent, rx_buffer, chain, done, due>>
    BY DEF RecvTake, InTask, LocalsInv, RingTail, Held, Holding, ring, endpoint,
           ghosts
<1>2. RingTail \in Slots /\ rx_head \in Slots
    BY RingType
<1>3. RingLength' = RingLength - 1
    BY <1>1, <1>2, DistanceTail DEF RingLength
<1>4. /\ RingTail' \in Filled /\ Distance(RingTail, RingTail') = 1
      /\ Filled' = Filled \ {RingTail'}
    BY <1>1, <1>2, BetweenTail DEF Filled
<1>5. \A s \in Slots \ {RingTail} :
          Distance(RingTail', s) = Distance(RingTail, s) - 1
    BY <1>1, <1>2, DistanceTail
<1> QED
    BY <1>1, <1>3, <1>4, <1>5

\* Queueing the buffer again leaves the ring alone.
LEMMA RequeueRing ==
    ASSUME TypeOK, RecvRequeue
    PROVE  /\ UNCHANGED <<RingTail, RingLength, Filled, rx_head, rx_list,
                          rx_list_transfer_len, configs, sent, rx_buffer,
                          done, due>>
           /\ Held = 1 /\ Held' = 0 /\ Holding /\ ~Holding'
           /\ nextPacket' = nextPacket + 1
<1>1. /\ RingTail' = RingTail
      /\ UNCHANGED <<rx_head, rx_list, rx_list_transfer_len, configs, sent,
                     rx_buffer, done, due>>
      /\ Held = 1 /\ Held' = 0 /\ Holding /\ ~Holding'
      /\ nextPacket' = nextPacket + 1
    BY DEF RecvRequeue, RecvReturn, InTask, Ep!Schedule, RingTail, Held, Holding, ring,
           locals
<1> QED
    BY <1>1 DEF RingLength, Filled, Between, Distance

\* SET_CONFIGURATION, at a safe moment, leaves an empty ring and nothing held.
LEMMA ConfigureRing ==
    ASSUME TypeOK, ~AnyTimeConfig, NEW v \in {0, 1}, SetConfiguration(v)
    PROVE  /\ RingTail' = 0 /\ rx_head' = 0 /\ rx_tail' = 0
           /\ RingLength' = 0 /\ Held' = 0 /\ ~Holding' /\ Filled' = {}
           /\ done' = 0
           /\ nextPacket' = sent + 1 /\ sent' = sent
           /\ configs' = configs + 1
           /\ UNCHANGED <<recvPc, tail>>
           /\ recvPc \in {"idle", "config", "poll"}
           /\ recvPc \in {"config", "poll"} => tail = 0
<1>1. SafeToConfigure
    BY DEF SetConfiguration, EmptyRing
<1>2. /\ rx_head' = 0 /\ rx_tail' = 0 /\ done' = 0
      /\ nextPacket' = sent + 1 /\ sent' = sent
      /\ configs' = configs + 1
      /\ UNCHANGED <<recvPc, tail>>
    BY DEF SetConfiguration, EmptyRing, Ep!Configure, locals
<1>3. /\ recvPc \in {"idle", "config", "poll"}
      /\ recvPc \in {"config", "poll"} => tail = 0
    BY <1>1 DEF SafeToConfigure
<1>4. RingTail' = 0 /\ Held' = 0 /\ ~Holding'
    BY <1>2, <1>3 DEF RingTail, Held, Holding
<1>5. 0 \in Slots
    BY DEF Slots
<1>6. RingLength' = 0 /\ Filled' = {}
    BY <1>2, <1>4, <1>5, DistanceType, BetweenEmpty DEF RingLength, Filled
<1> QED
    BY <1>2, <1>3, <1>4, <1>6

\* Next, in the cases the proofs below go through.
LEMMA NextCases ==
    ASSUME [Next]_vars
    PROVE  \/ Quiet
           \/ \E t \in Buffers : rx_event(t)
           \/ RecvTake
           \/ RecvRequeue
           \/ \E v \in {0, 1} : SetConfiguration(v)
BY DEF Next, Completions, Task, Quiet

-----------------------------------------------------------------------------
(* Each part of the invariant is kept.                                     *)

\* Only recv moves rx_tail, and only rx_event moves rx_head, away from the tail.
LEMMA LocalsStep ==
    ASSUME TypeOK, LocalsInv, CountInv, ~AnyTimeConfig, [Next]_vars
    PROVE  LocalsInv'
<1> USE DEF LocalsInv, InTask, ring, locals, ghosts
<1>1. CASE Quiet
    <2>1. CASE HostSend \/ BusReset \/ \E n \in 0 .. done : IsrWalk(n)
        BY <2>1 DEF HostSend, PacketArrives, BusReset, IsrWalk
    <2>2. CASE RecvCall \/ RecvCheckConfiguration \/ RecvPoll
        BY <2>2 DEF RecvCall, RecvCheckConfiguration, RecvPoll
    <2>3. CASE RecvLength \/ RecvAdvance \/ RecvCopy
        BY <2>3 DEF RecvLength, RecvAdvance, RecvCopy
    <2>4. CASE UNCHANGED vars
        BY <2>4 DEF vars
    <2> QED
        BY <1>1, <2>1, <2>2, <2>3, <2>4 DEF Quiet
<1>2. ASSUME NEW t \in Buffers, rx_event(t) PROVE LocalsInv'
    <2>1. rx_head' # RingTail
        BY <1>2, EventRing
    <2> QED
        BY <1>2, <2>1 DEF rx_event, StoreInRing, RingTail
<1>3. CASE RecvTake
    BY <1>3 DEF RecvTake
<1>4. CASE RecvRequeue
    BY <1>4 DEF RecvRequeue, RecvReturn
<1>5. ASSUME NEW v \in {0, 1}, SetConfiguration(v) PROVE LocalsInv'
    BY <1>5, ConfigureRing
<1> QED
    BY <1>1, <1>2, <1>3, <1>4, <1>5, NextCases

\* A step of the controller, the host or the ISR moves no buffer between owners
\* but rx_event, which moves one from the chain to the ring; the task moves one
\* from the ring to itself and one from itself to the chain.
LEMMA CountStep ==
    ASSUME TypeOK, LocalsInv, CountInv, ~AnyTimeConfig, [Next]_vars
    PROVE  CountInv'
<1>1. CASE Quiet
    <2>1. UNCHANGED ringView
        BY <1>1, QuietRing
    <2>2. chain' = chain
        BY <1>1 DEF Quiet, HostSend, PacketArrives, BusReset, IsrWalk, RecvCall,
                    RecvCheckConfiguration, RecvPoll, RecvLength, RecvAdvance,
                    RecvCopy, endpoint, vars, Ep!Retire, Ep!Flush, Ep!Walk
    <2>3. configs = 0 => /\ usb_configuration' = 0
                         /\ rx_tail' = rx_tail
                         /\ recvPc' \in {"idle", "config"}
        BY <1>1 DEF Quiet, HostSend, PacketArrives, BusReset, IsrWalk, RecvCall,
                    RecvCheckConfiguration, RecvPoll, RecvLength, RecvAdvance,
                    RecvCopy, vars, ring, InTask, CountInv
    <2> QED
        BY <2>1, <2>2, <2>3 DEF CountInv, ringView
<1>2. ASSUME NEW t \in Buffers, rx_event(t) PROVE CountInv'
    <2>1. Len(chain') = Len(chain) - 1 /\ Len(chain) \in Nat /\ Len(chain) > 0
        BY <1>2, CallbackChain, ChainElement DEF rx_event, StoreInRing, TypeOK
    <2>2. configs # 0
        BY <2>1, EmptySeq DEF CountInv
    <2> QED
        BY <1>2, <2>1, <2>2, EventRing, RingType DEF CountInv
<1>3. CASE RecvTake
    <2>1. configs # 0
        BY <1>3 DEF CountInv, RecvTake, InTask
    <2>2. /\ RingLength' = RingLength - 1
          /\ Held = 0 /\ Held' = 1
          /\ UNCHANGED <<chain, configs>>
        BY <1>3, TakeRing
    <2>3. RingLength \in Int /\ Len(chain) \in Int /\ RX_NUM \in Int
        BY RingType, ChainElement DEF TypeOK
    <2> QED
        BY <2>1, <2>2, <2>3 DEF CountInv
<1>4. CASE RecvRequeue
    <2>1. configs # 0
        BY <1>4 DEF CountInv, RecvRequeue, RecvReturn, InTask
    <2>2. Len(chain') = Len(chain) + 1 /\ Len(chain) \in Nat
        BY <1>4, ScheduleChain, ChainElement DEF RecvRequeue, RecvReturn, TypeOK
    <2>3. RingLength' = RingLength /\ configs' = configs
        BY <1>4, RequeueRing
    <2>4. Held = 1 /\ Held' = 0
        BY <1>4, RequeueRing
    <2> QED
        BY <2>1, <2>2, <2>3, <2>4, RingType DEF CountInv
<1>5. ASSUME NEW v \in {0, 1}, SetConfiguration(v) PROVE CountInv'
    <2>1. Len(chain') = RX_NUM
        BY <1>5, ConfigureChain DEF SetConfiguration, EmptyRing
    <2>2. RingLength' = 0 /\ Held' = 0 /\ configs' = configs + 1
        BY <1>5, ConfigureRing
    <2>3. configs' # 0
        BY <2>2 DEF TypeOK
    <2> QED
        BY <2>1, <2>2, <2>3 DEF CountInv
<1> QED
    BY <1>1, <1>2, <1>3, <1>4, <1>5, NextCases

\* The chain and the held buffer across a quiet step.
LEMMA QuietChain ==
    ASSUME Quiet
    PROVE  /\ chain' = chain
           /\ Holding => i' = i
<1> USE DEF Quiet, InTask, Holding, endpoint, locals
<1> QED
    BY DEF HostSend, PacketArrives, BusReset, IsrWalk, RecvCall, RecvCheckConfiguration,
           RecvPoll, RecvLength, RecvAdvance, RecvCopy, vars, Ep!Retire,
           Ep!Flush, Ep!Walk

\* A buffer changes owner in three steps only, and each gives it to one owner.
LEMMA OwnershipStep ==
    ASSUME TypeOK, LocalsInv, CountInv, ExclusiveOwnership, ~AnyTimeConfig,
           [Next]_vars
    PROVE  ExclusiveOwnership'
<1>1. CASE Quiet
    <2>1. UNCHANGED <<Filled, rx_list, Holding>> /\ chain' = chain
        BY <1>1, QuietRing, QuietChain DEF ringView
    <2>2. Holding => i' = i
        BY <1>1, QuietChain
    <2> QED
        BY <2>1, <2>2 DEF ExclusiveOwnership
<1>2. ASSUME NEW t \in Buffers, rx_event(t) PROVE ExclusiveOwnership'
    <2>1. /\ Len(chain) \in Nat /\ Len(chain) > 0 /\ t = chain[1]
          /\ Len(chain') = Len(chain) - 1
          /\ \A k \in 1 .. Len(chain) - 1 : chain'[k] = chain[k + 1]
        BY <1>2, CallbackChain, ChainElement DEF rx_event, StoreInRing, TypeOK
    <2>2. /\ rx_head' \in Slots /\ rx_head' \notin Filled
          /\ Filled' = Filled \union {rx_head'}
          /\ Holding' <=> Holding
        BY <1>2, EventRing
    <2>3. rx_list' = [rx_list EXCEPT ![rx_head'] = t] /\ i' = i
        BY <1>2 DEF rx_event, StoreInRing, locals
    <2>4. rx_list \in [Slots -> Buffers] /\ Filled \subseteq Slots
        BY RingType DEF TypeOK
    <2>5. /\ rx_list'[rx_head'] = t
          /\ \A s \in Filled : rx_list'[s] = rx_list[s]
        BY <2>2, <2>3, <2>4
    <2>6. ASSUME NEW j \in 1 .. Len(chain'), NEW k \in 1 .. Len(chain'),
                 chain'[j] = chain'[k]
          PROVE  j = k
        <3>1. /\ j \in 1 .. Len(chain) - 1 /\ k \in 1 .. Len(chain) - 1
              /\ j + 1 \in 1 .. Len(chain) /\ k + 1 \in 1 .. Len(chain)
            BY <2>1
        <3>2. chain[j + 1] = chain[k + 1]
            BY <3>1, <2>1, <2>6
        <3>3. j + 1 = k + 1
            BY <3>1, <3>2 DEF ExclusiveOwnership
        <3> QED
            BY <3>1, <3>3
    <2>7. \A j \in 1 .. Len(chain') : chain'[j] # t
        BY <2>1 DEF ExclusiveOwnership
    <2>8. \A s \in Filled : rx_list[s] # t
        BY <2>1 DEF ExclusiveOwnership
    <2>9. \A s, u \in Filled' : rx_list'[s] = rx_list'[u] => s = u
        BY <2>2, <2>5, <2>8 DEF ExclusiveOwnership
    <2>10. \A j \in 1 .. Len(chain'), s \in Filled' : chain'[j] # rx_list'[s]
        BY <2>1, <2>2, <2>5, <2>7 DEF ExclusiveOwnership
    <2>11. Holding' => /\ \A j \in 1 .. Len(chain') : chain'[j] # i'
                       /\ \A s \in Filled' : rx_list'[s] # i'
        BY <2>1, <2>2, <2>3, <2>5 DEF ExclusiveOwnership
    <2> QED
        BY <2>6, <2>9, <2>10, <2>11 DEF ExclusiveOwnership
<1>3. CASE RecvTake
    BY <1>3, TakeRing DEF ExclusiveOwnership
<1>4. CASE RecvRequeue
    <2>1. /\ Len(chain) \in Nat
          /\ Len(chain') = Len(chain) + 1
          /\ \A k \in 1 .. Len(chain) : chain'[k] = chain[k]
          /\ chain'[Len(chain) + 1] = i
        BY <1>4, ScheduleChain, ChainElement DEF RecvRequeue, RecvReturn, TypeOK
    <2>2. /\ UNCHANGED <<Filled, rx_list>>
          /\ Holding /\ ~Holding'
        BY <1>4, RequeueRing
    <2>3. \A j \in 1 .. Len(chain') :
              j \in 1 .. Len(chain) \/ j = Len(chain) + 1
        BY <2>1
    <2>4. \A j, k \in 1 .. Len(chain') : chain'[j] = chain'[k] => j = k
        BY <2>1, <2>2, <2>3 DEF ExclusiveOwnership
    <2>5. \A j \in 1 .. Len(chain'), s \in Filled' : chain'[j] # rx_list'[s]
        BY <2>1, <2>2, <2>3 DEF ExclusiveOwnership
    <2> QED
        BY <2>2, <2>4, <2>5 DEF ExclusiveOwnership
<1>5. ASSUME NEW v \in {0, 1}, SetConfiguration(v) PROVE ExclusiveOwnership'
    <2>1. Filled' = {} /\ ~Holding'
        BY <1>5, ConfigureRing
    <2>2. /\ Len(chain') = RX_NUM
          /\ \A k \in 1 .. RX_NUM : chain'[k] = k - 1
        BY <1>5, ConfigureChain DEF SetConfiguration, EmptyRing
    <2> QED
        BY <2>1, <2>2 DEF ExclusiveOwnership
<1> QED
    BY <1>1, <1>2, <1>3, <1>4, <1>5, NextCases

\* Packets stay numbered without a gap from the task to the end of the chain.
LEMMA OrderStep ==
    ASSUME TypeOK, LocalsInv, CountInv, ExclusiveOwnership, OrderInv,
           ~AnyTimeConfig, [Next]_vars
    PROVE  OrderInv'
<1>1. CASE HostSend
    <2>1. UNCHANGED ringView /\ chain' = chain
        BY <1>1, QuietRing, QuietChain DEF Quiet
    <2>2. /\ sent' = sent + 1 /\ done' = done + 1
          /\ done + 1 \in 1 .. Len(chain)
          /\ rx_buffer' = [rx_buffer EXCEPT ![chain[done + 1]] = sent + 1]
        BY <1>1 DEF HostSend, PacketArrives, Ep!Retire, TypeOK, Ep!FifoTypeOK
    <2>3. /\ done \in Nat
          /\ \A k \in 1 .. Len(chain) : chain[k] \in Buffers
          /\ rx_buffer \in [Buffers -> Packets]
          /\ Filled \subseteq Slots /\ rx_list \in [Slots -> Buffers]
        BY ChainElement, RingType DEF TypeOK
    <2>4. rx_buffer'[chain[done + 1]] = sent + 1
        BY <2>2, <2>3
    <2>5. \A b \in Buffers : b # chain[done + 1] => rx_buffer'[b] = rx_buffer[b]
        BY <2>2, <2>3
    <2>6. \A s \in Filled : rx_buffer'[rx_list[s]] = rx_buffer[rx_list[s]]
        BY <2>2, <2>3, <2>5 DEF ExclusiveOwnership
    <2>7. \A k \in 1 .. done : rx_buffer'[chain[k]] = rx_buffer[chain[k]]
        BY <2>2, <2>3, <2>5 DEF ExclusiveOwnership
    <2>8. sent' + 1 = nextPacket' + Held' + RingLength' + done'
        <3>1. /\ sent' = sent + 1 /\ done' = done + 1
              /\ UNCHANGED <<nextPacket, Held, RingLength>>
            BY <2>1, <2>2 DEF ringView
        <3>2. sent + 1 = nextPacket + Held + RingLength + done
            BY DEF OrderInv
        <3>3. sent \in Int
            BY DEF TypeOK, Packets
        <3>4. nextPacket \in Nat /\ Held \in 0 .. 1 /\ RingLength \in 0 .. RX_NUM
            BY RingType DEF TypeOK
        <3> QED
            BY <3>1, <3>2, <3>3, <3>4, <2>3
    <2>9. \A s \in Filled' :
              /\ rx_buffer'[rx_list'[s]]
                    = nextPacket' + Held' + Distance(RingTail', s) - 1
              /\ rx_list_transfer_len'[s] = PacketLen[rx_buffer'[rx_list'[s]]]
        BY <2>1, <2>6 DEF OrderInv, ringView
    <2>10. ASSUME NEW k \in 1 .. done'
           PROVE  rx_buffer'[chain'[k]]
                    = nextPacket' + Held' + RingLength' + k - 1
        <3>1. CASE k \in 1 .. done
            BY <3>1, <2>1, <2>7 DEF OrderInv, ringView
        <3>2. CASE k = done + 1
            BY <3>2, <2>1, <2>3, <2>4, RingType
            DEF OrderInv, ringView, TypeOK, Packets
        <3> QED
            BY <3>1, <3>2, <2>2, <2>3
    <2> QED
        BY <2>8, <2>9, <2>10, Zenon DEF OrderInv, Distance
<1>2. CASE Quiet /\ ~HostSend
    <2>1. UNCHANGED ringView /\ chain' = chain
        BY <1>2, QuietRing, QuietChain
    <2>2. UNCHANGED <<sent, done, rx_buffer>>
        BY <1>2 DEF Quiet, BusReset, IsrWalk, RecvCall, RecvCheckConfiguration,
                    RecvPoll, RecvLength, RecvAdvance, RecvCopy, vars, Ep!Flush,
                    Ep!Walk, endpoint, ghosts
    <2> QED
        BY <2>1, <2>2 DEF OrderInv, ringView, Distance
<1>3. ASSUME NEW t \in Buffers, rx_event(t) PROVE OrderInv'
    <2>1. /\ Len(chain) \in Nat /\ t = chain[1]
          /\ \A k \in 1 .. Len(chain) - 1 : chain'[k] = chain[k + 1]
          /\ done \in Nat /\ done =< Len(chain) /\ done > 0
          /\ done' = done - 1
        BY <1>3, CallbackChain, ChainElement
        DEF rx_event, StoreInRing, TypeOK, Ep!Callback
    <2>2. /\ rx_head' \in Slots /\ rx_head' \notin Filled
          /\ Filled' = Filled \union {rx_head'}
          /\ RingLength' = RingLength + 1
          /\ UNCHANGED <<RingTail, Held, nextPacket>>
        BY <1>3, EventRing
    <2>3. /\ rx_list' = [rx_list EXCEPT ![rx_head'] = t]
          /\ rx_list_transfer_len' =
                 [rx_list_transfer_len EXCEPT ![rx_head'] = PacketLen[rx_buffer[t]]]
          /\ UNCHANGED <<rx_buffer, sent>>
        BY <1>3 DEF rx_event, StoreInRing, ghosts
    <2>4. /\ rx_list \in [Slots -> Buffers] /\ Filled \subseteq Slots
          /\ rx_list_transfer_len \in [Slots -> Nat]
          /\ nextPacket \in Nat
          /\ Held \in 0 .. 1 /\ RingLength \in 0 .. RX_NUM
        BY RingType DEF TypeOK
    <2>5. /\ rx_list'[rx_head'] = t
          /\ rx_list_transfer_len'[rx_head'] = PacketLen[rx_buffer[t]]
        BY <2>2, <2>3, <2>4
    <2>6. \A s \in Filled : /\ rx_list'[s] = rx_list[s]
                             /\ rx_list_transfer_len'[s] = rx_list_transfer_len[s]
        BY <2>2, <2>3, <2>4
    <2>7. sent' + 1 = nextPacket' + Held' + RingLength' + done'
        BY <2>1, <2>2, <2>3, <2>4 DEF OrderInv
    <2>8. rx_buffer[t] = nextPacket + Held + RingLength
        <3>1. rx_buffer[chain[1]] = nextPacket + Held + RingLength + 1 - 1
            BY <2>1 DEF OrderInv
        <3> QED
            BY <3>1, <2>1, <2>4
    <2>9. Distance(RingTail', rx_head') = RingLength + 1
        BY <2>2 DEF RingLength
    <2>10. ASSUME NEW s \in Filled'
           PROVE  /\ rx_buffer'[rx_list'[s]]
                        = nextPacket' + Held' + Distance(RingTail', s) - 1
                  /\ rx_list_transfer_len'[s]
                        = PacketLen[rx_buffer'[rx_list'[s]]]
        <3>1. CASE s \in Filled
            <4>1. Distance(RingTail', s) = Distance(RingTail, s)
                BY <2>2 DEF Distance
            <4> QED
                BY <3>1, <4>1, <2>2, <2>3, <2>6 DEF OrderInv
        <3>2. CASE s = rx_head'
            BY <3>2, <2>2, <2>3, <2>4, <2>5, <2>8, <2>9
        <3> QED
            BY <3>1, <3>2, <2>2
    <2>11. ASSUME NEW k \in 1 .. done'
           PROVE  rx_buffer'[chain'[k]]
                    = nextPacket' + Held' + RingLength' + k - 1
        <3>1. k + 1 \in 1 .. done /\ k \in 1 .. Len(chain) - 1 /\ k \in Nat
            BY <2>1
        <3>2. rx_buffer[chain[k + 1]]
                = nextPacket + Held + RingLength + (k + 1) - 1
            BY <3>1 DEF OrderInv
        <3> QED
            BY <3>1, <3>2, <2>1, <2>2, <2>3, <2>4
    <2> QED
        BY <2>7, <2>10, <2>11, Zenon DEF OrderInv, Distance
<1>4. CASE RecvTake
    <2>1. /\ RingLength' = RingLength - 1
          /\ Filled' = Filled \ {RingTail'}
          /\ \A s \in Slots \ {RingTail} :
                 Distance(RingTail', s) = Distance(RingTail, s) - 1
          /\ Held = 0 /\ Held' = 1
          /\ UNCHANGED <<rx_list, rx_list_transfer_len, nextPacket, sent,
                         rx_buffer, chain, done>>
        BY <1>4, TakeRing
    <2>2. /\ Filled \subseteq Slots /\ RingTail \notin Filled
          /\ RingLength \in 0 .. RX_NUM
          /\ \A s \in Slots : Distance(RingTail, s) \in 0 .. RX_NUM
          /\ nextPacket \in Nat /\ done \in Nat
        BY RingType, ChainElement DEF TypeOK, Filled, Between
    <2>3. sent' + 1 = nextPacket' + Held' + RingLength' + done'
        BY <2>1, <2>2 DEF OrderInv
    <2>4. ASSUME NEW s \in Filled'
          PROVE  /\ rx_buffer'[rx_list'[s]]
                       = nextPacket' + Held' + Distance(RingTail', s) - 1
                 /\ rx_list_transfer_len'[s]
                       = PacketLen[rx_buffer'[rx_list'[s]]]
        <3>1. s \in Filled /\ s \in Slots \ {RingTail}
            BY <2>1, <2>2
        <3>2. Distance(RingTail', s) = Distance(RingTail, s) - 1
            BY <3>1, <2>1
        <3>3. Distance(RingTail, s) \in Nat
            BY <3>1, <2>2
        <3>4. /\ rx_buffer[rx_list[s]]
                    = nextPacket + Held + Distance(RingTail, s) - 1
              /\ rx_list_transfer_len[s] = PacketLen[rx_buffer[rx_list[s]]]
            BY <3>1 DEF OrderInv
        <3> QED
            BY <3>2, <3>3, <3>4, <2>1, <2>2
    <2>5. \A k \in 1 .. done' :
              rx_buffer'[chain'[k]]
                = nextPacket' + Held' + RingLength' + k - 1
        BY <2>1, <2>2 DEF OrderInv
    <2> QED
        BY <2>3, <2>4, <2>5, Zenon DEF OrderInv, Distance
<1>5. CASE RecvRequeue
    <2>1. /\ UNCHANGED <<RingTail, RingLength, Filled, rx_list,
                         rx_list_transfer_len, sent, rx_buffer, done>>
          /\ Held = 1 /\ Held' = 0 /\ nextPacket' = nextPacket + 1
        BY <1>5, RequeueRing
    <2>2. /\ \A k \in 1 .. Len(chain) : chain'[k] = chain[k]
          /\ Len(chain) \in Nat /\ done \in Nat /\ done =< Len(chain)
        BY <1>5, ScheduleChain, ChainElement DEF RecvRequeue, RecvReturn, TypeOK
    <2>3. /\ nextPacket + Held = nextPacket' + Held'
          /\ \A k \in 1 .. done : chain'[k] = chain[k]
        BY <2>1, <2>2 DEF TypeOK
    <2> QED
        BY <2>1, <2>3 DEF OrderInv, Distance
<1>6. ASSUME NEW v \in {0, 1}, SetConfiguration(v) PROVE OrderInv'
    <2>1. /\ RingLength' = 0 /\ Held' = 0 /\ Filled' = {} /\ done' = 0
          /\ nextPacket' = sent + 1 /\ sent' = sent
        BY <1>6, ConfigureRing
    <2> QED
        BY <2>1 DEF OrderInv, TypeOK, Packets
<1> QED
    BY <1>1, <1>2, <1>3, <1>4, <1>5, <1>6, NextCases

\* What recv has in hand is the next packet, with its length.
LEMMA ReturnStep ==
    ASSUME TypeOK, LocalsInv, CountInv, ExclusiveOwnership, OrderInv, ReturnInv,
           ~AnyTimeConfig, [Next]_vars
    PROVE  ReturnInv'
<1> USE DEF InTask
<1>1. CASE HostSend
    <2>1. /\ UNCHANGED <<recvPc, i, tail, len, USB_Request, nextPacket,
                         rx_list_transfer_len>>
          /\ rx_buffer' = [rx_buffer EXCEPT ![chain[done + 1]] = sent + 1]
          /\ done + 1 \in 1 .. Len(chain)
        BY <1>1 DEF HostSend, PacketArrives, Ep!Retire, TypeOK, Ep!FifoTypeOK, ring,
                    locals
    <2>2. Holding => rx_buffer'[i] = rx_buffer[i]
        BY <2>1 DEF ExclusiveOwnership, TypeOK
    <2> QED
        BY <2>1, <2>2 DEF ReturnInv, Holding
<1>2. CASE BusReset \/ \E n \in 0 .. done : IsrWalk(n)
    BY <1>2 DEF BusReset, IsrWalk, ReturnInv, Holding, ring, locals, ghosts
<1>3. ASSUME NEW t \in Buffers, rx_event(t) PROVE ReturnInv'
    <2>1. rx_head' # RingTail /\ rx_head' \in Slots
        BY <1>3, EventRing
    <2>2. /\ UNCHANGED <<recvPc, i, tail, len, USB_Request, nextPacket,
                         rx_buffer>>
          /\ rx_list_transfer_len' =
                 [rx_list_transfer_len EXCEPT ![rx_head'] = PacketLen[rx_buffer[t]]]
        BY <1>3 DEF rx_event, StoreInRing, locals, ghosts
    <2>3. recvPc = "length" =>
              rx_list_transfer_len'[tail] = rx_list_transfer_len[tail]
        BY <2>1, <2>2 DEF RingTail, TypeOK
    <2> QED
        BY <2>2, <2>3 DEF ReturnInv, Holding
<1>4. CASE RecvCall \/ RecvCheckConfiguration \/ RecvPoll \/ RecvRequeue
    BY <1>4 DEF RecvCall, RecvCheckConfiguration, RecvPoll, RecvRequeue, RecvReturn,
                ReturnInv, Holding
<1>5. CASE RecvTake
    <2>1. /\ RingTail' \in Filled /\ Distance(RingTail, RingTail') = 1
          /\ i' = rx_list[RingTail'] /\ tail' = RingTail'
          /\ Held = 0
          /\ UNCHANGED <<rx_list_transfer_len, nextPacket, rx_buffer>>
        BY <1>5, TakeRing
    <2>2. rx_buffer[rx_list[RingTail']] = nextPacket + 0 + 1 - 1
        BY <2>1 DEF OrderInv
    <2>3. /\ rx_buffer[i'] = nextPacket
          /\ rx_list_transfer_len[tail'] = PacketLen[nextPacket]
        BY <2>1, <2>2 DEF OrderInv, TypeOK
    <2>4. recvPc' = "length"
        BY <1>5 DEF RecvTake
    <2> QED
        BY <2>1, <2>3, <2>4 DEF ReturnInv, Holding
<1>6. CASE RecvLength
    BY <1>6 DEF RecvLength, ReturnInv, Holding, ring, ghosts
<1>7. CASE RecvAdvance
    BY <1>7 DEF RecvAdvance, ReturnInv, Holding, locals, ghosts
<1>8. CASE RecvCopy
    BY <1>8 DEF RecvCopy, ReturnInv, Holding, ring, locals, ghosts
<1>9. ASSUME NEW v \in {0, 1}, SetConfiguration(v) PROVE ReturnInv'
    <2>1. recvPc' \in {"idle", "config", "poll"}
        BY <1>9, ConfigureRing
    <2> QED
        BY <2>1 DEF ReturnInv, Holding
<1>10. CASE UNCHANGED vars
    BY <1>10 DEF vars, ReturnInv, Holding, ring, locals, ghosts
<1> QED
    BY <1>1, <1>2, <1>3, <1>4, <1>5, <1>6, <1>7, <1>8, <1>9, <1>10
    DEF Next, Completions, Task

\* All buffers are with nobody until the first SET_CONFIGURATION.
LEMMA RxInvInit == Init => RxInv
<1> SUFFICES ASSUME Init PROVE RxInv
    OBVIOUS
<1>1. /\ chain = <<>> /\ Len(chain) = 0 /\ done = 0
      /\ rx_head = 0 /\ rx_tail = 0 /\ recvPc = "idle"
      /\ usb_configuration = 0 /\ configs = 0 /\ sent = 0 /\ nextPacket = 1
    BY EmptySeq DEF Init, Ep!FifoInit
<1>2. RingTail = 0 /\ ~Holding /\ Held = 0 /\ 0 \in Slots
    BY <1>1 DEF RingTail, Holding, Held, Slots
<1>3. RingLength = 0 /\ Filled = {}
    BY <1>1, <1>2, DistanceType, BetweenEmpty DEF RingLength, Filled
<1>4. LocalsInv /\ CountInv /\ ReturnInv
    BY <1>1, <1>2 DEF LocalsInv, CountInv, ReturnInv
<1>5. ExclusiveOwnership
    BY <1>1, <1>2, <1>3 DEF ExclusiveOwnership
<1>6. OrderInv
    BY <1>1, <1>2, <1>3 DEF OrderInv
<1> QED
    BY <1>4, <1>5, <1>6 DEF RxInv

\* RxInv with the types is inductive when SET_CONFIGURATION does not catch recv
\* past its read of rx_tail.
LEMMA RxInvStep ==
    ~AnyTimeConfig => (TypeOK /\ RxInv /\ [Next]_vars => RxInv')
BY LocalsStep, CountStep, OwnershipStep, OrderStep, ReturnStep DEF RxInv

\* RxInv holds of every reachable state.
THEOREM RxInvCorrect ==
    ASSUME ~AnyTimeConfig PROVE Spec => []RxInv
<1>1. TypeOK /\ RxInv /\ [Next]_vars => RxInv'
    BY RxInvStep
<1> QED
    BY <1>1, TypeCorrect, RxInvInit, PTL DEF Spec

-----------------------------------------------------------------------------
(* What follows from the invariant.                                        *)

\* The count leaves room in the ring for every transfer still in the chain.
LEMMA RoomInRing == TypeOK /\ RxInv => RingNeverOverruns
<1> SUFFICES ASSUME TypeOK, RxInv, due > 0 PROVE RingLength < RX_NUM
    BY DEF RingNeverOverruns
<1>1. Len(chain) \in Nat /\ Len(chain) > 0
    BY ChainElement DEF TypeOK
<1>2. configs # 0
    BY <1>1, EmptySeq DEF RxInv, CountInv
<1> QED
    BY <1>1, <1>2, RingType DEF RxInv, CountInv

\* With packets numbered without a gap, the one returned has been sent.
LEMMA ReturnedInOrder == TypeOK /\ RxInv => DeliveredInOrder
<1> SUFFICES ASSUME TypeOK, RxInv, recvPc = "requeue"
             PROVE  /\ nextPacket =< sent
                    /\ len = PacketLen[nextPacket]
                    /\ len > 0 => USB_Request = nextPacket
    BY DEF DeliveredInOrder
<1>1. Held = 1
    BY DEF Held, Holding
<1>2. /\ sent \in Int /\ nextPacket \in Nat
      /\ RingLength \in 0 .. RX_NUM /\ done \in Nat
    BY RingType, ChainElement DEF TypeOK, Packets
<1>3. nextPacket =< sent
    BY <1>1, <1>2 DEF RxInv, OrderInv
<1> QED
    BY <1>3 DEF RxInv, ReturnInv

\* usb_cmsis_dap.c:122-129: rx_event never stores over a slot recv has not read.
THEOREM RingNeverOverrunsCorrect ==
    ASSUME ~AnyTimeConfig PROVE Spec => []RingNeverOverruns
BY TypeCorrect, RxInvCorrect, RoomInRing, PTL

\* usb_cmsis_dap.c:107-162: a buffer is never with two of the controller, the
\* ring and the task.
THEOREM ExclusiveOwnershipCorrect ==
    ASSUME ~AnyTimeConfig PROVE Spec => []ExclusiveOwnership
<1>1. RxInv => ExclusiveOwnership
    BY DEF RxInv
<1> QED
    BY <1>1, RxInvCorrect, PTL

\* usb_cmsis_dap.c:77-162: after the first SET_CONFIGURATION every buffer is with
\* one of them.
THEOREM NoBufferLostCorrect ==
    ASSUME ~AnyTimeConfig PROVE Spec => []NoBufferLost
<1>1. TypeOK /\ RxInv => NoBufferLost
    BY DEF RxInv, CountInv, NoBufferLost
<1> QED
    BY <1>1, TypeCorrect, RxInvCorrect, PTL

\* usb_cmsis_dap.c:132-162: recv returns the host's packets in order, with their
\* lengths and contents.
THEOREM DeliveredInOrderCorrect ==
    ASSUME ~AnyTimeConfig PROVE Spec => []DeliveredInOrder
BY TypeCorrect, RxInvCorrect, ReturnedInOrder, PTL

=============================================================================
