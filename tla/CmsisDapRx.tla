----------------------------- MODULE CmsisDapRx -----------------------------
(***************************************************************************)
(* The receive half of src/device/src/cmsis_dap/usb_cmsis_dap.c: RX_NUM    *)
(* buffers that circulate between the USB controller (the transfers queued *)
(* on the OUT endpoint), the ring rx_list that the ISR fills and the       *)
(* CMSIS-DAP task empties, and the task, which copies a buffer's packet    *)
(* out and queues the buffer again.                                        *)
(*                                                                         *)
(* One Cortex-M7 core: rx_event and usb_cmsis_dap_configure run in         *)
(* usb_isr, to completion with respect to the task, so the task's steps    *)
(* wait for due = 0; between any two memory accesses of the task the ISR   *)
(* may run.  The controller moves packets at any time.                     *)
(***************************************************************************)
EXTENDS Naturals, Sequences

CONSTANTS
    RX_NUM,          \* DAP_PACKET_COUNT
    MaxSent,         \* bound: packets the host sends
    MaxConfigs,      \* bound: SET_CONFIGURATION requests
    PacketLen,       \* bytes of each packet
    AnyTimeConfig    \* may SET_CONFIGURATION find recv past its read of rx_tail?

ASSUME RxNumAssumption == RX_NUM \in Nat \ {0}
ASSUME RxBoundsAssumption == MaxSent \in Nat /\ MaxConfigs \in Nat
ASSUME PacketLenAssumption == PacketLen \in [0 .. MaxSent -> Nat]
ASSUME AnyTimeConfigAssumption == AnyTimeConfig \in BOOLEAN

VARIABLES
    usb_configuration,
    rx_head, rx_tail, rx_list, rx_list_transfer_len,
    rx_buffer,             \* the packet each buffer holds
    chain, done, due, irq, live,       \* the OUT endpoint, see TransferFifo
    recvPc, tail, i, len,  \* usb_cmsis_dap_recv: program counter and locals
    USB_Request,           \* the packet the task has a copy of
    sent,                  \* packets the host has sent
    nextPacket,            \* the packet that recv must return next
    configs                \* SET_CONFIGURATION requests so far

Buffers == 0 .. RX_NUM - 1
Slots == 0 .. RX_NUM
Packets == 0 .. MaxSent
NoPacket == 0

Ep == INSTANCE TransferFifo WITH Xfer <- Buffers

endpoint == <<chain, done, due, irq, live>>
ring == <<rx_head, rx_tail, rx_list, rx_list_transfer_len>>
locals == <<tail, i, len>>
ghosts == <<sent, nextPacket, configs>>
vars == <<usb_configuration, ring, rx_buffer, endpoint, recvPc, locals,
          USB_Request, ghosts>>

\* Mutants of Wrap: the comparison is off by one, either way.
WrapTooLate(x) == IF x > RX_NUM THEN 0 ELSE x + 1
WrapTooEarly(x) == IF x + 1 >= RX_NUM THEN 0 ELSE x + 1

\* "if (++x > RX_NUM) x = 0", on rx_head and on rx_tail.
Wrap(x) == IF x + 1 > RX_NUM THEN 0 ELSE x + 1

\* How many slots the ring holds when its tail is x and its head y, and which:
\* those behind x, up to y.
Distance(x, y) == IF y >= x THEN y - x ELSE y + RX_NUM + 1 - x
Between(x, y) == {s \in Slots : s # x /\ Distance(x, s) =< Distance(x, y)}

-----------------------------------------------------------------------------
Init ==
    /\ usb_configuration = 0
    /\ rx_head = 0
    /\ rx_tail = 0
    /\ rx_list = [s \in Slots |-> 0]
    /\ rx_list_transfer_len = [s \in Slots |-> 0]
    /\ rx_buffer = [b \in Buffers |-> NoPacket]
    /\ Ep!FifoInit
    /\ recvPc = "idle"
    /\ tail = 0
    /\ i = 0
    /\ len = 0
    /\ USB_Request = NoPacket
    /\ sent = 0
    /\ nextPacket = 1
    /\ configs = 0

-----------------------------------------------------------------------------
(* The host and the controller.                                            *)

\* The host's next packet arrives in buffer b.
PacketArrives(b) ==
    /\ sent < MaxSent
    /\ sent' = sent + 1
    /\ rx_buffer' = [rx_buffer EXCEPT ![b] = sent + 1]
    /\ UNCHANGED <<usb_configuration, ring, recvPc, locals, USB_Request,
                   nextPacket, configs>>

\* It does in the oldest queued one, whose transfer completes.
HostSend == Ep!Retire /\ PacketArrives(chain[done + 1])

-----------------------------------------------------------------------------
(* usb_isr.                                                                *)

\* ENDPTCOMPLETE is cleared and the list walked.  TransferQueue takes the two in
\* the order of usb.c:264-296, with the controller in between, and is shown to
\* implement this step.
IsrWalk(n) ==
    /\ Ep!Walk(n)
    /\ UNCHANGED <<usb_configuration, ring, rx_buffer, recvPc, locals,
                   USB_Request, ghosts>>

\* Mutant: the length goes to the slot the head still points at.
rx_event_LengthAtOldHead(t) ==
    /\ Ep!Callback(t)
    /\ rx_list' = [rx_list EXCEPT ![Wrap(rx_head)] = t]
    /\ rx_list_transfer_len' =
           [rx_list_transfer_len EXCEPT ![rx_head] = PacketLen[rx_buffer[t]]]
    /\ rx_head' = Wrap(rx_head)
    /\ UNCHANGED <<usb_configuration, rx_tail, rx_buffer, recvPc, locals,
                   USB_Request, ghosts>>

\* Mutant: "rx_head = head" is missing.
rx_event_HeadNotStored(t) ==
    /\ Ep!Callback(t)
    /\ rx_list' = [rx_list EXCEPT ![Wrap(rx_head)] = t]
    /\ rx_list_transfer_len' =
           [rx_list_transfer_len EXCEPT ![Wrap(rx_head)] = PacketLen[rx_buffer[t]]]
    /\ UNCHANGED <<usb_configuration, rx_head, rx_tail, rx_buffer, recvPc,
                   locals, USB_Request, ghosts>>

\* What rx_event does for transfer t.
StoreInRing(t) ==
    LET head == Wrap(rx_head) IN
    /\ rx_list' = [rx_list EXCEPT ![head] = t]
    /\ rx_list_transfer_len' =
           [rx_list_transfer_len EXCEPT ![head] = PacketLen[rx_buffer[t]]]
    /\ rx_head' = head
    /\ UNCHANGED <<usb_configuration, rx_tail, rx_buffer, recvPc, locals,
                   USB_Request, ghosts>>

\* The ISR calls it back.
rx_event(t) == Ep!Callback(t) /\ StoreInRing(t)

\* The task is not between its read of rx_tail and the end of recv, or what it
\* read equals what usb_cmsis_dap_configure sets.
SafeToConfigure ==
    \/ recvPc = "idle"
    \/ recvPc \in {"config", "poll"} /\ tail = 0

\* SET_CONFIGURATION: usb_configuration, then usb_cmsis_dap_configure empties
\* the ring.
EmptyRing(v) ==
    /\ configs < MaxConfigs
    /\ AnyTimeConfig \/ SafeToConfigure
    /\ usb_configuration' = v
    /\ rx_head' = 0
    /\ rx_tail' = 0
    /\ configs' = configs + 1
    /\ nextPacket' = sent + 1
    /\ UNCHANGED <<rx_list, rx_list_transfer_len, rx_buffer, recvPc, locals,
                   USB_Request, sent>>

\* It also clears the endpoint and queues every buffer, in order.
SetConfiguration(v) ==
    /\ EmptyRing(v)
    /\ Ep!Configure([k \in 1 .. RX_NUM |-> k - 1], v # 0)

\* A bus reset: usb_configuration and the ring keep their values.
BusReset ==
    /\ live
    /\ Ep!Flush
    /\ UNCHANGED <<usb_configuration, ring, rx_buffer, recvPc, locals,
                   USB_Request, ghosts>>

-----------------------------------------------------------------------------
(* The CMSIS-DAP task: usb_cmsis_dap_recv, one shared access per step.     *)

\* The ISR has returned to the task, which is at this point of recv.
InTask(label) == recvPc = label /\ due = 0

RecvCall ==
    /\ InTask("idle")
    /\ tail' = rx_tail
    /\ recvPc' = "config"
    /\ UNCHANGED <<usb_configuration, ring, rx_buffer, endpoint, i, len,
                   USB_Request, ghosts>>

\* "if (!usb_configuration) return -1"
RecvCheckConfiguration ==
    /\ InTask("config")
    /\ recvPc' = IF usb_configuration = 0 THEN "idle" ELSE "poll"
    /\ UNCHANGED <<usb_configuration, ring, rx_buffer, endpoint, locals,
                   USB_Request, ghosts>>

\* "if (tail != rx_head) break", else time out or look again.
RecvPoll ==
    /\ InTask("poll")
    /\ \/ tail # rx_head /\ recvPc' = "take"
       \/ tail = rx_head /\ recvPc' \in {"idle", "config"}
    /\ UNCHANGED <<usb_configuration, ring, rx_buffer, endpoint, locals,
                   USB_Request, ghosts>>

\* Mutant: the buffer number is read before the tail is moved.
RecvTakeAtOldTail ==
    /\ InTask("take")
    /\ tail' = Wrap(tail)
    /\ i' = rx_list[tail]
    /\ recvPc' = "length"
    /\ UNCHANGED <<usb_configuration, ring, rx_buffer, endpoint, len,
                   USB_Request, ghosts>>

\* "if (++tail > RX_NUM) tail = 0; i = rx_list[tail]"
RecvTake ==
    /\ InTask("take")
    /\ tail' = Wrap(tail)
    /\ i' = rx_list[Wrap(tail)]
    /\ recvPc' = "length"
    /\ UNCHANGED <<usb_configuration, ring, rx_buffer, endpoint, len,
                   USB_Request, ghosts>>

RecvLength ==
    /\ InTask("length")
    /\ len' = rx_list_transfer_len[tail]
    /\ recvPc' = "advance"
    /\ UNCHANGED <<usb_configuration, ring, rx_buffer, endpoint, tail, i,
                   USB_Request, ghosts>>

RecvAdvance ==
    /\ InTask("advance")
    /\ rx_tail' = tail
    /\ recvPc' = "copy"
    /\ UNCHANGED <<usb_configuration, rx_head, rx_list, rx_list_transfer_len,
                   rx_buffer, endpoint, locals, USB_Request, ghosts>>

\* memcpy of len bytes; a zero-length packet leaves the old request in place.
RecvCopy ==
    /\ InTask("copy")
    /\ USB_Request' = IF len > 0 THEN rx_buffer[i] ELSE USB_Request
    /\ recvPc' = "requeue"
    /\ UNCHANGED <<usb_configuration, ring, rx_buffer, endpoint, locals,
                   ghosts>>

\* "return len"
RecvReturn ==
    /\ InTask("requeue")
    /\ recvPc' = "idle"
    /\ nextPacket' = nextPacket + 1
    /\ UNCHANGED <<usb_configuration, ring, rx_buffer, locals, USB_Request,
                   sent, configs>>

\* rx_queue_transfer(i), with IRQ_USB1 disabled from its first line to its last,
\* and the return.
RecvRequeue == RecvReturn /\ Ep!Schedule(i)

-----------------------------------------------------------------------------
Task ==
    \/ RecvCall \/ RecvCheckConfiguration \/ RecvPoll \/ RecvTake
    \/ RecvLength \/ RecvAdvance \/ RecvCopy \/ RecvRequeue

Completions ==
    \/ \E n \in 0 .. done : IsrWalk(n)
    \/ \E t \in Buffers : rx_event(t)

Next ==
    \/ HostSend
    \/ Completions
    \/ \E v \in {0, 1} : SetConfiguration(v)
    \/ BusReset
    \/ Task

Spec == Init /\ [][Next]_vars

\* The core runs the task when it is not in the ISR, and a pending USB
\* interrupt is taken; nothing obliges the host to send.  The walk, repeated
\* while a completion is owed, in the end counts every completed transfer.
Fairness ==
    /\ WF_vars(Task)
    /\ WF_vars(\E t \in Buffers : rx_event(t))
    /\ WF_vars(due = 0 /\ IsrWalk(done))

FairSpec == Spec /\ Fairness

-----------------------------------------------------------------------------
TypeOK ==
    /\ Ep!FifoTypeOK
    /\ usb_configuration \in {0, 1}
    /\ rx_head \in Slots /\ rx_tail \in Slots /\ tail \in Slots
    /\ rx_list \in [Slots -> Buffers]
    /\ rx_list_transfer_len \in [Slots -> Nat]
    /\ rx_buffer \in [Buffers -> Packets]
    /\ recvPc \in {"idle", "config", "poll", "take", "length", "advance",
                   "copy", "requeue"}
    /\ i \in Buffers
    /\ len \in Nat
    /\ USB_Request \in Packets
    /\ sent \in Packets
    /\ nextPacket \in Nat
    /\ configs \in Nat

-----------------------------------------------------------------------------
(* Where the buffers are.                                                  *)

\* recv has a buffer of its own: its number is in i.
Holding == recvPc \in {"length", "advance", "copy", "requeue"}
Held == IF Holding THEN 1 ELSE 0

\* The last slot recv has read, which rx_tail records two steps later.
RingTail == IF recvPc \in {"length", "advance"} THEN tail ELSE rx_tail

RingLength == Distance(RingTail, rx_head)
Filled == Between(RingTail, rx_head)

\* The ring never overruns: when rx_event stores a buffer number, the slot it
\* stores to is free.  It has no test for a full ring (usb_cmsis_dap.c:122-129)
\* and relies on RX_NUM buffers never filling RX_NUM + 1 slots.
RingNeverOverruns == due > 0 => RingLength < RX_NUM

\* A buffer has one owner: the controller's queue, one slot of the ring, or the
\* task; rx_queue_transfer never queues a transfer that is queued already, and
\* the controller never writes to a buffer that recv is copying.
ExclusiveOwnership ==
    /\ \A j, k \in 1 .. Len(chain) : chain[j] = chain[k] => j = k
    /\ \A s, u \in Filled : rx_list[s] = rx_list[u] => s = u
    /\ \A j \in 1 .. Len(chain), s \in Filled : chain[j] # rx_list[s]
    /\ Holding => /\ \A j \in 1 .. Len(chain) : chain[j] # i
                  /\ \A s \in Filled : rx_list[s] # i

\* No buffer is ever lost: once configured, all RX_NUM are accounted for, so the
\* host can always send again when recv keeps up.
NoBufferLost ==
    configs > 0 => Len(chain) + RingLength + Held = RX_NUM

\* recv returns the host's packets in the order they were sent, each once and
\* with its own length, through retirement, callbacks, the ring and the copy.
DeliveredInOrder ==
    recvPc = "requeue" =>
        /\ nextPacket =< sent
        /\ len = PacketLen[nextPacket]
        /\ len > 0 => USB_Request = nextPacket

\* What recv returns is a packet of the host's and the length is the one it was
\* sent with: "remember how many bytes were actually sent by host"
\* (usb_cmsis_dap.c:126).
LengthIsWhatHostSent ==
    recvPc = "requeue" => nextPacket =< sent /\ len = PacketLen[nextPacket]

\* Every packet the controller accepts is in the end returned by recv, unless a
\* bus reset or a new configuration drops it.
EveryPacketDelivered ==
    \A p \in Packets : sent >= p ~> nextPacket > p \/ ~live
=============================================================================
