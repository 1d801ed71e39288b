------------------------------ MODULE Endpoint0 ------------------------------
(***************************************************************************)
(* Endpoint 0 of src/device/src/usb.c: the SETUP loop and the bus-reset    *)
(* and port-change branches of usb_isr, endpoint0_setup with the standard  *)
(* requests, and endpoint0_transmit and endpoint0_receive, beside the host *)
(* and the USB controller.                                                 *)
(*                                                                         *)
(* The ISR is stepped once per register access that the controller can     *)
(* interleave with; what it does for other endpoints is in TransferQueue.  *)
(* A SETUP packet is two words: word1 the request with its wValue, word2   *)
(* its wIndex and wLength.                                                 *)
(***************************************************************************)
EXTENDS Naturals

CONSTANTS
    Requests,           \* the SETUP packets a host sends
    Descriptors,        \* the wValue and wIndex of each descriptor of the list
    DescriptorLength,
    MaxSetups, MaxResets,
    Prompt,             \* the ISR's short register sequences end before the
                        \* controller answers the host's next token
    AsksBeforeSpeedKnown \* may a host ask for a configuration descriptor
                        \* before an interrupt has recorded the port's speed?

CONFIG_DESCRIPTOR == 512        \* wValue 0x0200
OTHER_SPEED_CONFIG == 1792      \* wValue 0x0700
MaxEndpoint == 7
ConfiguredEndpoints == {2, 3}   \* those with an ENDPOINTn_CONFIG
NoAddress == 128                \* addresses have seven bits
Reads == {"GET_CONFIGURATION", "GET_DEVICE_STATUS", "GET_STATUS",
          "GET_DESCRIPTOR", "GET_INTERFACE"}
Writes == {"SET_ADDRESS", "SET_CONFIGURATION", "SET_FEATURE", "CLEAR_FEATURE",
           "SET_INTERFACE"}

Directions == {"in", "out"}

\* The endpoint that wIndex names, and its direction: bit 7, set for IN.  Each
\* has its own halt bit, TXS or RXS, in the control register of the endpoint.
EndpointOf(wIndex) == wIndex % 128
HaltOf(wIndex) ==
    <<EndpointOf(wIndex), IF (wIndex \div 128) % 2 = 1 THEN "in" ELSE "out">>

\* A descriptor has at least its length and its type.  Values that a host may
\* not send are left out: addresses of more than seven bits, configurations of
\* more than eight, a halt of endpoint 0 itself, and reads of no data, which
\* would have no data stage.
ASSUME DescriptorAssumption == DescriptorLength \in Nat \ {0, 1}
ASSUME RequestsAssumption ==
    /\ Requests \subseteq [word1 : (Reads \cup Writes) \X Nat, word2 : Nat \X Nat]
    /\ \A q \in Requests :
          /\ q.word1[1] = "SET_ADDRESS" => q.word1[2] < NoAddress
          /\ q.word1[1] = "SET_CONFIGURATION" => q.word1[2] \in 0 .. 255
          /\ q.word1[1] \in {"SET_FEATURE", "CLEAR_FEATURE"} =>
                EndpointOf(q.word2[1]) # 0
          /\ q.word1[1] \in Reads => q.word2[2] > 0
ASSUME BoundsAssumption == MaxSetups \in Nat /\ MaxResets \in Nat
ASSUME TimingAssumption == Prompt \in BOOLEAN /\ AsksBeforeSpeedKnown \in BOOLEAN

Zero == [word1 |-> <<"none", 0>>, word2 |-> <<0, 0>>]
NoReply == [of |-> "none", value |-> 0, length |-> 0]
Nothing == [d \in Directions |-> "none"]

VARIABLES
    usb_configuration, usb_high_speed,
    halted,             \* TXS and RXS: the endpoints halted in a direction
    staged,             \* what endpoint0_transfer_data and its buffer hold
    setupBuffer,        \* setup0 and setup1 of the queue head
    setupstat, sutw,    \* ENDPTSETUPSTAT, USBCMD.SUTW
    prime, primed,      \* ENDPTPRIME and ENDPTSTATUS with the descriptor meant
    stall,              \* ENDPTCTRL0
    address, newAddress, \* DEVICEADDR, and the one USBADRA holds back
    port,               \* PORTSC1.HSP
    usbsts,             \* USBSTS
    isrPc, status, word1, word2, \* usb_isr and its locals
    request, stage, got, hostAddress, \* the host: what it asked and has read
    overtaken,          \* history: the request was made before the ISR had
                        \* handled the last bus reset
    setups, resets

requestState == <<usb_configuration, halted>>
setupRegisters == <<setupBuffer, setupstat, sutw>>
endpoint == <<prime, primed, stall>>
addresses == <<address, newAddress>>
locals == <<status, word1, word2>>
host == <<request, stage, got, hostAddress, overtaken, setups, resets, port>>
vars == <<requestState, usb_high_speed, staged, setupRegisters, endpoint,
          addresses, usbsts, isrPc, locals, host>>

Init ==
    /\ usb_configuration = 0 /\ usb_high_speed = 0 /\ halted = {}
    /\ staged = NoReply
    /\ setupBuffer = Zero /\ setupstat = FALSE /\ sutw = FALSE
    /\ prime = Nothing /\ primed = Nothing /\ stall = FALSE
    /\ address = 0 /\ newAddress = NoAddress
    /\ usbsts = {} /\ isrPc = "idle" /\ status = {}
    /\ word1 = Zero.word1 /\ word2 = Zero.word2
    /\ request = Zero /\ stage = "reset" /\ got = NoReply /\ hostAddress = 0
    /\ overtaken = FALSE /\ setups = 0 /\ resets = 0 /\ port = 0

-----------------------------------------------------------------------------
(* The host and the controller.                                            *)

\* The speed the ISR will have recorded when it is done with what is reported.
SpeedPending == "PCI" \in usbsts \cup status

\* A bus reset has been reported and the ISR has not come to it.
ResetPending ==
    \/ "URI" \in usbsts
    \/ "URI" \in status /\ isrPc # "leave"

\* The requests whose answer depends on the speed.
SpeedRequests ==
    {<<"GET_DESCRIPTOR", CONFIG_DESCRIPTOR>>, <<"GET_DESCRIPTOR", OTHER_SPEED_CONFIG>>}

\* A SETUP packet, at any time: a host may give a request up.  One that gave up
\* SET_ADDRESS can only repeat it, or reset the bus, since it cannot know the
\* device's address.  The packet is stored over the last one, which trips SUTW,
\* ends a stall, and may or may not void what endpoint 0 had primed.
HostSetup(q) ==
    /\ stage # "reset" /\ setups < MaxSetups /\ hostAddress = address
    /\ request.word1[1] = "SET_ADDRESS" /\ stage = "status" => q = request
    /\ SpeedPending /\ ~AsksBeforeSpeedKnown => q.word1 \notin SpeedRequests
    /\ setups' = setups + 1
    /\ request' = q
    /\ stage' = IF q.word1[1] \in Reads THEN "data" ELSE "status"
    /\ got' = NoReply
    /\ overtaken' = ResetPending
    /\ setupBuffer' = q /\ setupstat' = TRUE /\ sutw' = FALSE
    /\ usbsts' = usbsts \cup {"UI"}
    /\ stall' = FALSE /\ newAddress' = NoAddress
    /\ \/ UNCHANGED <<prime, primed>>
       \/ prime' = Nothing /\ primed' = Nothing
    /\ UNCHANGED <<requestState, usb_high_speed, staged, address, isrPc, locals,
                   hostAddress, resets, port>>

\* Priming ends; with a SETUP packet unacknowledged it may have no effect.
HwPrime(d) ==
    /\ prime[d] # "none"
    /\ prime' = [prime EXCEPT ![d] = "none"]
    /\ \/ primed' = [primed EXCEPT ![d] = prime[d]]
       \/ setupstat /\ UNCHANGED primed
    /\ UNCHANGED <<requestState, usb_high_speed, staged, setupRegisters, stall,
                   addresses, usbsts, isrPc, locals, host>>

\* The two register sequences that race with the host's next token: from the
\* acknowledgement of a SETUP packet to the flush of what was primed before it,
\* and from the priming of SET_ADDRESS's status stage to the write of DEVICEADDR.
InShortSequence ==
    \/ isrPc \in {"tripwire", "word1", "word2", "test", "flush"}
    \/ isrPc \in {"wait", "address"} /\ word1[1] = "SET_ADDRESS"

\* Endpoint 0 answers nothing while a SETUP packet is unacknowledged.
Answers ==
    /\ ~setupstat /\ hostAddress = address
    /\ ~(Prompt /\ InShortSequence)

\* An IN token acknowledged by the host: a held-back address takes effect.
InDone ==
    /\ primed' = [primed EXCEPT !["in"] = "none"]
    /\ address' = IF newAddress = NoAddress THEN address ELSE newAddress
    /\ newAddress' = NoAddress

\* The data stage: the host reads what the descriptor points to by then.
HostData ==
    /\ stage = "data" /\ Answers /\ ~stall /\ primed["in"] # "none"
    /\ InDone
    /\ got' = IF primed["in"] = "data" THEN staged ELSE NoReply
    /\ stage' = "status"
    /\ UNCHANGED <<requestState, usb_high_speed, staged, setupRegisters, prime,
                   stall, usbsts, isrPc, locals, request, hostAddress, overtaken,
                   setups, resets, port>>

\* The status stage: OUT after data, IN without.  The host then uses the address
\* it has given.
HostStatus ==
    /\ stage = "status" /\ Answers /\ ~stall
    /\ IF request.word1[1] \in Reads
       THEN /\ primed["out"] # "none"
            /\ primed' = [primed EXCEPT !["out"] = "none"]
            /\ newAddress' = NoAddress
            /\ UNCHANGED address
       ELSE primed["in"] # "none" /\ InDone
    /\ stage' = "done"
    /\ hostAddress' = IF request.word1[1] = "SET_ADDRESS"
                      THEN request.word1[2] ELSE hostAddress
    /\ UNCHANGED <<requestState, usb_high_speed, staged, setupRegisters, prime,
                   stall, usbsts, isrPc, locals, request, got, overtaken, setups,
                   resets, port>>

\* A STALL handshake ends the request with an error.
HostStalled ==
    /\ stage \in {"data", "status"} /\ Answers /\ stall
    /\ stage' = "stalled"
    /\ UNCHANGED <<requestState, usb_high_speed, staged, setupRegisters,
                   endpoint, addresses, usbsts, isrPc, locals, request, got,
                   hostAddress, overtaken, setups, resets, port>>

\* A bus reset voids what is primed and the device's address.
BusReset ==
    /\ stage # "reset" /\ resets < MaxResets
    /\ resets' = resets + 1
    /\ request' = Zero /\ stage' = "reset" /\ got' = NoReply /\ hostAddress' = 0
    /\ address' = 0 /\ newAddress' = NoAddress
    /\ prime' = Nothing /\ primed' = Nothing /\ stall' = FALSE
    /\ usbsts' = usbsts \cup {"URI"}
    /\ UNCHANGED <<requestState, usb_high_speed, staged, setupRegisters, isrPc,
                   locals, overtaken, setups, port>>

\* The port enters full- or high-speed operation.
ResetEnds ==
    /\ stage = "reset"
    /\ stage' = "idle"
    /\ port' \in {0, 1}
    /\ usbsts' = usbsts \cup {"PCI"}
    /\ UNCHANGED <<requestState, usb_high_speed, staged, setupRegisters,
                   endpoint, addresses, isrPc, locals, request, got,
                   hostAddress, overtaken, setups, resets>>

Controller == \E d \in Directions : HwPrime(d)
Host == HostData \/ HostStatus \/ HostStalled

-----------------------------------------------------------------------------
(* usb_isr.                                                                *)

At(pc) == isrPc = pc
Goto(pc) == isrPc' = pc
UnchangedByIsr == UNCHANGED host

\* Entry: USBSTS is read and cleared.  Port change alone raises no interrupt:
\* PCE is commented out in USBINTR.
IsrEnter ==
    /\ At("idle") /\ usbsts \cap {"UI", "URI"} # {}
    /\ status' = usbsts
    /\ usbsts' = {}
    /\ Goto(IF "UI" \in usbsts THEN "setups" ELSE "reset")
    /\ UNCHANGED <<requestState, usb_high_speed, staged, setupRegisters,
                   endpoint, addresses, word1, word2>> /\ UnchangedByIsr

\* "setupstatus = USB1_ENDPTSETUPSTAT": before the loop and at its end.
ReadSetupStatus ==
    /\ At("setups")
    /\ Goto(CASE setupstat -> "acknowledge"
              [] ~setupstat /\ "URI" \in status -> "reset"
              [] OTHER -> "leave")
    /\ UNCHANGED <<requestState, usb_high_speed, staged, setupRegisters,
                   endpoint, addresses, usbsts, locals>> /\ UnchangedByIsr

AcknowledgeSetup ==
    /\ At("acknowledge") /\ Goto("tripwire")
    /\ setupstat' = FALSE
    /\ UNCHANGED <<requestState, usb_high_speed, staged, setupBuffer, sutw,
                   endpoint, addresses, usbsts, locals>> /\ UnchangedByIsr

\* The copy of the SETUP packet: set SUTW, read two words, test SUTW.
SetTripwire ==
    /\ At("tripwire") /\ Goto("word1")
    /\ sutw' = TRUE
    /\ UNCHANGED <<requestState, usb_high_speed, staged, setupBuffer, setupstat,
                   endpoint, addresses, usbsts, locals>> /\ UnchangedByIsr
CopyWord1 ==
    /\ At("word1") /\ Goto("word2")
    /\ word1' = setupBuffer.word1
    /\ UNCHANGED <<requestState, usb_high_speed, staged, setupRegisters,
                   endpoint, addresses, usbsts, status, word2>> /\ UnchangedByIsr
CopyWord2 ==
    /\ At("word2") /\ Goto("test")
    /\ word2' = setupBuffer.word2
    /\ UNCHANGED <<requestState, usb_high_speed, staged, setupRegisters,
                   endpoint, addresses, usbsts, status, word1>> /\ UnchangedByIsr

\* Mutant: SUTW is not tested.
TestTripwireNever ==
    /\ At("test") /\ Goto("flush")
    /\ UNCHANGED <<requestState, usb_high_speed, staged, setupRegisters,
                   endpoint, addresses, usbsts, locals>> /\ UnchangedByIsr
TestTripwire ==
    /\ At("test") /\ Goto(IF sutw THEN "flush" ELSE "tripwire")
    /\ UNCHANGED <<requestState, usb_high_speed, staged, setupRegisters,
                   endpoint, addresses, usbsts, locals>> /\ UnchangedByIsr

\* SUTW is cleared, and what an earlier request left primed is flushed.
\* Mutant: only the OUT direction is flushed.
FlushOut ==
    /\ At("flush") /\ Goto("setup")
    /\ sutw' = FALSE
    /\ primed' = [primed EXCEPT !["out"] = "none"]
    /\ UNCHANGED <<requestState, usb_high_speed, staged, setupBuffer, setupstat,
                   prime, stall, addresses, usbsts, locals>> /\ UnchangedByIsr
Flush ==
    /\ At("flush") /\ Goto("setup")
    /\ sutw' = FALSE
    /\ primed' = Nothing
    /\ UNCHANGED <<requestState, usb_high_speed, staged, setupBuffer, setupstat,
                   prime, stall, addresses, usbsts, locals>> /\ UnchangedByIsr

-----------------------------------------------------------------------------
(* endpoint0_setup, and the two functions that answer.                     *)

Handling(name) == At("setup") /\ word1[1] = name
UnchangedByRequest ==
    UNCHANGED <<usb_high_speed, setupRegisters, primed, addresses, usbsts,
                locals>> /\ UnchangedByIsr

\* endpoint0_receive without data: the status stage is an IN without data.
endpoint0_receive ==
    /\ prime' = [prime EXCEPT !["in"] = "ack"]
    /\ Goto("wait")
    /\ UNCHANGED <<staged, stall>>

\* endpoint0_transmit: the data first, if there are any.
endpoint0_transmit(reply) ==
    /\ staged' = reply
    /\ IF reply.length > 0
       THEN prime' = [prime EXCEPT !["in"] = "data"]
       ELSE UNCHANGED prime
    /\ Goto("ack")
    /\ UNCHANGED stall

\* ENDPTCTRL0 = stall.  The controller clears it with the next SETUP packet and
\* holds it clear while one is unacknowledged.
Stall ==
    /\ stall' = ~setupstat
    /\ Goto("setups")
    /\ UNCHANGED <<staged, prime>>

SetAddress ==
    /\ Handling("SET_ADDRESS")
    /\ endpoint0_receive
    /\ UNCHANGED requestState /\ UnchangedByRequest

\* The control registers of the debugger's endpoints are written, which ends
\* their halts, and the endpoints set up (the Configure of the other modules).
SetConfiguration ==
    /\ Handling("SET_CONFIGURATION")
    /\ usb_configuration' = word1[2]
    /\ halted' = halted \ (ConfiguredEndpoints \X Directions)
    /\ endpoint0_receive
    /\ UnchangedByRequest

GetConfiguration ==
    /\ Handling("GET_CONFIGURATION")
    /\ endpoint0_transmit([of |-> "configuration", value |-> usb_configuration,
                           length |-> 1])
    /\ UNCHANGED requestState /\ UnchangedByRequest

\* The device is never self-powered and never wakes the host.
GetDeviceStatus ==
    /\ Handling("GET_DEVICE_STATUS")
    /\ endpoint0_transmit([of |-> "status", value |-> 0, length |-> 2])
    /\ UNCHANGED requestState /\ UnchangedByRequest

\* An endpoint's number has to be in range.  Mutant: off by one.
EndpointInRangeStrictly(e) == e < MaxEndpoint
EndpointInRange(e) == e =< MaxEndpoint

\* The bit for the direction; endpoint 0's bits are its stall.
IsHalted(wIndex) ==
    HaltOf(wIndex) \in halted \/ (EndpointOf(wIndex) = 0 /\ stall)
StatusReply(isHalted) ==
    [of |-> "status", value |-> IF isHalted THEN 1 ELSE 0, length |-> 2]
GetStatus ==
    /\ Handling("GET_STATUS") /\ EndpointInRange(EndpointOf(word2[1]))
    /\ endpoint0_transmit(StatusReply(IsHalted(word2[1])))
    /\ UNCHANGED requestState /\ UnchangedByRequest

SetFeature ==
    /\ Handling("SET_FEATURE") /\ EndpointInRange(EndpointOf(word2[1]))
    /\ halted' = halted \cup {HaltOf(word2[1])}
    /\ endpoint0_receive
    /\ UNCHANGED usb_configuration /\ UnchangedByRequest

ClearFeature ==
    /\ Handling("CLEAR_FEATURE") /\ EndpointInRange(EndpointOf(word2[1]))
    /\ halted' = halted \ {HaltOf(word2[1])}
    /\ endpoint0_receive
    /\ UNCHANGED usb_configuration /\ UnchangedByRequest

\* A descriptor of the table is copied, no more of it than the host asks for.
\* The configuration descriptor is the one for the recorded speed, and the
\* other-speed configuration descriptor the one for the other.
\* Mutant: the length is the host's.
ReplyLengthUnbounded(wLength) == wLength
ReplyLength(wLength) ==
    IF DescriptorLength > wLength THEN wLength ELSE DescriptorLength
DescriptorReply(wValue, speed, wLength) ==
    [of |-> CASE wValue = CONFIG_DESCRIPTOR -> "configuration descriptor"
              [] wValue = OTHER_SPEED_CONFIG -> "other-speed configuration descriptor"
              [] OTHER -> "other descriptor",
     value |-> CASE wValue = CONFIG_DESCRIPTOR -> speed
                 [] wValue = OTHER_SPEED_CONFIG -> 1 - speed
                 [] OTHER -> 0,
     length |-> ReplyLength(wLength)]
GetDescriptor ==
    /\ Handling("GET_DESCRIPTOR") /\ <<word1[2], word2[1]>> \in Descriptors
    /\ endpoint0_transmit(DescriptorReply(word1[2], usb_high_speed, word2[2]))
    /\ UNCHANGED requestState /\ UnchangedByRequest

\* Every other request, and one that breaks out of the switch, is stalled.
Refuse ==
    /\ At("setup")
    /\ \/ word1[1] \in {"GET_STATUS", "SET_FEATURE", "CLEAR_FEATURE"}
          /\ ~EndpointInRange(EndpointOf(word2[1]))
       \/ word1[1] = "GET_DESCRIPTOR" /\ <<word1[2], word2[1]>> \notin Descriptors
       \/ word1[1] \in {"GET_INTERFACE", "SET_INTERFACE"}
    /\ Stall
    /\ UNCHANGED requestState /\ UnchangedByRequest

endpoint0_setup ==
    \/ SetAddress \/ SetConfiguration \/ GetConfiguration
    \/ GetDeviceStatus \/ GetStatus \/ SetFeature \/ ClearFeature
    \/ GetDescriptor \/ Refuse

\* "while (USB1_ENDPTPRIME)" ends; the rest of endpoint0_transmit primes the
\* status stage.  notify is 0 in every call, so endpoint0_notify_mask is too.
PrimeAck ==
    /\ At("ack") /\ prime = Nothing
    /\ prime' = [prime EXCEPT !["out"] = "ack"]
    /\ Goto("wait")
    /\ UNCHANGED <<requestState, usb_high_speed, staged, setupRegisters, primed,
                   stall, addresses, usbsts, locals>> /\ UnchangedByIsr

WaitForPrime ==
    /\ At("wait") /\ prime = Nothing
    /\ Goto(IF word1[1] = "SET_ADDRESS" THEN "address" ELSE "setups")
    /\ UNCHANGED <<requestState, usb_high_speed, staged, setupRegisters,
                   endpoint, addresses, usbsts, locals>> /\ UnchangedByIsr

\* DEVICEADDR is written, with USBADRA: it is to hold for the next transfer.
UseAddress ==
    /\ At("address") /\ Goto("setups")
    /\ newAddress' = word1[2]
    /\ UNCHANGED <<requestState, usb_high_speed, staged, setupRegisters,
                   endpoint, address, usbsts, locals>> /\ UnchangedByIsr

-----------------------------------------------------------------------------
(* The rest of usb_isr.                                                    *)

\* Bus reset: SETUP packets are forgotten and what is primed is flushed.
HandleReset ==
    /\ At("reset") /\ prime = Nothing
    /\ setupstat' = FALSE
    /\ primed' = Nothing
    /\ Goto("leave")
    /\ UNCHANGED <<requestState, usb_high_speed, staged, setupBuffer, sutw,
                   prime, stall, addresses, usbsts, locals>> /\ UnchangedByIsr

\* Port change: the speed is recorded.  Mutant: USBSTS is cleared here, not on
\* entry, and with it what has happened since.
LeaveAndClear ==
    /\ At("leave") /\ Goto("idle")
    /\ usb_high_speed' = IF "PCI" \in status THEN port ELSE usb_high_speed
    /\ usbsts' = usbsts \ status
    /\ status' = {}
    /\ UNCHANGED <<requestState, staged, setupRegisters, endpoint, addresses,
                   word1, word2>> /\ UnchangedByIsr
Leave ==
    /\ At("leave") /\ Goto("idle")
    /\ usb_high_speed' = IF "PCI" \in status THEN port ELSE usb_high_speed
    /\ status' = {}
    /\ UNCHANGED <<requestState, staged, setupRegisters, endpoint, addresses,
                   usbsts, word1, word2>> /\ UnchangedByIsr

usb_isr ==
    \/ IsrEnter \/ ReadSetupStatus \/ AcknowledgeSetup
    \/ SetTripwire \/ CopyWord1 \/ CopyWord2 \/ TestTripwire \/ Flush
    \/ endpoint0_setup \/ PrimeAck \/ WaitForPrime \/ UseAddress
    \/ HandleReset \/ Leave

Next ==
    \/ \E q \in Requests : HostSetup(q)
    \/ Controller \/ Host \/ BusReset \/ ResetEnds
    \/ usb_isr

Spec == Init /\ [][Next]_vars

\* An interrupt is taken in the end and its handler runs; the controller ends a
\* priming; the host goes on asking for a stage that is not answered yet, and
\* ends a bus reset.
FairSpec ==
    Spec /\ WF_vars(usb_isr) /\ WF_vars(Controller) /\ WF_vars(Host)
         /\ WF_vars(ResetEnds)

-----------------------------------------------------------------------------
Replies ==
    [of : {"none", "configuration", "status", "configuration descriptor",
           "other-speed configuration descriptor", "other descriptor"},
     value : 0 .. 255, length : 0 .. DescriptorLength]

\* In particular no reply is longer than what it is taken from (usb.c:547).
TypeOK ==
    /\ usb_configuration \in 0 .. 255 /\ usb_high_speed \in 0 .. 1
    /\ halted \subseteq (0 .. MaxEndpoint) \X Directions
    /\ {staged, got} \subseteq Replies
    /\ setupBuffer \in Requests \cup {Zero} /\ request \in Requests \cup {Zero}
    /\ {setupstat, sutw, stall, overtaken} \subseteq BOOLEAN
    /\ prime \in [Directions -> {"none", "data", "ack"}]
    /\ primed \in [Directions -> {"none", "data", "ack"}]
    /\ {address, newAddress, hostAddress} \subseteq Nat
    /\ port \in 0 .. 1
    /\ usbsts \subseteq {"UI", "URI", "PCI"} /\ status \subseteq {"UI", "URI", "PCI"}
    /\ isrPc \in {"idle", "setups", "acknowledge", "tripwire", "word1", "word2",
                  "test", "flush", "setup", "ack", "wait", "address", "reset",
                  "leave"}
    /\ stage \in {"reset", "idle", "data", "status", "done", "stalled"}
    /\ setups \in 0 .. MaxSetups /\ resets \in 0 .. MaxResets

\* endpoint0_setup works on a packet the host has sent, never on the first word
\* of one and the second of another (the tripwire of usb.c:249-254).
NoTornRequest ==
    At("setup") => [word1 |-> word1, word2 |-> word2] \in Requests

\* What a request for data is answered with, from the device's state.
Expected(q) ==
    CASE q.word1[1] = "GET_CONFIGURATION" ->
            [of |-> "configuration", value |-> usb_configuration, length |-> 1]
      [] q.word1[1] = "GET_DEVICE_STATUS" ->
            [of |-> "status", value |-> 0, length |-> 2]
      [] q.word1[1] = "GET_STATUS" -> StatusReply(HaltOf(q.word2[1]) \in halted)
      [] OTHER -> DescriptorReply(q.word1[2], port, q.word2[2])

\* The data a host reads answer the request it made last, whatever requests it
\* gave up before and however many of them the ISR still worked on (the flush,
\* usb.c:257, and the loop, 262); the staging buffers are not overwritten under
\* a reply (557, 570).
ReplyMatchesRequest ==
    stage \in {"status", "done"} /\ request.word1[1] \in Reads =>
        got = Expected(request)

\* When the status stage has told the host that a request is done, it is done,
\* and nothing given up before undoes it (usb.c:435-522).
StatusMeansDone ==
    stage = "done" =>
        CASE request.word1[1] = "SET_ADDRESS" ->
                address = hostAddress /\ hostAddress = request.word1[2]
          [] request.word1[1] = "SET_CONFIGURATION" ->
                usb_configuration = request.word1[2]
                /\ halted \cap (ConfiguredEndpoints \X Directions) = {}
          [] request.word1[1] = "SET_FEATURE" -> HaltOf(request.word2[1]) \in halted
          [] request.word1[1] = "CLEAR_FEATURE" ->
                HaltOf(request.word2[1]) \notin halted
          [] OTHER -> TRUE

\* Only a request the device does not know is refused; one refused before does
\* not make the next one fail (usb.c:580-581).
StallMeansUnknown ==
    stage = "stalled" =>
        \/ request.word1[1] \in {"GET_INTERFACE", "SET_INTERFACE"}
        \/ request.word1[1] = "GET_DESCRIPTOR"
              /\ <<request.word1[2], request.word2[1]>> \notin Descriptors
        \/ request.word1[1] \in {"GET_STATUS", "SET_FEATURE", "CLEAR_FEATURE"}
              /\ EndpointOf(request.word2[1]) > MaxEndpoint

\* A host that does not give requests up for ever has its request answered or
\* refused in the end, unless it resets the bus.  A request that overtakes the
\* handling of a bus reset is excepted: the reset branch, which comes after the
\* SETUP loop, throws it away (usb.c:316-332).
EveryRequestAnswered ==
    stage \in {"data", "status"} /\ ~overtaken
        ~> stage \in {"done", "stalled", "reset"}

\* The configuration descriptor is the one for the speed the port runs at, as
\* usb.c:87 says of usb_high_speed and 553 of the descriptor; the other-speed
\* one (561) is the other.
ConfigAdaptsToSpeed ==
    /\ got.of = "configuration descriptor" => got.value = port
    /\ got.of = "other-speed configuration descriptor" => got.value = 1 - port
=============================================================================
