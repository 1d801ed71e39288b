--------------------------- MODULE Endpoint0Proofs ---------------------------
(***************************************************************************)
(* Theorems about Endpoint0, for every set of requests and every number of *)
(* SETUP packets and bus resets.                                           *)
(*                                                                         *)
(* CopyInv follows a SETUP packet from the queue head into usb_isr's       *)
(* locals and needs no hypothesis.  WorkInv says whose work what endpoint 0*)
(* offers is: unless a newer packet is unacknowledged or just being        *)
(* copied, it belongs to the request the host made last.  That needs       *)
(* Prompt, since a status stage primed for an earlier request is otherwise *)
(* taken for the new one's.  ReplyInv adds the data, and the port's speed. *)
(***************************************************************************)
EXTENDS Endpoint0, TLAPS

\* The ISR between the acknowledgement of a packet and the flush.
Copying == {"tripwire", "word1", "word2", "test", "flush"}

\* The ISR after the tripwire has let a packet through.
Working == {"flush", "setup", "ack", "wait", "address"}

\* The host has made a request since the last bus reset.
Live == {"data", "status", "done", "stalled"}

Copied == [word1 |-> word1, word2 |-> word2]

\* What the two directions can be primed with.
Primings == [Directions -> {"none", "data", "ack"}]

SetupPackets == Requests \cup {Zero}
FirstWords == {q.word1 : q \in SetupPackets}
SecondWords == {q.word2 : q \in SetupPackets}

\* TypeOK one variable at a time, with the types of the locals.
EpTypeOK ==
    /\ usb_configuration \in 0 .. 255 /\ usb_high_speed \in 0 .. 1
    /\ halted \subseteq (0 .. MaxEndpoint) \X Directions
    /\ staged \in Replies /\ got \in Replies
    /\ setupBuffer \in SetupPackets /\ request \in SetupPackets
    /\ setupstat \in BOOLEAN /\ sutw \in BOOLEAN /\ stall \in BOOLEAN
    /\ overtaken \in BOOLEAN
    /\ prime \in Primings /\ primed \in Primings
    /\ address \in Nat /\ newAddress \in Nat /\ hostAddress \in Nat
    /\ port \in 0 .. 1
    /\ usbsts \subseteq {"UI", "URI", "PCI"} /\ status \subseteq {"UI", "URI", "PCI"}
    /\ isrPc \in {"idle", "setups", "acknowledge", "tripwire", "word1", "word2",
                  "test", "flush", "setup", "ack", "wait", "address", "reset",
                  "leave"}
    /\ stage \in {"reset", "idle", "data", "status", "done", "stalled"}
    /\ setups \in 0 .. MaxSetups /\ resets \in 0 .. MaxResets
    /\ word1 \in FirstWords /\ word2 \in SecondWords

\* A packet let through is whole, and it is the latest unless a newer one waits
\* to be acknowledged.
CopyInv ==
    /\ setupstat \/ isrPc \in Copying \cup {"acknowledge"}
          => setupBuffer \in Requests
    /\ isrPc = "acknowledge" => setupstat
    /\ isrPc \in {"word2", "test"} /\ sutw => word1 = setupBuffer.word1
    /\ isrPc = "test" /\ sutw => word2 = setupBuffer.word2
    /\ isrPc \in Working => Copied \in Requests
    /\ isrPc \in Working /\ ~setupstat => Copied = setupBuffer

\* What the ISR is doing fits the request it has copied.
StageInv ==
    /\ isrPc = "ack" => word1[1] \in Reads
    /\ isrPc = "address" => word1[1] = "SET_ADDRESS"
    /\ isrPc \notin {"ack", "wait"} => prime = Nothing
    /\ isrPc = "setup" => primed = Nothing
    /\ stage \in Live => request = setupBuffer /\ request \in Requests
    /\ stage = "data" => request.word1[1] \in Reads

\* The request's packet has not been worked on.
Waiting == setupstat \/ isrPc \in Copying \cup {"setup"}

\* What endpoint 0 offers is for the request made last.
Current == stage \in Live /\ ~setupstat /\ isrPc \notin Copying

Unknown(q) ==
    \/ q.word1[1] \in {"GET_INTERFACE", "SET_INTERFACE"}
    \/ q.word1[1] = "GET_DESCRIPTOR" /\ <<q.word1[2], q.word2[1]>> \notin Descriptors
    \/ q.word1[1] \in {"GET_STATUS", "SET_FEATURE", "CLEAR_FEATURE"}
          /\ EndpointOf(q.word2[1]) > MaxEndpoint

\* The request has had its effect, that of SET_ADDRESS apart.
Effect(q) ==
    /\ q.word1[1] = "SET_CONFIGURATION" =>
          /\ usb_configuration = q.word1[2]
          /\ halted \cap (ConfiguredEndpoints \X Directions) = {}
    /\ q.word1[1] = "SET_FEATURE" => HaltOf(q.word2[1]) \in halted
    /\ q.word1[1] = "CLEAR_FEATURE" => HaltOf(q.word2[1]) \notin halted

Offered(d, what) == what \in {prime[d], primed[d]}

WorkInv ==
    /\ Waiting \/ isrPc = "acknowledge" => ~stall
    /\ Waiting /\ stage \in Live =>
          stage = IF request.word1[1] \in Reads THEN "data" ELSE "status"
    /\ Current /\ Offered("in", "data") => request.word1[1] \in Reads
    /\ Current /\ Offered("in", "ack") =>
          /\ request.word1[1] \notin Reads
          /\ Effect(request)
          /\ request.word1[1] = "SET_ADDRESS" =>
                isrPc \in {"wait", "address"} \/ newAddress = request.word1[2]
    /\ stage \in Live /\ stall => Unknown(request)
    /\ stage = "stalled" => Unknown(request)
    /\ stage = "done" =>
          /\ Effect(request)
          /\ request.word1[1] = "SET_ADDRESS" =>
                address = hostAddress /\ hostAddress = request.word1[2]

\* The recorded speed is the port's, or is about to be.
SpeedInv ==
    /\ isrPc = "idle" => status = {}
    /\ ~SpeedPending => usb_high_speed = port
    /\ stage \in Live /\ request.word1 \in SpeedRequests => ~SpeedPending

\* What is offered as data is the answer, and so is what the host has read.
ReplyInv ==
    /\ Current /\ Offered("in", "data") => staged = Expected(request)
    /\ ReplyMatchesRequest

-----------------------------------------------------------------------------
(* Types.                                                                  *)

\* What a request is made of.
LEMMA RequestFacts ==
    ASSUME NEW q \in Requests
    PROVE  /\ q = [word1 |-> q.word1, word2 |-> q.word2]
           /\ q.word1 = <<q.word1[1], q.word1[2]>>
           /\ q.word1[1] \in Reads \cup Writes
           /\ q.word1[2] \in Nat /\ q.word2 \in Nat \X Nat
           /\ q.word2[1] \in Nat /\ q.word2[2] \in Nat
           /\ q.word1[1] = "SET_ADDRESS" => q.word1[2] < NoAddress
           /\ q.word1[1] = "SET_CONFIGURATION" => q.word1[2] \in 0 .. 255
    BY RequestsAssumption

\* A halt is an endpoint's, in one of its directions.
LEMMA HaltFacts ==
    ASSUME NEW wIndex \in Nat
    PROVE  /\ EndpointOf(wIndex) \in Nat
           /\ EndpointOf(wIndex) =< MaxEndpoint =>
                 HaltOf(wIndex) \in (0 .. MaxEndpoint) \X Directions
<1>1. EndpointOf(wIndex) \in Nat
    BY DEF EndpointOf
<1>2. (IF (wIndex \div 128) % 2 = 1 THEN "in" ELSE "out") \in Directions
    BY DEF Directions
<1>3. EndpointOf(wIndex) =< MaxEndpoint => EndpointOf(wIndex) \in 0 .. MaxEndpoint
    BY <1>1 DEF MaxEndpoint
<1>. QED BY <1>1, <1>2, <1>3 DEF HaltOf

\* The locals are words of requests, or still zero.
LEMMA WordFacts ==
    /\ Zero \in SetupPackets /\ Requests \subseteq SetupPackets
    /\ \A q \in SetupPackets : q.word1 \in FirstWords /\ q.word2 \in SecondWords
    /\ \A w \in FirstWords :
          /\ w[1] \in Reads \cup Writes \cup {"none"}
          /\ w[2] \in Nat
          /\ w[1] = "SET_CONFIGURATION" => w[2] \in 0 .. 255
    /\ SecondWords \subseteq Nat \X Nat
<1>1. \A q \in SetupPackets :
         /\ q.word1[1] \in Reads \cup Writes \cup {"none"}
         /\ q.word1[2] \in Nat
         /\ q.word1[1] = "SET_CONFIGURATION" => q.word1[2] \in 0 .. 255
         /\ q.word2 \in Nat \X Nat
  <2>. TAKE q \in SetupPackets
  <2>1. CASE q = Zero
      BY <2>1 DEF Zero
  <2>2. CASE q \in Requests
      BY <2>2, RequestFacts
  <2>. QED BY <2>1, <2>2 DEF SetupPackets
<1>2. Zero \in SetupPackets /\ Requests \subseteq SetupPackets
    BY DEF SetupPackets
<1>. QED BY <1>1, <1>2 DEF FirstWords, SecondWords

\* The replies of endpoint0_setup, descriptors apart.
LEMMA ReplyTypes ==
    /\ NoReply \in Replies
    /\ [of |-> "status", value |-> 0, length |-> 2] \in Replies
    /\ \A halt \in BOOLEAN : StatusReply(halt) \in Replies
    /\ \A c \in 0 .. 255 :
          [of |-> "configuration", value |-> c, length |-> 1] \in Replies
<1>1. 0 \in 0 .. DescriptorLength /\ 1 \in 0 .. DescriptorLength
      /\ 2 \in 0 .. DescriptorLength /\ 0 \in 0 .. 255 /\ 1 \in 0 .. 255
    BY DescriptorAssumption
<1>. QED BY <1>1 DEF Replies, NoReply, StatusReply

\* Descriptor replies are no longer than the descriptor.
LEMMA DescriptorReplyType ==
    ASSUME NEW wValue, NEW speed \in 0 .. 1, NEW wLength \in Nat
    PROVE  DescriptorReply(wValue, speed, wLength) \in Replies
<1>1. ReplyLength(wLength) \in 0 .. DescriptorLength
    BY DescriptorAssumption DEF ReplyLength
<1>2. speed \in 0 .. 255 /\ 1 - speed \in 0 .. 255 /\ 0 \in 0 .. 255
    OBVIOUS
<1>3. CONFIG_DESCRIPTOR # OTHER_SPEED_CONFIG
    BY DEF CONFIG_DESCRIPTOR, OTHER_SPEED_CONFIG
<1>. QED BY <1>1, <1>2, <1>3 DEF DescriptorReply, Replies

\* Priming, retiring and flushing a direction keep the pair of directions in its type.
LEMMA PrimingTypes ==
    /\ Nothing \in Primings
    /\ \A p \in Primings, d \in Directions, what \in {"none", "data", "ack"} :
          [p EXCEPT ![d] = what] \in Primings
    /\ \A p \in Primings, d \in Directions : p[d] \in {"none", "data", "ack"}
    BY DEF Primings, Nothing, Directions

\* The types hold initially.
LEMMA EpTypeInit ==
    Init => EpTypeOK
<1>. HAVE Init
<1>1. 0 \in 0 .. MaxSetups /\ 0 \in 0 .. MaxResets
    BY BoundsAssumption
<1>2. usb_configuration \in 0 .. 255 /\ usb_high_speed \in 0 .. 1 /\ port \in 0 .. 1
      /\ halted \subseteq (0 .. MaxEndpoint) \X Directions
    BY DEF Init
<1>3. NoReply \in Replies /\ Nothing \in Primings /\ Zero \in SetupPackets
      /\ Zero.word1 \in FirstWords /\ Zero.word2 \in SecondWords
    BY ReplyTypes, PrimingTypes, WordFacts
<1>. QED BY <1>1, <1>2, <1>3 DEF EpTypeOK, Init, NoAddress

\* The host and the controller keep the types.
LEMMA EpTypeEnvironment ==
    ASSUME EpTypeOK,
           (\E q \in Requests : HostSetup(q)) \/ Controller \/ Host \/ BusReset
              \/ ResetEnds
    PROVE  EpTypeOK'
<1>a. \A q : HostSetup(q) => setups' \in 0 .. MaxSetups
    BY BoundsAssumption DEF HostSetup, EpTypeOK
<1>b. BusReset => resets' \in 0 .. MaxResets
    BY BoundsAssumption DEF BusReset, EpTypeOK
<1>c. ResetEnds => port' \in 0 .. 1
    BY DEF ResetEnds
<1>d. ASSUME NEW d \in Directions, HwPrime(d)
      PROVE  prime' \in Primings /\ primed' \in Primings
  <2>1. prime \in Primings /\ primed \in Primings /\ prime[d] \in {"none", "data", "ack"}
      BY PrimingTypes DEF EpTypeOK
  <2>2. /\ [prime EXCEPT ![d] = "none"] \in Primings
        /\ [primed EXCEPT ![d] = prime[d]] \in Primings
      BY <2>1, PrimingTypes
  <2>. QED BY <1>d, <2>1, <2>2 DEF HwPrime
<1>e. ASSUME HostStatus
      PROVE  primed' \in Primings /\ address' \in Nat /\ newAddress' \in Nat
  <2>1. /\ [primed EXCEPT !["in"] = "none"] \in Primings
        /\ [primed EXCEPT !["out"] = "none"] \in Primings
      BY PrimingTypes DEF EpTypeOK, Directions
  <2>2. address \in Nat /\ newAddress \in Nat /\ NoAddress \in Nat
      BY DEF EpTypeOK, NoAddress
  <2>. QED BY <1>e, <2>1, <2>2 DEF HostStatus, InDone
<1>f. HostStatus => hostAddress' \in Nat
    BY WordFacts DEF HostStatus, EpTypeOK
<1>. USE ReplyTypes, PrimingTypes, WordFacts
     DEF EpTypeOK, requestState, setupRegisters, endpoint, addresses, locals
<1>1. ASSUME NEW q \in Requests, HostSetup(q) PROVE EpTypeOK'
  <2>1. ResetPending \in BOOLEAN
      BY DEF ResetPending
  <2>. QED BY <1>1, <2>1, <1>a DEF HostSetup, NoAddress
<1>2. ASSUME NEW d \in Directions, HwPrime(d) PROVE EpTypeOK'
  <2>1. UNCHANGED <<requestState, usb_high_speed, staged, setupRegisters, stall,
                    addresses, usbsts, isrPc, locals, host>>
      BY <1>2 DEF HwPrime
  <2>. QED BY <1>2, <2>1, <1>d DEF host
<1>. "in" \in Directions /\ "out" \in Directions
    BY DEF Directions
<1>3. CASE HostData
    BY <1>3 DEF HostData, InDone, NoAddress
<1>4. CASE HostStatus
    BY <1>4, <1>e, <1>f DEF HostStatus
<1>5. CASE HostStalled
    BY <1>5 DEF HostStalled
<1>6. CASE BusReset
    BY <1>6, <1>b DEF BusReset, NoAddress
<1>7. CASE ResetEnds
    BY <1>7, <1>c DEF ResetEnds
<1>. QED BY <1>1, <1>2, <1>3, <1>4, <1>5, <1>6, <1>7 DEF Controller, Host

\* endpoint0_setup keeps the types, whichever request it decodes (usb.c:425-582).
LEMMA EpTypeSetup ==
    ASSUME EpTypeOK, endpoint0_setup
    PROVE  EpTypeOK'
<1>a. ASSUME NEW reply \in Replies, endpoint0_transmit(reply)
      PROVE  /\ staged' \in Replies /\ prime' \in Primings
             /\ stall' = stall /\ isrPc' = "ack"
    BY <1>a, PrimingTypes DEF endpoint0_transmit, EpTypeOK, Goto, Directions
<1>b. word1[2] \in Nat /\ word2[1] \in Nat /\ word2[2] \in Nat
    BY WordFacts DEF EpTypeOK
<1>c. SetFeature => HaltOf(word2[1]) \in (0 .. MaxEndpoint) \X Directions
    BY <1>b, HaltFacts DEF SetFeature, EndpointInRange
<1>d. StatusReply(IsHalted(word2[1])) \in Replies
    BY ReplyTypes DEF IsHalted
<1>. "in" \in Directions
    BY DEF Directions
<1>. USE WordFacts, ReplyTypes, PrimingTypes
     DEF EpTypeOK, setupRegisters, addresses, locals, host, requestState,
         UnchangedByRequest, UnchangedByIsr, Handling, At, Goto
<1>1. CASE SetAddress
    BY <1>1 DEF SetAddress, endpoint0_receive
<1>2. CASE SetConfiguration
    BY <1>2 DEF SetConfiguration, endpoint0_receive
<1>3. CASE GetConfiguration
    BY <1>3, <1>a DEF GetConfiguration
<1>4. CASE GetDeviceStatus
    BY <1>4, <1>a DEF GetDeviceStatus
<1>5. CASE GetStatus
    BY <1>5, <1>a, <1>d DEF GetStatus
<1>6. CASE SetFeature
    BY <1>6, <1>c DEF SetFeature, endpoint0_receive
<1>7. CASE ClearFeature
    BY <1>7 DEF ClearFeature, endpoint0_receive
<1>8. CASE GetDescriptor
  <2>1. DescriptorReply(word1[2], usb_high_speed, word2[2]) \in Replies
      BY <1>b, DescriptorReplyType
  <2>. QED BY <1>8, <2>1, <1>a DEF GetDescriptor
<1>9. CASE Refuse
    BY <1>9 DEF Refuse, Stall
<1>. QED BY <1>1, <1>2, <1>3, <1>4, <1>5, <1>6, <1>7, <1>8, <1>9 DEF endpoint0_setup

\* usb_isr keeps the types.
LEMMA EpTypeIsr ==
    ASSUME EpTypeOK, usb_isr
    PROVE  EpTypeOK'
<1>. "out" \in Directions
    BY DEF Directions
<1>. USE PrimingTypes, WordFacts
     DEF EpTypeOK, setupRegisters, endpoint, addresses, locals, host, requestState,
         UnchangedByIsr, At, Goto
<1>1. CASE IsrEnter
    BY <1>1 DEF IsrEnter
<1>2. CASE ReadSetupStatus
    BY <1>2 DEF ReadSetupStatus
<1>3. CASE AcknowledgeSetup
    BY <1>3 DEF AcknowledgeSetup
<1>4. CASE SetTripwire
    BY <1>4 DEF SetTripwire
<1>5. CASE CopyWord1
    BY <1>5 DEF CopyWord1
<1>5a. CASE CopyWord2
    BY <1>5a DEF CopyWord2
<1>5b. CASE TestTripwire
    BY <1>5b DEF TestTripwire
<1>5c. CASE Flush
    BY <1>5c DEF Flush
<1>6. CASE endpoint0_setup
    BY <1>6, EpTypeSetup
<1>7. CASE PrimeAck
    BY <1>7 DEF PrimeAck
<1>8. CASE WaitForPrime
    BY <1>8 DEF WaitForPrime
<1>9. CASE UseAddress
    BY <1>9 DEF UseAddress
<1>10. CASE HandleReset
    BY <1>10 DEF HandleReset
<1>11. CASE Leave
    BY <1>11 DEF Leave
<1>. QED BY <1>1, <1>2, <1>3, <1>4, <1>5, <1>5a, <1>5b, <1>5c, <1>6, <1>7, <1>8, <1>9, <1>10,
         <1>11 DEF usb_isr

\* Every step keeps the types.
LEMMA EpTypeStep ==
    ASSUME EpTypeOK, [Next]_vars
    PROVE  EpTypeOK'
<1>1. CASE UNCHANGED vars
    BY <1>1 DEF EpTypeOK, vars, setupRegisters, endpoint, addresses, locals, host,
                         requestState
<1>. QED BY <1>1, EpTypeEnvironment, EpTypeIsr DEF Next

\* Every variable stays within its type; no reply is longer than what it is
\* taken from (usb.c:547).
THEOREM TypeCorrect == Spec => []TypeOK
<1>1. EpTypeOK => TypeOK
    BY DEF EpTypeOK, TypeOK, Primings, SetupPackets
<1>. QED BY <1>1, EpTypeInit, EpTypeStep, PTL DEF Spec

-----------------------------------------------------------------------------
(* The copy of a SETUP packet.                                             *)

\* No packet has come yet.
LEMMA CopyInit ==
    Init => CopyInv
    BY DEF Init, CopyInv, Copying, Working

\* The tripwire discards a copy that a newer packet has torn: what reaches the
\* flush is whole (usb.c:249-255).
LEMMA CopyStep ==
    ASSUME EpTypeOK, CopyInv, [Next]_vars
    PROVE  CopyInv'
<1>t. setupstat \in BOOLEAN /\ sutw \in BOOLEAN
    BY DEF EpTypeOK
<1>q. ASSUME UNCHANGED <<setupRegisters, isrPc, word1, word2>>
      PROVE  CopyInv'
    BY <1>q DEF CopyInv, Copied, setupRegisters
<1>1. CASE UNCHANGED vars \/ Controller \/ Host \/ BusReset \/ ResetEnds
    BY <1>1, <1>q DEF vars, locals, Controller, HwPrime, Host, HostData, HostStatus,
                      HostStalled, BusReset, ResetEnds
<1>2. ASSUME NEW q \in Requests, HostSetup(q) PROVE CopyInv'
    BY <1>2, <1>t DEF HostSetup, locals, CopyInv, Copied, Copying, Working
<1>3. CASE endpoint0_setup
  <2>1. /\ UNCHANGED <<setupRegisters, word1, word2>>
        /\ isrPc = "setup" /\ isrPc' \in {"ack", "wait", "setups"}
      BY <1>3 DEF endpoint0_setup, SetAddress, SetConfiguration, GetConfiguration,
                  GetDeviceStatus, GetStatus, SetFeature, ClearFeature,
                  GetDescriptor, Refuse, Stall, endpoint0_transmit,
                  endpoint0_receive, UnchangedByRequest, Handling, At, Goto, locals
  <2>. QED BY <2>1, <1>t DEF CopyInv, Copied, Copying, Working, setupRegisters
<1>. USE <1>t DEF UnchangedByIsr, At, Goto, setupRegisters, locals, CopyInv, Copied,
                  Copying, Working
<1>4. CASE IsrEnter
    BY <1>4 DEF IsrEnter
<1>5. CASE ReadSetupStatus
    BY <1>5 DEF ReadSetupStatus
<1>6. CASE AcknowledgeSetup
    BY <1>6 DEF AcknowledgeSetup
<1>7. CASE SetTripwire
    BY <1>7 DEF SetTripwire
<1>8. CASE CopyWord1
    BY <1>8 DEF CopyWord1
<1>9. CASE CopyWord2
    BY <1>9 DEF CopyWord2
<1>10. CASE TestTripwire
  <2>1. setupBuffer = [word1 |-> setupBuffer.word1, word2 |-> setupBuffer.word2]
      BY <1>10, RequestFacts DEF TestTripwire
  <2>. QED BY <1>10, <2>1 DEF TestTripwire
<1>11. CASE Flush
    BY <1>11 DEF Flush
<1>12. CASE PrimeAck
    BY <1>12 DEF PrimeAck
<1>13. CASE WaitForPrime
    BY <1>13 DEF WaitForPrime
<1>14. CASE UseAddress
    BY <1>14 DEF UseAddress
<1>15. CASE HandleReset
    BY <1>15 DEF HandleReset
<1>16. CASE Leave
    BY <1>16 DEF Leave
<1>. QED BY <1>1, <1>2, <1>3, <1>4, <1>5, <1>6, <1>7, <1>8, <1>9, <1>10, <1>11, <1>12,
            <1>13, <1>14, <1>15, <1>16 DEF Next, usb_isr

\* The ISR is idle and the host has asked for nothing.
LEMMA StageInit ==
    Init => StageInv
    BY DEF Init, StageInv, Live

\* Each point of the ISR is reached only with a request that leads there.
LEMMA StageStep ==
    ASSUME EpTypeOK, CopyInv, StageInv, [Next]_vars
    PROVE  StageInv'
<1>. USE DEF StageInv, Live
<1>1. CASE UNCHANGED vars
    BY <1>1 DEF vars, endpoint, setupRegisters, locals, host
<1>2. ASSUME NEW q \in Requests, HostSetup(q) PROVE StageInv'
    BY <1>2 DEF HostSetup, locals
<1>3. ASSUME NEW d \in Directions, HwPrime(d) PROVE StageInv'
  <2>1. isrPc \in {"ack", "wait"}
      BY <1>3 DEF HwPrime, Nothing
  <2>. QED BY <1>3, <2>1 DEF HwPrime, setupRegisters, locals, host
<1>4. CASE Host
  <2>1. /\ UNCHANGED <<isrPc, word1, prime, setupBuffer, request>>
        /\ stage \in Live /\ stage' \in Live \ {"data"}
      BY <1>4 DEF Host, HostData, HostStatus, HostStalled, setupRegisters, locals,
                  endpoint
  <2>2. isrPc = "setup" => UNCHANGED primed
      BY <1>4 DEF Host, HostData, HostStatus, HostStalled, InDone, endpoint, Nothing,
                  Directions
  <2>. QED BY <2>1, <2>2
<1>5. CASE BusReset
    BY <1>5 DEF BusReset, locals
<1>6. CASE ResetEnds
    BY <1>6 DEF ResetEnds, endpoint, locals, setupRegisters
<1>7. CASE endpoint0_setup
  <2>1. /\ UNCHANGED <<word1, setupBuffer, primed, host>>
        /\ isrPc = "setup"
        /\ \/ isrPc' = "ack" /\ word1[1] \in Reads
           \/ isrPc' = "wait"
           \/ isrPc' = "setups" /\ UNCHANGED prime
      BY <1>7 DEF endpoint0_setup, SetAddress, SetConfiguration, GetConfiguration,
                  GetDeviceStatus, GetStatus, SetFeature, ClearFeature,
                  GetDescriptor, Refuse, Stall, endpoint0_transmit,
                  endpoint0_receive, UnchangedByRequest, UnchangedByIsr, Handling,
                  At, Goto, locals, setupRegisters, Reads
  <2>. QED BY <2>1 DEF host
<1>. USE DEF UnchangedByIsr, At, Goto, setupRegisters, locals, host, endpoint
<1>8. CASE IsrEnter
    BY <1>8 DEF IsrEnter
<1>9. CASE ReadSetupStatus
    BY <1>9 DEF ReadSetupStatus
<1>10. CASE AcknowledgeSetup \/ SetTripwire
    BY <1>10 DEF AcknowledgeSetup, SetTripwire
<1>11. CASE CopyWord1
    BY <1>11 DEF CopyWord1
<1>12. CASE CopyWord2
    BY <1>12 DEF CopyWord2
<1>13. CASE TestTripwire
    BY <1>13 DEF TestTripwire
<1>14. CASE Flush
    BY <1>14 DEF Flush
<1>15. CASE PrimeAck
    BY <1>15 DEF PrimeAck
<1>16. CASE WaitForPrime
    BY <1>16 DEF WaitForPrime
<1>17. CASE UseAddress
    BY <1>17 DEF UseAddress
<1>18. CASE HandleReset
    BY <1>18 DEF HandleReset
<1>19. CASE Leave
    BY <1>19 DEF Leave
<1>. QED BY <1>1, <1>2, <1>3, <1>4, <1>5, <1>6, <1>7, <1>8, <1>9, <1>10, <1>11, <1>12,
            <1>13, <1>14, <1>15, <1>16, <1>17, <1>18, <1>19
         DEF Next, usb_isr, Controller

\* endpoint0_setup never works on a torn packet: the tripwire of usb.c:249-254
\* does what it is for, however many packets arrive while one is copied.
THEOREM NoTornRequestCorrect == Spec => []NoTornRequest
<1>1. CopyInv => NoTornRequest
    BY DEF CopyInv, NoTornRequest, Working, Copied, At
<1>. QED BY <1>1, EpTypeInit, EpTypeStep, CopyInit, CopyStep, PTL DEF Spec

-----------------------------------------------------------------------------
(* Whose work endpoint 0 offers.                                           *)

\* Nothing is offered in a direction that is neither priming nor primed.
LEMMA OfferedNothing ==
    ASSUME NEW what \in {"data", "ack"}, prime = Nothing, primed = Nothing
    PROVE  ~Offered("in", what)
    BY DEF Offered, Nothing, Directions

\* While the ISR works on a packet and no newer one has come, the packet is the
\* host's request.
LEMMA WorksForRequest ==
    ASSUME CopyInv, StageInv, stage \in Live, isrPc \in Working, ~setupstat
    PROVE  word1 = request.word1 /\ word2 = request.word2
    BY DEF CopyInv, StageInv, Copied

\* Endpoint 0 answers the host only with what is current, and not before the
\* address of SET_ADDRESS is written.
LEMMA AnswersWhenCurrent ==
    ASSUME Prompt, CopyInv, StageInv, stage \in Live, Answers
    PROVE  /\ Current
           /\ request.word1[1] = "SET_ADDRESS" => isrPc \notin {"wait", "address"}
    BY WorksForRequest DEF Answers, Current, InShortSequence, Copying, Working

\* Nothing is offered yet.
LEMMA WorkInit ==
    Init => WorkInv
    BY DEF Init, WorkInv, Live, Current, Waiting, Copying

\* The host moves to its next stage only on what endpoint 0 offers for its request.
LEMMA WorkEnvironment ==
    ASSUME Prompt, EpTypeOK, CopyInv, StageInv, WorkInv,
           (\E q \in Requests : HostSetup(q)) \/ Controller \/ Host \/ BusReset
              \/ ResetEnds
    PROVE  WorkInv'
<1>1. ASSUME NEW q \in Requests, HostSetup(q) PROVE WorkInv'
  <2>1. /\ setupstat' = TRUE /\ stall' = FALSE /\ request' = q
        /\ stage' = IF q.word1[1] \in Reads THEN "data" ELSE "status"
      BY <1>1 DEF HostSetup
  <2>. QED BY <2>1 DEF WorkInv, Current, Waiting
<1>2. ASSUME NEW d \in Directions, HwPrime(d) PROVE WorkInv'
  <2>1. UNCHANGED <<requestState, setupRegisters, stall, addresses, isrPc, host>>
      BY <1>2 DEF HwPrime
  <2>2. ASSUME Current, NEW what \in {"data", "ack"}, Offered("in", what)'
        PROVE  Offered("in", what)
    <3>1. prime \in Primings /\ primed \in Primings
        BY DEF EpTypeOK
    <3>2. prime'["in"] \in {prime["in"], "none"}
        BY <1>2, <3>1 DEF HwPrime, Primings, Directions
    <3>3. primed'["in"] \in {prime["in"], primed["in"]}
        BY <1>2, <3>1 DEF HwPrime, Primings, Directions
    <3>. QED BY <2>2, <3>2, <3>3 DEF Offered
  <2>. QED BY <2>1, <2>2 DEF WorkInv, Current, Waiting, Effect, Unknown, requestState,
                             setupRegisters, addresses, host
<1>3. CASE HostData
  <2>1. /\ UNCHANGED <<requestState, setupRegisters, prime, stall, isrPc, request,
                       hostAddress>>
        /\ primed' = [primed EXCEPT !["in"] = "none"]
        /\ stage = "data" /\ stage' = "status" /\ Answers
      BY <1>3 DEF HostData, InDone
  <2>2. Current /\ request.word1[1] \in Reads
      BY <2>1, AnswersWhenCurrent DEF StageInv, Live
  <2>3. ~Waiting
      BY <1>3, <2>2 DEF Waiting, Current, StageInv, HostData, Nothing, Directions
  <2>4. ASSUME NEW what \in {"data", "ack"}, Offered("in", what)'
        PROVE  Offered("in", what)
      BY <2>1, <2>4, PrimingTypes DEF Offered, EpTypeOK, Primings, Directions
  <2>5. /\ ~Offered("in", "ack")' /\ ~Waiting'
      BY <2>1, <2>2, <2>3, <2>4 DEF WorkInv, Waiting, setupRegisters
  <2>6. Offered("in", "data")' => request'.word1[1] \in Reads
      BY <2>1, <2>2
  <2>7. stall' => Unknown(request)'
      BY <2>1, <2>2 DEF WorkInv, Current, Unknown
  <2>8. isrPc' = "acknowledge" => ~stall'
      BY <2>1 DEF WorkInv
  <2>. QED BY <2>1, <2>5, <2>6, <2>7, <2>8 DEF WorkInv
<1>4. CASE HostStatus
  <2>1. /\ UNCHANGED <<requestState, setupRegisters, prime, stall, isrPc, request>>
        /\ \E d \in Directions :
              primed[d] # "none" /\ primed' = [primed EXCEPT ![d] = "none"]
        /\ stage = "status" /\ stage' = "done" /\ Answers /\ ~stall
      BY <1>4 DEF HostStatus, InDone, Directions
  <2>2. /\ Current
        /\ request.word1[1] = "SET_ADDRESS" => isrPc \notin {"wait", "address"}
      BY <2>1, AnswersWhenCurrent DEF Live
  <2>3. ~Waiting
      BY <2>1, <2>2 DEF Waiting, Current, StageInv, Nothing
  <2>4. ASSUME NEW what \in {"data", "ack"}, Offered("in", what)'
        PROVE  Offered("in", what)
      BY <2>1, <2>4, PrimingTypes DEF Offered, EpTypeOK, Primings, Directions
  <2>5. CASE request.word1[1] \in Reads
    <3>1. ~Offered("in", "ack")'
        BY <2>2, <2>4, <2>5 DEF WorkInv
    <3>2. Effect(request)'
        BY <2>1, <2>5 DEF Effect, Reads
    <3>. QED BY <2>1, <2>3, <2>5, <3>1, <3>2
             DEF WorkInv, Waiting, setupRegisters, Reads
  <2>6. CASE request.word1[1] \notin Reads
    <3>1. primed["in"] # "none" /\ InDone /\ primed["in"] \in {"data", "ack"}
        BY <1>4, <2>6, PrimingTypes DEF HostStatus, EpTypeOK, Directions
    <3>2. Offered("in", "ack") /\ ~Offered("in", "data")
        BY <2>2, <2>6, <3>1 DEF WorkInv, Offered
    <3>3. ~Offered("in", "data")'
        BY <2>4, <3>2
    <3>4. Effect(request) /\ Effect(request)'
        BY <2>1, <2>2, <3>2 DEF WorkInv, Effect, requestState
    <3>5. request.word1[1] = "SET_ADDRESS" =>
             /\ address' = request.word1[2] /\ hostAddress' = request.word1[2]
      <4>1. HAVE request.word1[1] = "SET_ADDRESS"
      <4>2. newAddress = request.word1[2]
          BY <2>2, <3>2, <4>1 DEF WorkInv
      <4>3. request \in Requests
          BY <2>1 DEF StageInv, Live
      <4>4. newAddress # NoAddress
          BY <4>1, <4>2, <4>3, RequestFacts DEF NoAddress
      <4>. QED BY <1>4, <3>1, <4>1, <4>2, <4>4 DEF HostStatus, InDone
    <3>6. request.word1[1] = "SET_ADDRESS" => ~Offered("in", "ack")'
      <4>1. HAVE request.word1[1] = "SET_ADDRESS"
      <4>2. isrPc # "ack"
          BY <2>1, <2>2, <2>6, WorksForRequest
          DEF StageInv, Current, Live, Working
      <4>3. prime = Nothing
          BY <2>2, <4>1, <4>2 DEF StageInv
      <4>4. primed'["in"] = "none"
          BY <3>1 DEF InDone, EpTypeOK, Primings, Directions
      <4>. QED BY <2>1, <4>3, <4>4 DEF Offered, Nothing, Directions
    <3>7. isrPc' = "acknowledge" => ~stall'
        BY <2>1
    <3>. QED BY <2>1, <2>3, <2>6, <3>3, <3>4, <3>5, <3>6, <3>7
             DEF WorkInv, Waiting, setupRegisters
  <2>. QED BY <2>5, <2>6
<1>5. CASE HostStalled
  <2>1. /\ UNCHANGED <<requestState, setupRegisters, endpoint, addresses, isrPc,
                       request, hostAddress>>
        /\ stage \in {"data", "status"} /\ stage' = "stalled" /\ Answers /\ stall
      BY <1>5 DEF HostStalled
  <2>2. Current /\ Unknown(request) /\ ~Waiting
      BY <2>1, AnswersWhenCurrent DEF Live, WorkInv
  <2>. QED BY <2>1, <2>2 DEF WorkInv, Waiting, Current, Offered, Effect, Unknown,
                             requestState, setupRegisters, endpoint, addresses, Live
<1>6. CASE BusReset
    BY <1>6 DEF BusReset, WorkInv, Current, Live
<1>7. CASE ResetEnds
    BY <1>7 DEF ResetEnds, WorkInv, Waiting, Current, Live, setupRegisters, endpoint
<1>. QED BY <1>1, <1>2, <1>3, <1>4, <1>5, <1>6, <1>7 DEF Controller, Host

\* endpoint0_setup finds nothing offered, the request in its first stage, and
\* its own packet to be the request, unless a newer one has come.
LEMMA SetupStarts ==
    ASSUME CopyInv, StageInv, WorkInv, isrPc = "setup"
    PROVE  /\ prime = Nothing /\ primed = Nothing
           /\ stage \in Live =>
                stage = IF request.word1[1] \in Reads THEN "data" ELSE "status"
           /\ stage \in Live /\ ~setupstat =>
                word1 = request.word1 /\ word2 = request.word2
    BY WorksForRequest DEF StageInv, WorkInv, Waiting, Working

\* endpoint0_setup gives a request its effect before it primes the status stage, and
\* stalls only what it does not know.
LEMMA WorkSetup ==
    ASSUME Prompt, EpTypeOK, CopyInv, StageInv, WorkInv, endpoint0_setup
    PROVE  WorkInv'
<1>1. /\ isrPc = "setup"
      /\ UNCHANGED <<setupRegisters, primed, host, word1, word2>>
    BY DEF endpoint0_setup, SetAddress, SetConfiguration, GetConfiguration,
           GetDeviceStatus, GetStatus, SetFeature, ClearFeature, GetDescriptor,
           Refuse, UnchangedByRequest, UnchangedByIsr, Handling, At, locals
<1>2. /\ prime = Nothing /\ primed = Nothing
      /\ stage \in Live =>
           stage = IF request.word1[1] \in Reads THEN "data" ELSE "status"
      /\ stage \in Live /\ ~setupstat =>
           word1 = request.word1 /\ word2 = request.word2
    BY <1>1, SetupStarts
<1>3. stage \notin {"done", "stalled"}
    BY <1>2 DEF Live
<1>4. ~stall
    BY <1>1 DEF WorkInv, Waiting
<1>5. CASE Refuse
  <2>1. isrPc' = "setups" /\ prime' = prime /\ stall' = ~setupstat
      BY <1>5 DEF Refuse, Stall, Goto
  <2>2. ~Offered("in", "data")' /\ ~Offered("in", "ack")'
      BY <1>1, <1>2, <2>1 DEF Offered, Nothing, Directions
  <2>3. stage \in Live /\ ~setupstat => Unknown(request)
    <3>1. EndpointOf(word2[1]) \in Nat
        BY WordFacts, HaltFacts DEF EpTypeOK
    <3>. QED BY <1>2, <1>5, <3>1 DEF Refuse, Unknown, EndpointInRange, MaxEndpoint
  <2>. QED BY <1>1, <1>2, <1>3, <2>1, <2>2, <2>3
           DEF WorkInv, Waiting, Unknown, Copying, setupRegisters, host, EpTypeOK
<1>6. CASE GetConfiguration \/ GetDeviceStatus \/ GetStatus \/ GetDescriptor
  <2>1. /\ isrPc' = "ack" /\ stall' = stall /\ word1[1] \in Reads
        /\ prime' = prime \/ prime' = [prime EXCEPT !["in"] = "data"]
      BY <1>6 DEF GetConfiguration, GetDeviceStatus, GetStatus, GetDescriptor,
                  endpoint0_transmit, Handling, Goto, Reads
  <2>2. ~Offered("in", "ack")'
      BY <1>1, <1>2, <2>1 DEF Offered, Nothing, Directions
  <2>3. Current' => request'.word1[1] \in Reads
      BY <1>1, <1>2, <2>1 DEF Current, setupRegisters, host
  <2>. QED BY <1>1, <1>2, <1>3, <1>4, <2>1, <2>2, <2>3
           DEF WorkInv, Waiting, Copying, setupRegisters, host
<1>7. CASE SetAddress \/ SetConfiguration \/ SetFeature \/ ClearFeature
  <2>1. /\ isrPc' = "wait" /\ stall' = stall
        /\ prime' = [prime EXCEPT !["in"] = "ack"]
      BY <1>7 DEF SetAddress, SetConfiguration, SetFeature, ClearFeature,
                  endpoint0_receive, Goto
  <2>2. ~Offered("in", "data")'
      BY <1>1, <1>2, <2>1 DEF Offered, Nothing, Directions
  <2>3. ASSUME Current'
        PROVE  request'.word1[1] \notin Reads /\ Effect(request)'
    <3>1. word1 = request.word1 /\ word2 = request.word2 /\ request' = request
        BY <1>1, <1>2, <2>3 DEF Current, setupRegisters, host
    <3>2. CASE SetAddress
        BY <3>1, <3>2 DEF SetAddress, Handling, Reads, Effect
    <3>3. CASE SetConfiguration
        BY <3>1, <3>3 DEF SetConfiguration, Handling, Reads, Effect
    <3>4. CASE SetFeature
        BY <3>1, <3>4 DEF SetFeature, Handling, Reads, Effect
    <3>5. CASE ClearFeature
        BY <3>1, <3>5 DEF ClearFeature, Handling, Reads, Effect
    <3>. QED BY <1>7, <3>2, <3>3, <3>4, <3>5
  <2>. QED BY <1>1, <1>2, <1>3, <1>4, <2>1, <2>2, <2>3
           DEF WorkInv, Waiting, Copying, setupRegisters, host
<1>. QED BY <1>5, <1>6, <1>7 DEF endpoint0_setup

\* The ISR's other steps: a flushed or retired stage offers nothing.
LEMMA WorkIsr ==
    ASSUME Prompt, EpTypeOK, CopyInv, StageInv, WorkInv, usb_isr
    PROVE  WorkInv'
<1>t. setupstat \in BOOLEAN /\ stall \in BOOLEAN
    BY DEF EpTypeOK
\* Steps that change no more than where the ISR is, outside the address exemption.
<1>q. ASSUME UNCHANGED <<requestState, setupstat, endpoint, addresses, host>>,
             isrPc \notin {"wait", "address"},
             isrPc \in Copying => isrPc' \in Copying,
             Waiting' => Waiting,
             isrPc' = "acknowledge" => setupstat
      PROVE  WorkInv'
  <2>1. Current' => Current
      BY <1>q DEF Current, host
  <2>2. \A what \in {"data", "ack"} : Offered("in", what)' <=> Offered("in", what)
      BY <1>q DEF Offered, endpoint
  <2>3. (Effect(request)' <=> Effect(request)) /\ (Unknown(request)' <=> Unknown(request))
      BY <1>q DEF Effect, Unknown, requestState, host
  <2>4. isrPc' = "acknowledge" => Waiting
      BY <1>q DEF Waiting
  <2>. HIDE DEF Current, Offered, Effect, Unknown, Waiting
  <2>. QED BY <1>q, <1>t, <2>1, <2>2, <2>3, <2>4
           DEF WorkInv, endpoint, addresses, host
<1>1. CASE IsrEnter \/ ReadSetupStatus \/ Leave
  <2>1. /\ UNCHANGED <<requestState, setupstat, endpoint, addresses, host>>
        /\ isrPc \in {"idle", "setups", "leave"}
        /\ isrPc' \in {"idle", "setups", "acknowledge", "reset", "leave"}
        /\ isrPc' = "acknowledge" => setupstat
      BY <1>1 DEF IsrEnter, ReadSetupStatus, Leave, At, Goto, UnchangedByIsr,
                  setupRegisters
  <2>. QED BY <2>1, <1>q DEF Copying, Waiting
<1>2. CASE SetTripwire \/ CopyWord1 \/ CopyWord2 \/ TestTripwire
  <2>1. /\ UNCHANGED <<requestState, setupstat, endpoint, addresses, host>>
        /\ isrPc \in Copying /\ isrPc' \in Copying
      BY <1>2 DEF SetTripwire, CopyWord1, CopyWord2, TestTripwire, At, Goto,
                  UnchangedByIsr, setupRegisters, Copying
  <2>. QED BY <2>1, <1>q DEF Copying, Waiting
<1>3. CASE AcknowledgeSetup
  <2>1. /\ UNCHANGED <<requestState, endpoint, addresses, host>>
        /\ isrPc = "acknowledge" /\ isrPc' = "tripwire" /\ setupstat
      BY <1>3 DEF AcknowledgeSetup, At, Goto, UnchangedByIsr, CopyInv
  <2>. QED BY <2>1 DEF WorkInv, Waiting, Current, Copying, Unknown, Effect,
                       requestState, endpoint, addresses, host
<1>4. CASE Flush
  <2>1. /\ UNCHANGED <<requestState, setupstat, prime, stall, addresses, host>>
        /\ isrPc = "flush" /\ isrPc' = "setup" /\ primed' = Nothing
      BY <1>4 DEF Flush, At, Goto, UnchangedByIsr
  <2>2. ~Offered("in", "data")' /\ ~Offered("in", "ack")'
      BY <2>1 DEF Offered, StageInv, Nothing, Directions
  <2>. QED BY <2>1, <2>2 DEF WorkInv, Waiting, Copying, Unknown, Effect,
                             requestState, addresses, host
<1>5. CASE endpoint0_setup
    BY <1>5, WorkSetup
<1>6. CASE PrimeAck
  <2>1. /\ UNCHANGED <<requestState, setupstat, primed, stall, addresses, host>>
        /\ isrPc = "ack" /\ isrPc' = "wait"
        /\ prime' = [prime EXCEPT !["out"] = "ack"]
      BY <1>6 DEF PrimeAck, At, Goto, UnchangedByIsr, setupRegisters
  <2>2. prime'["in"] = prime["in"]
      BY <2>1, PrimingTypes DEF EpTypeOK, Primings, Directions
  <2>. QED BY <2>1, <2>2 DEF WorkInv, Waiting, Current, Copying, Offered, Unknown,
                             Effect, requestState, addresses, host
<1>7. CASE WaitForPrime
  <2>1. /\ UNCHANGED <<requestState, setupstat, endpoint, addresses, host>>
        /\ isrPc = "wait"
        /\ isrPc' = IF word1[1] = "SET_ADDRESS" THEN "address" ELSE "setups"
      BY <1>7 DEF WaitForPrime, At, Goto, UnchangedByIsr, setupRegisters
  <2>2. Current => word1 = request.word1
      BY <2>1, WorksForRequest DEF Current, Working
  <2>. QED BY <2>1, <2>2 DEF WorkInv, Waiting, Current, Copying, Offered, Unknown,
                             Effect, requestState, endpoint, addresses, host
<1>8. CASE UseAddress
  <2>1. /\ UNCHANGED <<requestState, setupstat, endpoint, address, host>>
        /\ isrPc = "address" /\ isrPc' = "setups" /\ newAddress' = word1[2]
      BY <1>8 DEF UseAddress, At, Goto, UnchangedByIsr, setupRegisters
  <2>2. Current => word1 = request.word1
      BY <2>1, WorksForRequest DEF Current, Working
  <2>. QED BY <2>1, <2>2 DEF WorkInv, Waiting, Current, Copying, Offered, Unknown,
                             Effect, requestState, endpoint, host
<1>9. CASE HandleReset
  <2>1. /\ UNCHANGED <<requestState, prime, stall, addresses, host>>
        /\ isrPc = "reset" /\ isrPc' = "leave" /\ primed' = Nothing
        /\ prime = Nothing /\ setupstat' = FALSE
      BY <1>9 DEF HandleReset, At, Goto, UnchangedByIsr
  <2>2. ~Offered("in", "data")' /\ ~Offered("in", "ack")'
      BY <2>1 DEF Offered, Nothing, Directions
  <2>. QED BY <2>1, <2>2 DEF WorkInv, Waiting, Copying, Unknown, Effect,
                             requestState, addresses, host
<1>. QED BY <1>1, <1>2, <1>3, <1>4, <1>5, <1>6, <1>7, <1>8, <1>9 DEF usb_isr

\* Every step keeps what is offered and what was asked in agreement.
LEMMA WorkStep ==
    ASSUME Prompt, EpTypeOK, CopyInv, StageInv, WorkInv, [Next]_vars
    PROVE  WorkInv'
<1>1. CASE UNCHANGED vars
    BY <1>1 DEF vars, WorkInv, Waiting, Current, Offered, Unknown, Effect, requestState,
                setupRegisters, endpoint, addresses, host
<1>. QED BY <1>1, WorkEnvironment, WorkIsr DEF Next

\* What endpoint 0 offers is for the request made last, when the ISR's short
\* register sequences are not overtaken by the host (usb.c:243-262, 425-582).
THEOREM WorkInvCorrect ==
    ASSUME Prompt
    PROVE  Spec => [](EpTypeOK /\ CopyInv /\ StageInv /\ WorkInv)
<1>1. Init => EpTypeOK /\ CopyInv /\ StageInv /\ WorkInv
    BY EpTypeInit, CopyInit, StageInit, WorkInit
<1>2. EpTypeOK /\ CopyInv /\ StageInv /\ WorkInv /\ [Next]_vars
         => EpTypeOK' /\ CopyInv' /\ StageInv' /\ WorkInv'
    BY EpTypeStep, CopyStep, StageStep, WorkStep
<1>. QED BY <1>1, <1>2, PTL DEF Spec

\* When the status stage has told the host that a request is done, it is done
\* (usb.c:435-522).
THEOREM StatusMeansDoneCorrect ==
    ASSUME Prompt
    PROVE  Spec => []StatusMeansDone
<1>1. WorkInv => StatusMeansDone
    BY DEF WorkInv, StatusMeansDone, Effect
<1>. QED BY <1>1, WorkInvCorrect, PTL

\* Only a request the device does not know is refused (usb.c:580-581).
THEOREM StallMeansUnknownCorrect ==
    ASSUME Prompt
    PROVE  Spec => []StallMeansUnknown
<1>1. WorkInv => StallMeansUnknown
    BY DEF WorkInv, StallMeansUnknown, Unknown
<1>. QED BY <1>1, WorkInvCorrect, PTL

-----------------------------------------------------------------------------
(* What the host reads.                                                    *)

\* The port and the recorded speed agree initially.
LEMMA SpeedInit ==
    Init => SpeedInv
    BY DEF Init, SpeedInv, SpeedPending, Live

\* A speed that is not recorded yet is owed an interrupt (usb.c:351-363).
LEMMA SpeedStep ==
    ASSUME ~AsksBeforeSpeedKnown, SpeedInv, [Next]_vars
    PROVE  SpeedInv'
<1>. USE DEF SpeedInv, SpeedPending, Live
<1>1. ASSUME NEW q \in Requests, HostSetup(q) PROVE SpeedInv'
  <2>1. /\ UNCHANGED <<isrPc, status, usb_high_speed, port>>
        /\ usbsts' = usbsts \cup {"UI"} /\ request' = q
        /\ SpeedPending => q.word1 \notin SpeedRequests
      BY <1>1 DEF HostSetup, locals
  <2>. QED BY <2>1
<1>2. CASE BusReset
    BY <1>2 DEF BusReset, locals
<1>3. CASE ResetEnds
    BY <1>3 DEF ResetEnds, locals
<1>4. CASE IsrEnter
    BY <1>4 DEF IsrEnter, At, Goto, UnchangedByIsr, host
<1>5. CASE Leave
    BY <1>5 DEF Leave, At, Goto, UnchangedByIsr, host
<1>q. ASSUME UNCHANGED <<usbsts, status, usb_high_speed, port, request>>,
             stage' \in Live => stage \in Live,
             isrPc' = "idle" => isrPc = "idle"
      PROVE  SpeedInv'
    BY <1>q
<1>6. CASE UNCHANGED vars \/ Controller \/ Host
  <2>1. /\ UNCHANGED <<usbsts, status, usb_high_speed, port, request, isrPc>>
        /\ stage' \in Live => stage \in Live
      BY <1>6 DEF vars, host, locals, Controller, HwPrime, Host, HostData, HostStatus,
                  HostStalled
  <2>. QED BY <2>1, <1>q
<1>7. CASE endpoint0_setup
  <2>1. /\ UNCHANGED <<usbsts, locals, usb_high_speed, host>>
        /\ isrPc' \in {"ack", "wait", "setups"}
      BY <1>7 DEF endpoint0_setup, SetAddress, SetConfiguration, GetConfiguration,
                  GetDeviceStatus, GetStatus, SetFeature, ClearFeature,
                  GetDescriptor, Refuse, Stall, endpoint0_transmit,
                  endpoint0_receive, UnchangedByRequest, UnchangedByIsr, Handling,
                  At, Goto
  <2>. QED BY <2>1, <1>q DEF host, locals
<1>8. ASSUME usb_isr, ~IsrEnter, ~Leave, ~endpoint0_setup
      PROVE  SpeedInv'
  <2>1. UNCHANGED <<usbsts, status, usb_high_speed, host>> /\ isrPc' # "idle"
      BY <1>8 DEF usb_isr, ReadSetupStatus, AcknowledgeSetup, SetTripwire, CopyWord1,
                  CopyWord2, TestTripwire, Flush, PrimeAck, WaitForPrime, UseAddress,
                  HandleReset, At, Goto, UnchangedByIsr, locals
  <2>. QED BY <2>1, <1>q DEF host
<1>. QED BY <1>1, <1>2, <1>3, <1>4, <1>5, <1>6, <1>7, <1>8 DEF Next, usb_isr

\* The answer, request by request.
LEMMA ExpectedReplies ==
    ASSUME NEW q
    PROVE  /\ q.word1[1] = "GET_CONFIGURATION" =>
                Expected(q) = [of |-> "configuration", value |-> usb_configuration,
                               length |-> 1]
           /\ q.word1[1] = "GET_DEVICE_STATUS" =>
                Expected(q) = [of |-> "status", value |-> 0, length |-> 2]
           /\ q.word1[1] = "GET_STATUS" =>
                Expected(q) = StatusReply(HaltOf(q.word2[1]) \in halted)
           /\ q.word1[1] = "GET_DESCRIPTOR" =>
                Expected(q) = DescriptorReply(q.word1[2], port, q.word2[2])
    BY DEF Expected

\* The answer changes only with the device's state.
LEMMA ExpectedStable ==
    ASSUME UNCHANGED <<requestState, port, request>>
    PROVE  Expected(request)' = Expected(request)
    BY DEF Expected, requestState

\* No data is offered yet.
LEMMA ReplyInit ==
    Init => ReplyInv
    BY DEF Init, ReplyInv, ReplyMatchesRequest, Current, Live

\* A step that leaves the answer alone, offers no new data and takes the host no
\* further leaves ReplyInv alone.
LEMMA ReplyKept ==
    ASSUME ReplyInv, UNCHANGED <<requestState, host>>,
           Current' /\ Offered("in", "data")' =>
              Current /\ Offered("in", "data") /\ staged' = staged
    PROVE  ReplyInv'
<1>1. Expected(request)' = Expected(request)
    BY ExpectedStable DEF host
<1>. HIDE DEF Current, Offered, Expected
<1>. QED BY <1>1 DEF ReplyInv, ReplyMatchesRequest, host

\* The host reads the data that is offered.
LEMMA ReplyEnvironment ==
    ASSUME Prompt, EpTypeOK, CopyInv, StageInv, WorkInv, ReplyInv,
           (\E q \in Requests : HostSetup(q)) \/ Controller \/ Host \/ BusReset
              \/ ResetEnds
    PROVE  ReplyInv'
<1>1. ASSUME NEW q \in Requests, HostSetup(q) PROVE ReplyInv'
    BY <1>1 DEF HostSetup, ReplyInv, ReplyMatchesRequest, Current
<1>2. ASSUME NEW d \in Directions, HwPrime(d) PROVE ReplyInv'
  <2>1. UNCHANGED <<requestState, staged, setupRegisters, isrPc, host>>
      BY <1>2 DEF HwPrime
  <2>2. ASSUME Offered("in", "data")'
        PROVE  Offered("in", "data")
    <3>1. prime \in Primings /\ primed \in Primings
        BY DEF EpTypeOK
    <3>2. prime'["in"] \in {prime["in"], "none"}
        BY <1>2, <3>1 DEF HwPrime, Primings, Directions
    <3>3. primed'["in"] \in {prime["in"], primed["in"]}
        BY <1>2, <3>1 DEF HwPrime, Primings, Directions
    <3>. QED BY <2>2, <3>2, <3>3 DEF Offered
  <2>. QED BY <2>1, <2>2, ReplyKept DEF Current, setupRegisters, host
<1>3. CASE HostData
  <2>1. Current /\ request.word1[1] \in Reads
      BY <1>3, AnswersWhenCurrent DEF HostData, StageInv, Live
  <2>2. primed["in"] = "data"
      BY <1>3, <2>1, PrimingTypes
      DEF HostData, WorkInv, Offered, EpTypeOK, Directions
  <2>3. staged = Expected(request)
      BY <2>1, <2>2 DEF ReplyInv, Offered
  <2>4. UNCHANGED <<requestState, port, request, staged>> /\ got' = staged
      BY <1>3, <2>2 DEF HostData
  <2>5. Expected(request)' = Expected(request)
      BY <2>4, ExpectedStable
  <2>. QED BY <2>3, <2>4, <2>5 DEF ReplyInv, ReplyMatchesRequest
<1>4. CASE HostStatus
  <2>1. /\ UNCHANGED <<requestState, port, request, staged, got, setupRegisters,
                       isrPc, prime>>
        /\ stage = "status" /\ stage' = "done"
        /\ \E d \in Directions : primed' = [primed EXCEPT ![d] = "none"]
      BY <1>4 DEF HostStatus, InDone, Directions
  <2>2. Offered("in", "data")' => Offered("in", "data")
      BY <2>1, PrimingTypes DEF Offered, EpTypeOK, Primings, Directions
  <2>3. Expected(request)' = Expected(request)
      BY <2>1, ExpectedStable
  <2>. QED BY <2>1, <2>2, <2>3
           DEF ReplyInv, ReplyMatchesRequest, Current, Live, setupRegisters
<1>5. CASE HostStalled
  <2>1. /\ UNCHANGED <<requestState, port, request, staged, setupRegisters,
                       isrPc, endpoint>>
        /\ stage \in Live /\ stage' = "stalled"
      BY <1>5 DEF HostStalled, Live
  <2>2. Expected(request)' = Expected(request)
      BY <2>1, ExpectedStable
  <2>. QED BY <2>1, <2>2
           DEF ReplyInv, ReplyMatchesRequest, Current, Offered, setupRegisters, endpoint
<1>6. CASE BusReset
    BY <1>6 DEF BusReset, ReplyInv, ReplyMatchesRequest, Current, Live
<1>7. CASE ResetEnds
    BY <1>7 DEF ResetEnds, ReplyInv, ReplyMatchesRequest, Current, Live
<1>. QED BY <1>1, <1>2, <1>3, <1>4, <1>5, <1>6, <1>7 DEF Controller, Host

\* What endpoint0_setup stages is the answer to the request.
LEMMA ReplySetup ==
    ASSUME EpTypeOK, CopyInv, StageInv, WorkInv, SpeedInv, ReplyInv, endpoint0_setup
    PROVE  ReplyInv'
<1>1. /\ isrPc = "setup"
      /\ UNCHANGED <<setupRegisters, primed, host, word1, word2>>
    BY DEF endpoint0_setup, SetAddress, SetConfiguration, GetConfiguration,
           GetDeviceStatus, GetStatus, SetFeature, ClearFeature, GetDescriptor,
           Refuse, UnchangedByRequest, UnchangedByIsr, Handling, At, locals
<1>2. /\ prime = Nothing /\ primed = Nothing
      /\ stage \in Live =>
           stage = IF request.word1[1] \in Reads THEN "data" ELSE "status"
      /\ stage \in Live /\ ~setupstat =>
           word1 = request.word1 /\ word2 = request.word2
    BY <1>1, SetupStarts
<1>3. ReplyMatchesRequest'
    BY <1>1, <1>2 DEF ReplyMatchesRequest, Live, host
<1>4. SUFFICES ASSUME Current', Offered("in", "data")'
               PROVE  staged' = Expected(request)'
    BY <1>3 DEF ReplyInv
<1>5. /\ Current /\ request' = request /\ port' = port
      /\ word1 = request.word1 /\ word2 = request.word2
    BY <1>1, <1>2, <1>4 DEF Current, Copying, setupRegisters, host
<1>6. ~ (SetAddress \/ SetConfiguration \/ SetFeature \/ ClearFeature \/ Refuse)
    BY <1>1, <1>2, <1>4 DEF SetAddress, SetConfiguration, SetFeature, ClearFeature, Refuse,
         Stall, endpoint0_receive, Offered, Nothing, Directions
<1>7. ASSUME UNCHANGED requestState
      PROVE  Expected(request)' = Expected(request)
    BY <1>5, <1>7, ExpectedStable
<1>8. CASE GetConfiguration
    BY <1>5, <1>7, <1>8, ExpectedReplies
    DEF GetConfiguration, Handling, endpoint0_transmit
<1>9. CASE GetDeviceStatus
    BY <1>5, <1>7, <1>9, ExpectedReplies
    DEF GetDeviceStatus, Handling, endpoint0_transmit
<1>10. CASE GetStatus
  <2>1. IsHalted(word2[1]) <=> HaltOf(word2[1]) \in halted
      BY <1>1 DEF IsHalted, WorkInv, Waiting
  <2>2. StatusReply(IsHalted(word2[1])) = StatusReply(HaltOf(word2[1]) \in halted)
      BY <2>1 DEF StatusReply
  <2>. QED BY <1>5, <1>7, <1>10, <2>2, ExpectedReplies
           DEF GetStatus, Handling, endpoint0_transmit
<1>11. CASE GetDescriptor
  <2>1. request \in Requests /\ request.word1[1] = "GET_DESCRIPTOR"
      BY <1>5, <1>11 DEF GetDescriptor, Handling, StageInv, Current
  <2>2. DescriptorReply(request.word1[2], port, request.word2[2])
           = DescriptorReply(request.word1[2], usb_high_speed, request.word2[2])
    <3>1. CASE request.word1[2] \in {CONFIG_DESCRIPTOR, OTHER_SPEED_CONFIG}
      <4>1. request.word1 \in SpeedRequests
          BY <2>1, <3>1, RequestFacts DEF SpeedRequests
      <4>. QED BY <1>5, <4>1 DEF SpeedInv, Current
    <3>2. CASE request.word1[2] \notin {CONFIG_DESCRIPTOR, OTHER_SPEED_CONFIG}
        BY <3>2 DEF DescriptorReply
    <3>. QED BY <3>1, <3>2
  <2>. QED BY <1>5, <1>7, <1>11, <2>1, <2>2, ExpectedReplies
           DEF GetDescriptor, endpoint0_transmit
<1>. QED BY <1>6, <1>8, <1>9, <1>10, <1>11 DEF endpoint0_setup

\* What endpoint0_setup stages is the answer to the request it has copied.
LEMMA ReplyIsr ==
    ASSUME EpTypeOK, CopyInv, StageInv, WorkInv, SpeedInv, ReplyInv, usb_isr
    PROVE  ReplyInv'
<1>1. CASE endpoint0_setup
    BY <1>1, ReplySetup
<1>2. ASSUME ~endpoint0_setup
      PROVE  UNCHANGED <<requestState, host, staged>>
    BY <1>2 DEF usb_isr, IsrEnter, ReadSetupStatus, AcknowledgeSetup, SetTripwire,
                CopyWord1, CopyWord2, TestTripwire, Flush, PrimeAck, WaitForPrime,
                UseAddress, HandleReset, Leave, UnchangedByIsr
<1>3. CASE IsrEnter \/ ReadSetupStatus \/ Leave \/ SetTripwire \/ CopyWord1
           \/ CopyWord2 \/ TestTripwire \/ WaitForPrime \/ UseAddress
  <2>1. /\ UNCHANGED <<endpoint, setupstat>>
        /\ isrPc \in Copying => isrPc' \in Copying \cup {"flush"}
      BY <1>3 DEF IsrEnter, ReadSetupStatus, Leave, SetTripwire, CopyWord1, CopyWord2,
                  TestTripwire, WaitForPrime, UseAddress, At, Goto, setupRegisters,
                  Copying
  <2>2. Offered("in", "data")' => Offered("in", "data")
      BY <2>1 DEF Offered, endpoint
  <2>3. UNCHANGED <<requestState, host, staged>>
      BY <1>2, <1>3 DEF IsrEnter, ReadSetupStatus, Leave, SetTripwire, CopyWord1,
                        CopyWord2, TestTripwire, WaitForPrime, UseAddress,
                        UnchangedByIsr
  <2>. QED BY <2>1, <2>2, <2>3, ReplyKept DEF Current, Copying, host
<1>4. CASE AcknowledgeSetup
  <2>1. isrPc' = "tripwire" /\ UNCHANGED <<requestState, host>>
      BY <1>4 DEF AcknowledgeSetup, Goto, UnchangedByIsr
  <2>. QED BY <2>1, ReplyKept DEF Current, Copying
<1>5. CASE Flush \/ HandleReset
  <2>1. /\ prime' = Nothing /\ primed' = Nothing
        /\ UNCHANGED <<requestState, host>>
      BY <1>5 DEF Flush, HandleReset, StageInv, At, UnchangedByIsr
  <2>2. ~Offered("in", "data")'
      BY <2>1 DEF Offered, Nothing, Directions
  <2>. QED BY <2>1, <2>2, ReplyKept
<1>6. CASE PrimeAck
  <2>1. /\ UNCHANGED <<requestState, host, staged, setupstat, primed>>
        /\ isrPc = "ack"
        /\ prime' = [prime EXCEPT !["out"] = "ack"]
      BY <1>6 DEF PrimeAck, At, UnchangedByIsr, setupRegisters
  <2>2. prime'["in"] = prime["in"]
      BY <2>1, PrimingTypes DEF EpTypeOK, Primings, Directions
  <2>. QED BY <2>1, <2>2, ReplyKept DEF Current, Offered, Copying, host
<1>. QED BY <1>1, <1>3, <1>4, <1>5, <1>6 DEF usb_isr

\* Every step keeps the offered data the answer to the request.
LEMMA ReplyStep ==
    ASSUME Prompt, EpTypeOK, CopyInv, StageInv, WorkInv, SpeedInv, ReplyInv, [Next]_vars
    PROVE  ReplyInv'
<1>1. CASE UNCHANGED vars
  <2>1. UNCHANGED <<requestState, host, staged, setupstat, isrPc, endpoint>>
      BY <1>1 DEF vars, setupRegisters
  <2>. QED BY <2>1, ReplyKept DEF Current, Offered, endpoint, host
<1>. QED BY <1>1, ReplyEnvironment, ReplyIsr DEF Next

\* The data a host reads answer the request it made last, whatever requests it
\* gave up before; the flush and the loop (usb.c:257, 262) are what it rests on.
THEOREM ReplyMatchesRequestCorrect ==
    ASSUME Prompt, ~AsksBeforeSpeedKnown
    PROVE  Spec => []ReplyMatchesRequest
<1>1. Init => SpeedInv /\ ReplyInv
    BY SpeedInit, ReplyInit
<1>2. EpTypeOK /\ CopyInv /\ StageInv /\ WorkInv /\ SpeedInv /\ ReplyInv /\ [Next]_vars
         => SpeedInv' /\ ReplyInv'
    BY SpeedStep, ReplyStep
<1>3. ReplyInv => ReplyMatchesRequest
    BY DEF ReplyInv
<1>. QED BY <1>1, <1>2, <1>3, WorkInvCorrect, PTL DEF Spec

=============================================================================
