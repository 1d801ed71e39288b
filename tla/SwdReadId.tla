------------------------------- MODULE SwdReadId -------------------------------
(***************************************************************************)
(* The SWD self-test of test_swd_read_id.c, clock by clock, against a      *)
(* target (external) that follows the serial wire protocol: it samples and *)
(* changes SWDIO on the rising edge of SWCLK.  Data bits are known by      *)
(* their numbers, so that what ends up where in id_code can be told.       *)
(***************************************************************************)
EXTENDS SwdPins, Sequences

VARIABLES
    at,       \* the next operation of the test
    ack,      \* swd_packet's ack, bit by bit
    id_code,  \* from a bit of id_code to the target's bit that is in it
    reply,    \* how the target answers requests, or that there is none
    state, k, \* the target: its state, and how far it is in it
    ones      \* how many clocks in a row the line was high, up to a line reset

testVars == <<at, ack, id_code>>
targetVars == <<state, k, ones>>
vars == <<pinVars, testVars, reply, targetVars>>

Replies == {"OK", "WAIT", "FAULT", "no target"}
SW_ACK(r) ==
    CASE r = "OK" -> <<1, 0, 0>>
      [] r = "WAIT" -> <<0, 1, 0>>
      [] r = "FAULT" -> <<0, 0, 1>>
      [] OTHER -> <<1, 1, 1>>
LineReset == 50
NotRead == 32
RequestBits == <<1, 0, 1, 0, 0, 1, 0, 1>>   \* read register 0 of the debug port

-----------------------------------------------------------------------------
(* The test as a sequence of operations on the pins.                       *)

Op(name) == [op |-> name]
SWD_CLK(count) == [i \in 1 .. count |-> Op("clock")]

\* The least significant bit goes out first.
swd_write_byte(data) ==
    [i \in 1 .. 8 |-> [op |-> "write", bit |-> (data \div 2 ^ (i - 1)) % 2]]

SWD_READ_ACK == [i \in 1 .. 3 |-> [op |-> "ack", bit |-> i]]

\* swd_read_byte shifts each bit it reads in from the right.
swd_read_byte(byte) ==
    [i \in 1 .. 8 |-> [op |-> "data", bit |-> 8 * byte + 8 - i]]

SW_IDCODE_RD == 165

\* Mutants of swd_packet: the parity bit is not read; the turnaround clock before
\* the acknowledgement is missing.
swd_packet_NoParity(request) ==
    swd_write_byte(request) \o <<Op("disable")>> \o SWD_CLK(1) \o SWD_READ_ACK
        \o swd_read_byte(0) \o swd_read_byte(1) \o swd_read_byte(2)
        \o swd_read_byte(3) \o <<Op("enable"), [op |-> "write", bit |-> 1]>>
swd_packet_NoTurnaround(request) ==
    swd_write_byte(request) \o <<Op("disable")>> \o SWD_READ_ACK
        \o swd_read_byte(0) \o swd_read_byte(1) \o swd_read_byte(2)
        \o swd_read_byte(3) \o <<Op("parity")>>
        \o <<Op("enable"), [op |-> "write", bit |-> 1]>>

\* The data phase is gone through only if the target acknowledges.
swd_packet(request) ==
    swd_write_byte(request) \o <<Op("disable")>> \o SWD_CLK(1) \o SWD_READ_ACK
        \o swd_read_byte(0) \o swd_read_byte(1) \o swd_read_byte(2)
        \o swd_read_byte(3) \o <<Op("parity")>>
        \o <<Op("enable"), [op |-> "write", bit |-> 1]>>

test_dap_connect ==
    <<Op("setup")>> \o SWD_CLK(64) \o swd_write_byte(158) \o swd_write_byte(231)
        \o SWD_CLK(64) \o swd_write_byte(0) \o swd_packet(SW_IDCODE_RD)
        \o swd_write_byte(0)

Finished == at > Len(test_dap_connect)
Operation == test_dap_connect[at]
DataPhase == {"data", "parity"}
Skipped == Operation.op \in DataPhase /\ ack # SW_ACK("OK")

-----------------------------------------------------------------------------
(* The target.                                                             *)

\* The sixteen bits that switch a debug port from JTAG to serial wire.
SelectBits == <<0, 1, 1, 1, 1, 0, 0, 1, 1, 1, 1, 0, 0, 1, 1, 1>>

Driving == reply # "no target" /\ state \in {"ack", "data", "parity"}
Level == IF ~Driving THEN Undriven ELSE IF state = "ack" THEN SW_ACK(reply)[k] ELSE 1

Becomes(s, i) == state' = s /\ k' = i

\* What a rising edge of the clock does to the target, with bit on the line.
RisingEdge(bit) ==
    /\ ones' = IF bit = 0 \/ Driving THEN 0
               ELSE IF ones < LineReset THEN ones + 1 ELSE ones
    /\ CASE state \in {"jtag", "lost"} /\ bit = 0 /\ ones = LineReset -> Becomes("select", 1)
         [] state = "select" ->
              IF bit # SelectBits[k + 1] THEN Becomes("lost", 0)
              ELSE IF k = 15 THEN Becomes("selected", 0) ELSE Becomes("select", k + 1)
         [] state = "selected" /\ bit = 0 /\ ones = LineReset -> Becomes("idle", 1)
         [] state = "idle" /\ bit = 0 -> Becomes("idle", 2)
         [] state = "idle" /\ bit = 1 ->
              IF k < 2 THEN Becomes("lost", 0) ELSE Becomes("request", 1)
         [] state = "request" ->
              IF bit # RequestBits[k + 1] THEN Becomes("lost", 0)
              ELSE IF k = 7 THEN Becomes("turn", 0) ELSE Becomes("request", k + 1)
         [] state = "turn" -> Becomes("ack", 1)
         [] state = "ack" ->
              IF k < 3 THEN Becomes("ack", k + 1)
              ELSE IF reply = "OK" THEN Becomes("data", 0) ELSE Becomes("release", 0)
         [] state = "data" -> IF k < 31 THEN Becomes("data", k + 1) ELSE Becomes("parity", 0)
         [] state = "parity" -> Becomes("release", 0)
         [] state = "release" -> Becomes("idle", 2)
         [] OTHER -> UNCHANGED <<state, k>>

-----------------------------------------------------------------------------
Init ==
    /\ swclk_mode = "in" /\ swdio_mode = "in"
    /\ swclk = 0 /\ swdio = 0
    /\ at = 1
    /\ ack = << >>
    /\ id_code = [i \in 0 .. 31 |-> NotRead]
    /\ reply \in Replies
    /\ state = "jtag" /\ k = 0
    /\ ones = 0

Do(ops) == ~Finished /\ Operation.op \in ops /\ at' = at + 1

\* DAP_SETUP and PORT_SWD_SETUP
Setup ==
    /\ Do({"setup"})
    /\ PORT_SWD_SETUP
    /\ UNCHANGED <<ack, id_code, reply, targetVars>>

Clock ==
    /\ Do({"clock"})
    /\ ClockPulse
    /\ RisingEdge(Line(Level))
    /\ UNCHANGED <<ack, id_code, reply>>

\* SWD_WRITE_BIT: the bit is on the line before the clock falls.
WriteBit ==
    /\ Do({"write"})
    /\ PIN_SWDIO_OUT(Operation.bit)
    /\ RisingEdge(IF swdio_mode = "out" THEN Operation.bit ELSE Line(Level))
    /\ UNCHANGED <<ack, id_code, reply>>

\* SWD_READ_BIT: the line is sampled while the clock is low.
ReadAck ==
    /\ Do({"ack"})
    /\ ack' = Append(ack, Line(Level))
    /\ ClockPulse
    /\ RisingEdge(Line(Level))
    /\ UNCHANGED <<id_code, reply>>

ReadData ==
    /\ Do(DataPhase)
    /\ ~Skipped
    /\ id_code' = IF Operation.op = "parity" THEN id_code
                  ELSE [id_code EXCEPT ![Operation.bit] = k]
    /\ ClockPulse
    /\ RisingEdge(Line(Level))
    /\ UNCHANGED <<ack, reply>>

NoData ==
    /\ Do(DataPhase)
    /\ Skipped
    /\ UNCHANGED <<pinVars, ack, id_code, reply, targetVars>>

Direction ==
    /\ Do({"enable", "disable"})
    /\ IF Operation.op = "enable" THEN PIN_SWDIO_OUT_ENABLE ELSE PIN_SWDIO_OUT_DISABLE
    /\ UNCHANGED <<ack, id_code, reply, targetVars>>

Next == Setup \/ Clock \/ WriteBit \/ ReadAck \/ ReadData \/ NoData \/ Direction

Spec == Init /\ [][Next]_vars

-----------------------------------------------------------------------------
(* Properties.                                                             *)

TypeOK ==
    /\ PinsTypeOK
    /\ at \in 1 .. Len(test_dap_connect) + 1
    /\ ack \in {<< >>} \cup [1 .. 1 -> Bits] \cup [1 .. 2 -> Bits] \cup [1 .. 3 -> Bits]
    /\ id_code \in [0 .. 31 -> (0 .. 31) \cup {NotRead}]
    /\ ones \in 0 .. LineReset

\* The debugger and the target never drive SWDIO at the same time
\* (test_swd_read_id.c:93-129: the turnarounds on both sides of the reply).
NeverBothDrive == ~(Driving /\ swdio_mode = "out")

\* The target understands everything that leads up to its reply, and each bit
\* of it is read in the clock in which the target sends it: the acknowledgement
\* is the target's, and after an OK every bit of its data is in id_code once
\* (test_swd_read_id.c:96-120).  At which place it is asked of no bit: the code
\* shifts each byte in from the right, the first bit sent to its highest place,
\* though the protocol sends the lowest bit first.
ReplyReadInStep ==
    reply # "no target" =>
        /\ ~Finished /\ Operation.op \in {"ack", "data", "parity"} /\ ~Skipped =>
              state = Operation.op /\ (state = "ack" => k = Operation.bit)
        /\ Finished => ack = SW_ACK(reply) /\ state = "idle"
        /\ Finished /\ reply = "OK" => {id_code[i] : i \in 0 .. 31} = 0 .. 31
=============================================================================
