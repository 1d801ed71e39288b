---------------------------- MODULE MCCmsisDapUsb ----------------------------
EXTENDS CmsisDapUsb

\* Packet 2 is a zero-length packet; the others have lengths of their own.
MCPacketLen == [p \in 0 .. MaxSent |-> IF p = 2 THEN 0 ELSE p]
=============================================================================
