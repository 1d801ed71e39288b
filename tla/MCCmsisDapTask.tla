--------------------------- MODULE MCCmsisDapTask ---------------------------
EXTENDS CmsisDapTask

\* CMSIS-DAP requests have at least their command byte.
MCPacketLen == [p \in 0 .. MaxSent |-> 1]
=============================================================================
