------------------------------ MODULE MCEndpoint0 ------------------------------
EXTENDS Endpoint0

\* The device descriptor, the configuration descriptor and the one for the other
\* speed, all with wIndex 0; a request for a descriptor with another wIndex finds
\* none.  Endpoint 3 is one the device configures, with the IN direction in bit 7,
\* and 7 and 8 lie on both sides of the bound.
MCDescriptors == {256, 512, 1792} \X {0}
Packet(name, wValue, wIndex, wLength) ==
    [word1 |-> <<name, wValue>>, word2 |-> <<wIndex, wLength>>]
MCRequests ==
    {Packet("SET_ADDRESS", 5, 0, 0), Packet("SET_CONFIGURATION", 1, 0, 0),
     Packet("GET_CONFIGURATION", 0, 0, 1), Packet("GET_DEVICE_STATUS", 0, 0, 2),
     Packet("GET_STATUS", 0, 131, 2), Packet("GET_STATUS", 0, 7, 2),
     Packet("SET_FEATURE", 0, 131, 0), Packet("SET_FEATURE", 0, 3, 0),
     Packet("CLEAR_FEATURE", 0, 131, 0), Packet("SET_FEATURE", 0, 8, 0),
     Packet("GET_DESCRIPTOR", 256, 0, 2), Packet("GET_DESCRIPTOR", 512, 0, 9),
     Packet("GET_DESCRIPTOR", 1792, 0, 9), Packet("GET_DESCRIPTOR", 256, 1, 2),
     Packet("GET_INTERFACE", 0, 0, 1)}
================================================================================
