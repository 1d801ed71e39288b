SPECIFICATION UsbFairSpec
CONSTANTS
    N = 3
    MaxSent = 4
    MaxConfigs = 3
    PacketLen <- MCPacketLen
    Response = {0, 1}
    MaxAccepted = 4
INVARIANTS
    UsbTypeOK
    NoTransferStranded
    ScheduledOnce
    BuffersApart
PROPERTIES
    FifoRefinement
    SilentRefinement
    ReceiveRefinement
    TransmitRefinement
    EveryTransferGivenBack
    EveryPacketPasses
CHECK_DEADLOCK FALSE
