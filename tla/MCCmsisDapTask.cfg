SPECIFICATION FairSpec
CONSTANTS
    RX_NUM = 2
    TX_NUM = 2
    MaxSent = 6
    MaxConfigs = 3
    Window = 2
    PacketLen <- MCPacketLen
    AnyTimeConfig = FALSE
INVARIANTS
    TypeOK
    NoResponseDropped
PROPERTIES
    ServiceRefinement
    EveryRequestAnswered
