SPECIFICATION FairSpec
CONSTANTS
    RX_NUM = 2
    MaxSent = 5
    MaxConfigs = 3
    PacketLen <- MCPacketLen
    AnyTimeConfig = FALSE
INVARIANTS
    ExclusiveOwnership
    NoBufferLost
    DeliveredInOrder
PROPERTIES
    EveryPacketDelivered
