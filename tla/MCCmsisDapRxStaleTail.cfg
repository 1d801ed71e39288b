SPECIFICATION Spec
CONSTANTS
    RX_NUM = 2
    MaxSent = 5
    MaxConfigs = 3
    PacketLen <- MCPacketLen
    AnyTimeConfig = TRUE
INVARIANTS
    LengthIsWhatHostSent
