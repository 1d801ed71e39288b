SPECIFICATION Spec
CONSTANTS
    RX_NUM = 2
    TX_NUM = 2
    MaxSent = 4
    MaxConfigs = 2
    Window = 2
    PacketLen <- MCPacketLen
    AnyTimeConfig = TRUE
INVARIANTS
    NoUnsolicitedResponse
