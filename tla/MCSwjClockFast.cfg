SPECIFICATION Spec
CONSTANTS
    CPU_CLOCK = 600000000
    UINT32 <- MCUint32
    Clocks <- FasterClocks
INVARIANTS
    NoSlowerThanNeeded
