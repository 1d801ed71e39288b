SPECIFICATION TargetSpec
CONSTANTS
    CPU_CLOCK = 600000000
    UINT32 = 1073741824
    Clocks <- MCClocks
    Pins = {3, 17}
    Functions = {"f", "g"}
    Modes = {"CHANGE", "RISING", "LOW", "OTHER"}
INVARIANTS
    TargetTypeOK
    NeverFasterThanAsked
    NoSlowerThanNeeded
    NeverBothDrive
    ReplyReadInStep
    CallbackForItsEvent
CHECK_DEADLOCK FALSE
