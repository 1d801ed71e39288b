SPECIFICATION Spec
CONSTANTS
    Requests <- MCRequests
    Descriptors <- MCDescriptors
    DescriptorLength = 4
    MaxSetups = 2
    MaxResets = 1
    Prompt = TRUE
    AsksBeforeSpeedKnown = TRUE
INVARIANT ConfigAdaptsToSpeed
CHECK_DEADLOCK FALSE
