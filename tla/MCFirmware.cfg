SPECIFICATION FirmwareSpec
CONSTANTS
    Pollers = {"dap"}
    Sleepers = {"led", "timer"}
    Waking = {"led"}
    Created <- MCCreated
    MaxDepth = 2
    UNSTARTED = 100
    TickBetweenStores = FALSE
    Fittings <- MCFittings
    CrashPolls = 2
    MaxCrashes = 1
INVARIANTS FirmwareTypeOK HandOverComplete StrayWritesAreCaught MaskedMeansAlone PreparedInSilence
PROPERTIES SwitchLeavesNoHandlerOpen WakingTasksRun
