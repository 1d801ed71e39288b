SPECIFICATION FairSpec
CONSTANTS
    TX_NUM = 3
    Response = {0, 1}
    MaxAccepted = 6
    MaxTxConfigs = 2
    AnyTimeTxConfig = FALSE
INVARIANTS
    HostReadsWhatWasAccepted
    ActiveMeansQueued
PROPERTIES
    EveryAcceptedResponseRead
CHECK_DEADLOCK FALSE
