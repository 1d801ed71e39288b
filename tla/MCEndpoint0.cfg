SPECIFICATION FairSpec
CONSTANTS
    Requests <- MCRequests
    Descriptors <- MCDescriptors
    DescriptorLength = 4
    MaxSetups = 3
    MaxResets = 1
    Prompt = TRUE
    AsksBeforeSpeedKnown = FALSE
INVARIANTS TypeOK NoTornRequest ReplyMatchesRequest StatusMeansDone StallMeansUnknown
PROPERTY EveryRequestAnswered
CHECK_DEADLOCK FALSE
