SPECIFICATION Spec
CONSTANTS
    InitialHeight = 1
    HeadLimit = 2
    TotalLimit = 5
    MaxRemove = 4
    BufCap = 1
    PowerCuts = FALSE
    BlockSync = TRUE
    MaxHeight = 2
    MaxOwn = 2
    MaxPeer = 1
    MaxCrashes = 2
    MaxFaults = 0
INVARIANTS
    OwnMessagesReplayed
    MarkedBlockStored
    SearchExact
