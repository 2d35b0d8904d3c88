SPECIFICATION FairSpec
CONSTANTS
    InitialHeight = 1
    HeadLimit = 3
    TotalLimit = 100
    MaxRemove = 4
    BufCap = 1
    PowerCuts = TRUE
    BlockSync = FALSE
    MaxHeight = 1
    MaxOwn = 1
    MaxPeer = 1
    MaxCrashes = 2
    MaxFaults = 1
INVARIANTS
    HandshakeCovered
    OwnMessagesLogged
    RefusesOnlyRotatedDamage
PROPERTIES
    Recovers
CHECK_DEADLOCK FALSE
