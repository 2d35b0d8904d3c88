SPECIFICATION FairSpec
CONSTANTS
    Timeouts <- MCTimeouts
    QueueSize = 3
    TockSize = 2
    StepBudget = 4
    MaxPush = 1
INVARIANTS
    ServedWithinFour
    ExpiryHandled
    TimeoutsInOrder
    TimerAgrees
PROPERTIES
    OwnServed
CHECK_DEADLOCK FALSE
