SPECIFICATION Spec
CONSTANTS
  Nodes <- MCNodes
  Owners <- MCOwners
  Worlds <- MCWorlds
  QueueMax = 1
  PeerRows = 1
  MaxRetries = 2
  ReplMin = 1
  MaxClock = 1
  MaxTrouble = 1
INVARIANT
    StoredKept
PROPERTIES
    DeadRecovers
    Converges
CHECK_DEADLOCK FALSE
