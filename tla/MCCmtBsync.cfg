SPECIFICATION Spec
CONSTANTS
    peerA = peerA
    peerF = peerF
    NoPeer = NoPeer
    NoBlock = NoBlock
    Peers <- MCPeers
    Faulty <- MCFaulty
    Ranges <- MCRanges
    LocalBlocks <- MCLocalBlocks
    MaxPending = 2
    MinSingle = 2
    Top = 3
    Budget = 2
    MaxTrouble = 2
INVARIANTS
    SyncIsChain
    PeersExact
    RequestsOwned
CHECK_DEADLOCK FALSE
