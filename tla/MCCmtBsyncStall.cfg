SPECIFICATION Spec
CONSTANTS
    peerA = peerA
    peerF = peerF
    NoPeer = NoPeer
    NoBlock = NoBlock
    Peers <- MCPeers
    Faulty <- MCNoFaulty
    Ranges <- MCRanges
    LocalBlocks <- MCNeverBlocks
    MaxPending = 2
    MinSingle = 2
    Top = 3
    Budget = 2
    MaxTrouble = 3
INVARIANT
    NotAbandoned
CHECK_DEADLOCK FALSE
