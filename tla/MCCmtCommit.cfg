SPECIFICATION Spec
CONSTANTS
    n0 = n0
    n1 = n1
    n2 = n2
    b1 = b1
    b2 = b2
    p0 = p0
    p1 = p1
    p2 = p2
    q1 = q1
    g = g
    o = o
    u = u
    Validators = {n0, n1, n2}
    Power <- MCPower
    Weight <- MCWeight
    Blocks <- MCBlocks
    Hashes = {b1, b2}
    Headers <- MCHeaders
    NoHeader = p0
    Content <- MCContent
    TooMany = {u}
    Unbounded = {u}
    Oversized = {o}
    Nil = nil
    None = none
    Local = local
    Peers = {local, p}
    MaxRound = 1
    Self = n0
    ValidBlocks = {b1}
    OwnBlock <- A1
    Proposer <- MCProposer
    StartHeight = 2
    InitialHeight = 1
    AppHashChanged = FALSE
    WaitForTxs = TRUE
    EmptyBlockInterval = TRUE
    SkipTimeoutCommit = TRUE
    LastSigned <- MCLastSigned
    LastBlock <- A1
    NetVotes <- MCVotes
    NetProposals <- MCProposals
    NetClaims <- MCClaims
    MaxTocks = 1
INVARIANTS
    NeverPanics
    BlocksBacked
    DecisionBacked
    EquivocationReported
CHECK_DEADLOCK FALSE
