SPECIFICATION Spec
CONSTANTS
    n0 = n0
    n1 = n1
    n2 = n2
    b1 = b1
    b2 = b2
    p0 = p0
    p1 = p1
    p2 = p2
    q1 = q1
    Validators = {n0, n1, n2}
    Power <- MCPower
    Weight <- MCWeight
    Blocks <- MCBlocks
    Hashes = {b1, b2}
    Headers = {p0, p1, p2, q1}
    NoHeader = p0
    Content <- MCContent
    TooMany = {}
    Unbounded = {}
    Oversized = {}
    Nil = nil
    None = none
    Local = local
    Peers = {local, p}
    MaxRound = 1
    Self = n0
    ValidBlocks = {b1, b2}
    OwnBlock <- A1
    Proposer <- MCProposer
    StartHeight = 1
    InitialHeight = 1
    AppHashChanged = FALSE
    WaitForTxs = FALSE
    EmptyBlockInterval = FALSE
    SkipTimeoutCommit = FALSE
    LastSigned <- MCLastSigned
    LastBlock <- A1
    NetVotes <- MCVotes
    NetProposals <- MCProposals
    NetClaims = {}
    MaxTocks = 1
INVARIANTS
    SignerNeverRefuses
    LockBacked
    LockKept
    NeverStalls
PROPERTIES
    FollowsTheRules
CHECK_DEADLOCK FALSE
