SPECIFICATION Spec
CONSTANTS
    v1 = v1
    v2 = v2
    v3 = v3
    Validators = {v1, v2, v3}
    Power <- MCPower
    Weight <- MCWeight
    Blocks = {b1, b2}
    Nil = nil
    None = none
    Peers = {p1, p2}
SYMMETRY MCSymmetry
INVARIANTS
    TalliedExactly
    BlocksBounded
    CommitRestores
PROPERTIES
    MajorityIsFinal
