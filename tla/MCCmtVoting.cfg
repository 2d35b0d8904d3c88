SPECIFICATION Spec
CONSTANTS
    Validators = {h1, h2, h3, f}
    Honest = {h1, h2, h3}
    Early <- MCEarly
    Quorums <- MCQuorums
    Blocks = {b1, b2}
    Hash <- MCHash
    Nil = nil
    Rounds <- MCRounds
SYMMETRY MCSymmetry
INVARIANTS
    Agreement
CHECK_DEADLOCK FALSE
