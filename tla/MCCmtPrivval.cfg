SPECIFICATION Spec
CONSTANTS
    Heights <- MCHeights
    Rounds <- MCRounds
    BlockIds = {b1, b2}
    Times = {1, 2}
INVARIANTS
    NoConflictingSignatures
    DurableBeforeRelease
PROPERTIES
    ReleasedInOrder
