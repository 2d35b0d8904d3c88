SPECIFICATION Spec
CONSTANTS
    Vals <- MCVals
    Delegators <- MCDelegators
    Geneses <- MCGeneses
    Bond = 2
    Purse = 4
    Fee = 1
    Amounts <- MCAmounts
    Rates <- MCRates
    Pool = 60
    Seeds <- MCSeeds
    Flaky <- MCFlaky
    Movers <- MCMovers
    MaxValidators = 5
    MinDelegation = 1
    MaxDelegators = 1
    AutoRetire = 2
    UnbondEpochs = 1
    LockEpochs = 0
    RewardDivisor = 4
    PayoutInterval = 2
    CapBps = 3000
    MaxEpoch = 4
    MaxTx = 3
INVARIANTS
    BooksBalance
    PowerBacked
    OnlyEmptyHalts
    CommissionNotice
PROPERTY
    RuleNSurvivable
CHECK_DEADLOCK FALSE
