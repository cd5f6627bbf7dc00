SPECIFICATION MCFairSpec
CONSTANTS
    Validators = {v1}
    MintMonitors = {v1}
    BurnMonitors = {v1}
    Deposits = {d1, d2}
    Invalid = {}
    Large = {d1}
    TxOfDeposit <- MCTxOfDeposit
    PageSize = 1
    MaxPageDepth = 3
    BurnEvents = {b1, b2}
    Small = {b2}
    AboveFee <- MCAboveFee
    TxOf <- OwnTx
    FirstHeight = 2
    FirstBlock = 2
    StartHeight = 1
    StartBlockNumber = 1
    ReadLastHealth = TRUE
    MinimumAmount = 1
    InitialLimit = 2
    Limits = {3}
    MintDisabledValues = {TRUE, FALSE}
    MaxQueryBlocks = 1
    CallsFail = FALSE
    Nil = Nil
    MaxHeight = 5
    MaxBlock = 5
    MaxReorgs = 1
    MaxCrashes = 1
INVARIANTS
    InOneCollection
PROPERTIES
    DepositsAreFiled
    BurnsAreStored
