SPECIFICATION MCSpec
CONSTANTS
    Validators = {v1}
    MintMonitors = {}
    BurnMonitors = {v1}
    Deposits = {}
    Invalid = {}
    Large = {}
    TxOfDeposit <- MCTxOfDeposit
    PageSize = 1
    MaxPageDepth = 3
    BurnEvents = {b1, b2}
    Small = {}
    AboveFee <- MCAboveFee
    TxOf <- OneTx
    FirstHeight = 2
    FirstBlock = 2
    StartHeight = 1
    StartBlockNumber = 1
    ReadLastHealth = TRUE
    MinimumAmount = 1
    InitialLimit = 2
    Limits = {}
    MintDisabledValues = {FALSE}
    MaxQueryBlocks = 1
    CallsFail = FALSE
    Nil = Nil
    MaxHeight = 2
    MaxBlock = 4
    MaxReorgs = 0
    MaxCrashes = 1
INVARIANTS
    BurnsBehindCursorAreStored
