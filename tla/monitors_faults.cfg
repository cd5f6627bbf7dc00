SPECIFICATION MCSpec
CONSTANTS
    Validators = {v1}
    MintMonitors = {v1}
    BurnMonitors = {v1}
    Deposits = {d1, d2}
    Invalid = {d2}
    Large = {}
    TxOfDeposit <- MCTxOfDeposit
    PageSize = 1
    MaxPageDepth = 2
    BurnEvents = {b1, b2}
    Small = {}
    AboveFee <- MCAboveFee
    TxOf <- OwnTx
    FirstHeight = 2
    FirstBlock = 2
    StartHeight = 1
    StartBlockNumber = 1
    ReadLastHealth = TRUE
    MinimumAmount = 1
    InitialLimit = 2
    Limits = {}
    MintDisabledValues = {FALSE}
    MaxQueryBlocks = 1
    CallsFail = TRUE
    Nil = Nil
    MaxHeight = 5
    MaxBlock = 5
    MaxReorgs = 1
    MaxCrashes = 1
INVARIANTS
    TypeOK
    DepositsBehindCursorAreFiled
    BurnsBehindCursorAreStored
