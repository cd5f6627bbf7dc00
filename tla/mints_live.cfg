SPECIFICATION FairSpec
CONSTANTS
    Validators = {v1, v2}
    Executors = {v1}
    Dissenters = {}
    Doubters = {}
    Mints = {m1, m2}
    Recipients = {r1, r2}
    RecipientOf <- OtherRecipient
    Amount <- SameAmount
    Accepts <- MCAccepts
    OriginHeight <- AtStart
    Confirmations = 0
    Threshold = 2
    InitialLimit = 2
    MaxQueryBlocks = 1
    CallsFail = FALSE
    Nil = Nil
    MaxHeight = 0
    Limits = {}
    MaxCrashes = 1
    LocksExpire = FALSE
    r1 = r1
    r2 = r2
PROPERTIES
    MintsSucceed
    MintedIsRecorded
