SPECIFICATION Spec
CONSTANTS
    Validators = {v1, v2, v3}
    Executors = {}
    Dissenters = {}
    Doubters = {v2, v3}
    Mints = {m1, m2}
    Recipients = {r1}
    RecipientOf <- SameRecipient
    Amount <- AmountByOrder
    Accepts <- MCAccepts
    OriginHeight <- AtStart
    Confirmations = 0
    Threshold = 2
    InitialLimit = 2
    MaxQueryBlocks = 1
    CallsFail = FALSE
    Nil = Nil
    MaxHeight = 0
    Limits = {}
    MaxCrashes = 0
    LocksExpire = TRUE
    r1 = r1
    r2 = r2
INVARIANTS
    MintedAtMostOnce SignaturesAgree
PROPERTIES
    SignedIsFrozen WrappedSpec
