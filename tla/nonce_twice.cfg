SPECIFICATION Spec
CONSTANTS
    Validators = {v1, v2, v3}
    Executors = {}
    Dissenters = {}
    Doubters = {}
    Mints = {m1, m2, m3}
    Recipients = {r1}
    RecipientOf <- SameRecipient
    Amount <- SameAmount
    Accepts <- MCAccepts
    OriginHeight <- AtStart
    Confirmations = 0
    Threshold = 3
    InitialLimit = 2
    MaxQueryBlocks = 1
    CallsFail = FALSE
    Nil = Nil
    MaxHeight = 0
    Limits = {}
    MaxCrashes = 0
    LocksExpire = FALSE
    r1 = r1
    r2 = r2
SYMMETRY Symmetric
INVARIANTS
    NoncesDistinct
