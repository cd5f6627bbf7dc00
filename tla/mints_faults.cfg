SPECIFICATION Spec
CONSTANTS
    Validators = {v1, v2}
    Executors = {v1}
    Dissenters = {}
    Doubters = {}
    Mints = {m1, m2}
    Recipients = {r1}
    RecipientOf <- SameRecipient
    Amount <- SameAmount
    Accepts <- MCAccepts
    OriginHeight <- InNextBlock
    Confirmations = 1
    Threshold = 2
    InitialLimit = 2
    MaxQueryBlocks = 1
    CallsFail = TRUE
    Nil = Nil
    MaxHeight = 2
    Limits = {}
    MaxCrashes = 1
    LocksExpire = FALSE
    r1 = r1
    r2 = r2
INVARIANTS
    TypeOK
    SuccessIsMinted
    SignedIsConfirmed
    CursorIsSettled
    NoncesDistinct
PROPERTIES
    WrappedSpec
