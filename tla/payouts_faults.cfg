SPECIFICATION Spec
CONSTANTS
    Validators = {v1, v2}
    Executors = {v1, v2}
    Doubters = {}
    Burns = {}
    InvalidMints = {m1}
    Waverers = {v2}
    Approves <- MCApproves
    OriginHeight <- AtStart
    Confirmations = 1
    Threshold = 2
    CallsFail = FALSE
    Nil = Nil
    MaxHeight = 1
    MaxFailed = 0
    MaxDropped = 1
    MaxCrashes = 1
    LocksExpire = TRUE
    v1 = v1
    v2 = v2
    m1 = m1
INVARIANTS TypeOK
PROPERTIES VaultSpec
