SPECIFICATION FairSpec
CONSTANTS
    Validators = {v1, v2}
    Executors = {v1}
    Doubters = {}
    Burns = {b1}
    InvalidMints = {}
    Waverers = {}
    Approves <- MCApproves
    OriginHeight <- AfterStart
    Confirmations = 1
    Threshold = 2
    CallsFail = FALSE
    Nil = Nil
    MaxHeight = 2
    MaxFailed = 1
    MaxDropped = 0
    MaxCrashes = 0
    LocksExpire = FALSE
    v1 = v1
    v2 = v2
    b1 = b1
INVARIANTS SignedIsConfirmed
PROPERTIES BurnsArePaid VaultSpec
