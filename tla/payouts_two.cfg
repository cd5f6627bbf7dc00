SPECIFICATION Spec
CONSTANTS
    Validators = {v1, v2}
    Executors = {v1}
    Doubters = {v2}
    Burns = {b1}
    InvalidMints = {m1}
    Waverers = {}
    Approves <- MCApproves
    OriginHeight <- AtStart
    Confirmations = 1
    Threshold = 1
    CallsFail = TRUE
    Nil = Nil
    MaxHeight = 1
    MaxFailed = 1
    MaxDropped = 0
    MaxCrashes = 0
    LocksExpire = FALSE
    v1 = v1
    v2 = v2
    b1 = b1
    m1 = m1
INVARIANTS
    PayoutsApproved
    SignaturesAgree
    PaidAtMostOnce
    SuccessIsPaid
PROPERTIES SignedIsFrozen
