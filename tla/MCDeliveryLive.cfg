CONSTANTS
    Delivery = {d1}
    Subscription = {s1}
    Slot = {w1}
    Maintainer = {m1}
    Token = {t1, t2, t3}
    StaleAfter = 1
    MaxAttempts = 2
    BatchLimit = 1
    MaxTime = 2
    LastCrash = 1
SPECIFICATION FairSpec
PROPERTIES ClaimsResolve DueIsProcessed
CHECK_DEADLOCK FALSE
