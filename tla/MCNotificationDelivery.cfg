CONSTANTS
    Delivery = {d1}
    Subscription = {s1}
    Slot = {w1, w2}
    Maintainer = {m1}
    Token = {t1, t2, t3, t4}
    StaleAfter = 1
    MaxAttempts = 2
    BatchLimit = 1
    MaxTime = 2
    LastCrash = 1
SPECIFICATION Spec
SYMMETRY Symmetry
INVARIANTS
    AtMostOnce RetryableMeansUnsent SentIsTruthful DeliveryInv
PROPERTIES ContractSpec
CHECK_DEADLOCK FALSE
