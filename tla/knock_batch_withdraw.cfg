SPECIFICATION Spec
CONSTANTS
    m1 = m1  m2 = m2
    Message <- TwoMessages
    Items <- BatchItems
    kOrderTimeoutMS = 1
    MayFail = {"batch"}
    MaxNow = 1
    MaxWithdraws = 1
CHECK_DEADLOCK FALSE
INVARIANT NoSelfKnock
