SPECIFICATION Spec
CONSTANTS
    m1 = m1  m2 = m2
    Message <- TwoMessages
    Items <- AlikeItems
    kOrderTimeoutMS = 1
    MayFail = {}
    MaxNow = 3
    MaxWithdraws = 0
CHECK_DEADLOCK FALSE
INVARIANT NoSelfKnock
