SPECIFICATION Spec
CONSTANTS
    m1 = m1  m2 = m2
    Message <- TwoMessages
    Items <- BatchItems
    kOrderTimeoutMS = 1
    MayFail = {}
    MaxNow = 3
    MaxWithdraws = 1
CHECK_DEADLOCK FALSE
INVARIANTS TypeOK NoSelfKnock NoPhantomBlock Reachable
