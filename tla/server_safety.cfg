SPECIFICATION FairSpec
CONSTANTS
    m1 = m1  m2 = m2  m3 = m3  w1 = w1
    Message = {m1, m2, m3}
    Items <- BuySellAndNone
    Withdraw = {w1}
    Target <- WithdrawFirst
    Limited = {m2, w1}
    kOrderTimeoutMS = 1
    request_timeout_ms = 1
    timeout <- SellWaits
    enable_query_only = FALSE
    MaxNow = 3
    MaxUnread = 1
    LastPublish = 1
INVARIANTS TypeOK OneFate RefusedLeavesNoTrace ApartOrNoKnock
PROPERTY Settled
