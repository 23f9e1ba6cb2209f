SPECIFICATION Spec
CONSTANTS
    o1 = o1  o2 = o2  o3 = o3  o4 = o4
    Order <- FourOrders
    Request <- ClientRequests
    Contracts <- EveryContract
    Reported <- TwoReports
    KnockTypes = {"OK", "WithdrawOK"}
    max_today_opening_volume_ = 1
CHECK_DEADLOCK FALSE
INVARIANT BooksAgree
