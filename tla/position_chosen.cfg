SPECIFICATION ChosenSpec
CONSTANTS
    o1 = o1  o2 = o2  o3 = o3  o4 = o4
    Order <- FourOrders
    Request <- AutoRequests
    Contracts <- EveryContract
    Reported <- TwoReports
    KnockTypes = {"OK"}
    max_today_opening_volume_ = 1
CHECK_DEADLOCK FALSE
INVARIANTS TypeOK BooksAgree  NoOversell
