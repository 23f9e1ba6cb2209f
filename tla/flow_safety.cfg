SPECIFICATION Spec
CONSTANTS
    r1 = r1  r2 = r2  r3 = r3  r4 = r4  r5 = r5  r6 = r6  r7 = r7
    Request <- SafetyRequest
    Msg <- SafetyMsg
    FlowMarkets <- TwoMarkets
    th_tps_limit <- SafetyTps
    th_daily_limit <- SafetyDaily
    kFlowControlWindowMS = 1
    kFlowControlPriorityWithdraw = 30
    kFlowControlPriorityCreateRedeem = 20
    MaxNow = 3
    LastArrival = 1
    MaxRestarts = 1
INVARIANTS TypeOK RateLimit WindowExact DailyLimit Accounted
PROPERTIES PriorityRespected ImplementsLimiter
