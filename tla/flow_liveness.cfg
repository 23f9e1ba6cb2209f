SPECIFICATION PromptSpec
CONSTANTS
    r1 = r1  r2 = r2  r3 = r3  r4 = r4  r5 = r5  r6 = r6  r7 = r7
    Request <- LivenessRequest
    Msg <- LivenessMsg
    FlowMarkets <- TwoMarkets
    th_tps_limit <- LivenessTps
    th_daily_limit <- LivenessDaily
    kFlowControlWindowMS = 1
    kFlowControlPriorityWithdraw = 30
    kFlowControlPriorityCreateRedeem = 20
    MaxNow = 9
    LastArrival = 1
    MaxRestarts = 1

PROPERTIES Progress
