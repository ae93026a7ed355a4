SPECIFICATION FairSpec
CONSTANTS
    Users = {u1}
    Keys = {k1}
    PaymentIds = {p1, p2}
    Delivered = {p1}
    MaxQuantity = 1
    Hold = 1
    Batch = 1
    Capacities = {}
    Schedules <- OneSchedule
    MaxTime = 2
    Fates = {"captured"}
    Amounts = {TRUE}
    MaxEdits = 0
    MaxRequests = 1
    MaxHandlers = 1
    MaxFaults = 1
    Null = Null
PROPERTIES CapturedEventuallySettled HoldEventuallyReleased PaidHoldReconciled
CHECK_DEADLOCK FALSE
