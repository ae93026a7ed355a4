SPECIFICATION FairSpec
CONSTANTS
    Users = {u1}
    Keys = {k1}
    PaymentIds = {p1}
    Delivered = {p1}
    MaxQuantity = 1
    Hold = 1
    Batch = 1
    Capacities = {}
    Schedules <- OneSchedule
    MaxTime = 1
    Fates = {"captured"}
    Amounts = {TRUE}
    MaxEdits = 0
    MaxRequests = 2
    MaxHandlers = 1
    MaxFaults = 0
    Null = Null
PROPERTIES CapturedEventuallySettled
CHECK_DEADLOCK FALSE
