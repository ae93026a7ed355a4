SPECIFICATION Spec
CONSTANTS
    Users = {u1, u2}
    Keys = {k1}
    PaymentIds = {p1, p2}
    Delivered = {}
    MaxQuantity = 1
    Hold = 1
    Batch = 1
    Capacities = {1}
    Schedules <- OneSchedule
    MaxTime = 2
    Fates = {"captured"}
    Amounts = {TRUE}
    MaxEdits = 1
    MaxRequests = 1
    MaxHandlers = 1
    MaxFaults = 0
    Null = Null
SYMMETRY Interchangeable
INVARIANTS NoOversell
PROPERTIES ImplementsSeatLedger
CHECK_DEADLOCK FALSE
