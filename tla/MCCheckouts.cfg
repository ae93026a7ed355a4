SPECIFICATION Spec
CONSTANTS
    Users = {u1}
    Keys = {k1, k2}
    PaymentIds = {p1, p2}
    Delivered = {}
    MaxQuantity = 1
    Hold = 1
    Batch = 2
    Capacities = {1}
    Schedules <- OneSchedule
    MaxTime = 1
    Fates = {"authorized", "captured"}
    Amounts = {TRUE, FALSE}
    MaxEdits = 0
    MaxRequests = 2
    MaxHandlers = 2
    MaxFaults = 1
    Null = Null
CONSTRAINT OneMatter
SYMMETRY Interchangeable
INVARIANTS BookingBacked CapturedAccounted OneOpenOrder PaidIffBooked
PROPERTIES MoneyIsFinal
CHECK_DEADLOCK FALSE
