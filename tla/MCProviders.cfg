SPECIFICATION ProvidersSpec
CONSTANTS
    Phones = {p1, p2}
    NoPhone = none
    Checks = {c1, c2}
    MaxVerifiers = 3
    MaxCodes = 3
    Notes = {n1, n2}
    MaxPushes = 2
    MaxStops = 1
    MaxTries = 3
    MaxRedates = 1
    RetentionTicks = 2
    WindowTicks = 2
    LastTick = 4
SYMMETRY Interchangeable
INVARIANTS TokenOfEnteredCode SentOnceUnlessMasked OneReminderPerDate FurthestReportKept
CHECK_DEADLOCK FALSE
