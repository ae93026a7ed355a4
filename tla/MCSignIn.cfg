SPECIFICATION SignInSpec
CONSTANTS
    SessionIds = {s1}
    Slots = {h1, h2}
    Job = job
    MaxSanctions = 2
    NoSession = none
    Tabs = {t1, t2}
    MaxLogins = 1
    MaxRotations = 2
    MaxLost = 1
    Attempts = {q1, q2, q3}
    MaxFailedLogins = 3
    MaxTries = 6
INVARIANTS CacheAgrees NoFailureLost
PROPERTIES DueSanctionEnds TransactionsEnd StaleSocketsEnd TabsSettle
CHECK_DEADLOCK FALSE
