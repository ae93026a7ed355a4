SPECIFICATION FairSpec
CONSTANTS
    Booked = {b1}
    Extra = {}
    Mismatched = {}
    RefundIds = {r1, r2}
    Slots = {h1, h2}
    MaxErrors = 1
    MaxRestarts = 0
    Null = Null
PROPERTIES RefundDecided
CHECK_DEADLOCK FALSE
