SPECIFICATION FairSpec
CONSTANTS
    Booked = {b1}
    Extra = {}
    Mismatched = {}
    RefundIds = {r1}
    Slots = {h1}
    MaxErrors = 0
    MaxRestarts = 1
    Null = Null
PROPERTIES BookingRefundDecided
CHECK_DEADLOCK FALSE
