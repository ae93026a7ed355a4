SPECIFICATION Spec
CONSTANTS
    Booked = {b1}
    Extra = {x1}
    Mismatched = {m1}
    RefundIds = {r1, r2}
    Slots = {h1, h2}
    MaxErrors = 1
    MaxRestarts = 1
    Null = Null
CONSTRAINT OneBeside
SYMMETRY Interchangeable
INVARIANTS ProcessedIsReal NoPassAndRefund RestAgrees
CHECK_DEADLOCK FALSE
