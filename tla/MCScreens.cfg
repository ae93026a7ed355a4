SPECIFICATION ViewSpec
CONSTANTS
    Standings = {"not_started", "complete"}
    MaxWrites = 2
    MaxSignIns = 1
    Calls = {c1, c2}
    MaxRestarts = 1
    MaxReloads = 1
SYMMETRY Interchangeable
INVARIANTS OwnWriteShown MessagesOnce
CHECK_DEADLOCK FALSE
