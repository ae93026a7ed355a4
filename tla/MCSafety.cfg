SPECIFICATION SafetySpec
CONSTANTS
    Members = {a, b}
    Slots = {h1, h2}
    MsgIds = {c1}
    MaxInterests = 2
    MaxSafety = 2
    Reporters = {ann, bob, cem}
    Triggers = {money}
    Messages = {a, b}
    Requests = {h1, h2}
    Threshold = 2
    MaxReports = 3
SYMMETRY Interchangeable
INVARIANTS OneOpenThing HiddenSoon
PROPERTIES AcceptHonoursSeparation BlockStopsMessages EvidenceKept
CHECK_DEADLOCK FALSE
