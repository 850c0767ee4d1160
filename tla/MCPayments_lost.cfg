SPECIFICATION Spec
CONSTANTS
    Orders = {o1}
    Intents = {i1}
    RefundKeys = {k1}
    Types = {"payment"}
    Threads = {r1, r2}
    None = none
    Declinable = {}
    EventsFail = FALSE
    StripeFails = FALSE
    Retyped = {}
    MaxDeliveries = 1
    MaxChanges = 1
    MaxEvents = 3
    MaxCrashes = 1
SYMMETRY Symmetry
INVARIANTS
    AlreadyProcessed
CHECK_DEADLOCK FALSE
