SPECIFICATION FairSpec
CONSTANTS
    Orders = {o1}
    Intents = {i1}
    RefundKeys = {k1, k2}
    Types = {"payment", "manual"}
    Threads = {r1, r2}
    None = none
    Declinable = {}
    EventsFail = FALSE
    StripeFails = FALSE
    Retyped = {o1}
    MaxDeliveries = 2
    MaxChanges = 1
    MaxEvents = 3
    MaxCrashes = 0
PROPERTIES
    PaymentsArrive
    RefundsRecorded
CHECK_DEADLOCK FALSE
