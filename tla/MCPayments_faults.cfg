SPECIFICATION Spec
CONSTANTS
    Orders = {o1}
    Intents = {i1, i2}
    RefundKeys = {k1}
    Types = {"payment", "subscription", "manual"}
    Threads = {r1, r2}
    None = none
    Declinable = {i1}
    EventsFail = TRUE
    StripeFails = TRUE
    Retyped = {}
    MaxDeliveries = 1
    MaxChanges = 3
    MaxEvents = 3
    MaxCrashes = 1
SYMMETRY Symmetry
INVARIANTS
    TypeOK
    OncePerKey
    MoneyIsStripes
PROPERTIES
    RefundFinal
CHECK_DEADLOCK FALSE
