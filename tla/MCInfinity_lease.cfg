SPECIFICATION Spec
CONSTANTS
    Runs = {r1, r2}
    Triggers = {t1}
    Decisions = {work, create}
    NeedTask = {work}
    CreateNewTask = create
    None = none
    TTL = 2
    MaxFlips = 1
    MaxCrashes = 0
SYMMETRY Symmetry
INVARIANTS
    TypeOK
    LeaseExcludes
    NoLostScore
    NoThrash
CHECK_DEADLOCK FALSE
