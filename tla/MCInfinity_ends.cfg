SPECIFICATION FairSpec
CONSTANTS
    Runs = {r1, r2}
    Triggers = {t1}
    Decisions = {create}
    NeedTask = {}
    CreateNewTask = create
    None = none
    TTL = 1
    MaxFlips = 0
    MaxCrashes = 1
PROPERTIES
    LoopSettles
CHECK_DEADLOCK FALSE
