SPECIFICATION FairSpec
CONSTANTS
    a = a
    b = b
    c = c
    d = d
    Tasks = {a, b, c, d}
    DependsOn <- Join
    Existing = {a, b, c, d}
    Planned = {a, b, c, d}
    Automated = {d}
    Requests = {r1, r2}
    Workload = {"pause", "complete"}
    AutoFlush = TRUE
    PlanActive = TRUE
    MaxServed = 4
    MaxTime = 1
    MaxCrashes = 0
INVARIANTS
    NoStaleBlock
PROPERTIES
    ReadyAutomationRuns
CHECK_DEADLOCK FALSE
