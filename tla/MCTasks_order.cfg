SPECIFICATION FairSpec
CONSTANTS
    a = a
    b = b
    c = c
    d = d
    Tasks = {a, b, c, d}
    DependsOn <- Fork
    Existing = {a, b, c}
    Planned = {a, b, c, d}
    Automated = {c, d}
    Requests = {r1, r2}
    Workload = {"create", "start", "pause", "complete", "delete", "deliver", "reject"}
    AutoFlush = FALSE
    PlanActive = FALSE
    MaxServed = 3
    MaxTime = 0
    MaxCrashes = 1
INVARIANTS
    TypeOK
    DependenciesFirst
    AutomationAfterDependencies
    UnitSettles
PROPERTIES
    ReadyAutomationRuns
CHECK_DEADLOCK FALSE
