SPECIFICATION Spec
CONSTANTS
    N = 2
    Strategies = {x1}
    NoStrategy = none
    Tasks = {t1, t2}
    Outcomes = {"did_not_work"}
    Sessions = {s1}
    Overlap = FALSE
    Refusable = {"list", "resolve", "set_phase", "follow", "set_strategy", "release", "delete"}
    MaxElapsed = 1
SYMMETRY Symmetry
INVARIANTS
    TypeOK
    ChainHolds
    VerdictFitsStatus
    LayerAgrees
PROPERTIES
    WorkFollows
