SPECIFICATION Spec
SYMMETRY Symmetry
CONSTANTS
    Workers = {w1, w2}
    Drafts = {p1}
    None = None
    Empty = Empty
    MaxSessions = 2
INVARIANTS
    TypeOK
    OnePlanPerSession
    SingleActive
    Lineage
PROPERTIES
    SessionForward
    ActiveStays
