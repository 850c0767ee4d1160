SPECIFICATION Spec
CONSTANTS
    MaxHandoffs = 3
    Starters = {s1, s2}
    Deciders = {}
    EmailReplies = FALSE
    GitHubFails = FALSE
    EffectsFail = FALSE
    MaxCrashes = 1
    NoRunLimit = 0
    StallLimit = 0
    MaxAge = 0
SYMMETRY Symmetry
INVARIANTS
    TypeOK
    OverlapByRaceOnly
