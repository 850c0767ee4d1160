SPECIFICATION FairSpec
CONSTANTS
    MaxHandoffs = 1
    Starters = {"s1"}
    Deciders = {"d1"}
    EmailReplies = FALSE
    GitHubFails = FALSE
    EffectsFail = FALSE
    MaxCrashes = 0
    NoRunLimit = 0
    StallLimit = 0
    MaxAge = 1
INVARIANTS
    RecordIsFact
PROPERTIES
    InOrder
    KeepsPromise
    Settles
