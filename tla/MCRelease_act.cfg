SPECIFICATION Spec
CONSTANTS
    MaxHandoffs = 1
    Starters = {"s1"}
    Deciders = {}
    EmailReplies = TRUE
    GitHubFails = TRUE
    EffectsFail = TRUE
    MaxCrashes = 1
    NoRunLimit = 0
    StallLimit = 0
    MaxAge = 0
INVARIANTS
    MailOnce
    RecordsOnlyDone
    OneUsePerReply
    DecisionIsGitHubs
    OutcomeIsGitHubs
