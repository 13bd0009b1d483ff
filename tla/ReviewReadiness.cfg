CONSTANTS
    a1 = a1
    a2 = a2
    b1 = b1
    Fragments <- MCFragments
    PathOf <- MCPathOf
    MustReview <- MCMustReview
    Diffs <- MCDiffs
    MaxChunks = 2
    MaxHead = 2
    MaxClaims = 2
    MaxClaimed = 1
    PriorKeys <- MCPriorKeys
    MaxPrior = 1
    FailureStates <- MCFailureStates
SPECIFICATION Spec
INVARIANTS TypeOK
VIEW Sight
PROPERTIES NothingMasked NoDefects ReadyIsEarned ConfirmedBlocks
CHECK_DEADLOCK FALSE
