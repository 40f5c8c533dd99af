SPECIFICATION Spec
CONSTANTS
    N = 3
    Edges <- Mesh3
    LastLossyRound = 100
    MaxRounds = 100
    NumProposals = 3
    DrainRounds = 2
    IdleLimit = 4
INVARIANTS
    MajorityHoldsCommitted
