SPECIFICATION FairSpec
CONSTANTS
    N = 3
    Edges <- Mesh3
    LastLossyRound = 2
    MaxRounds = 100
    NumProposals = 3
    DrainRounds = 4
    IdleLimit = 6
PROPERTIES
    EveryoneLearns
