SPECIFICATION FairSpec
CONSTANTS
    N = 3
    Edges <- FullMesh
    NumTxs = 2
    MayAbort = TRUE
    IdleLimit = 20
    LastLossyRound = 2
    MaxRounds = 30
PROPERTIES
    DecisionsReachEveryone
