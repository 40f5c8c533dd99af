SPECIFICATION Spec
CONSTANTS
    N = 4
    Edges <- Mesh4
    LastLossyRound = 100
    MaxRounds = 100
    NumProposals = 3
    DrainRounds = 1
    IdleLimit = 2
INVARIANTS
    TypeOK
    DataIntegrity
    OneHome
    ReportSound
    QuorumsHaveEvidence
PROPERTIES
    NothingForgotten
