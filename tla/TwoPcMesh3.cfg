SPECIFICATION Spec
CONSTANTS
    N = 3
    Edges <- FullMesh
    NumTxs = 2
    MayAbort = TRUE
    IdleLimit = 4
    LastLossyRound = 9
    MaxRounds = 9
INVARIANTS
    TypeOK
    OneWindow
    VotesAreSound
    ReportSound
PROPERTIES
    DecisionsAreFinal
