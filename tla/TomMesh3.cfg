SPECIFICATION Spec
CONSTANTS
    N = 3
    Edges <- FullMesh
    NumMsgs = 5
    MaxDrain = 3
    RepairBudget = 4
    LastLossyRound = 10
    MaxRounds = 10
INVARIANTS
    TypeOK
    StoresAreSound
    ReportSound
PROPERTIES
    ImplementsTotalOrder
    PendingUntilAnswered
