SPECIFICATION FairSpec
CONSTANTS
    N = 3
    Edges <- FullMesh
    NumMsgs = 4
    MaxDrain = 14
    RepairBudget = 40
    LastLossyRound = 4
    MaxRounds = 50
PROPERTIES
    EveryoneDelivers
