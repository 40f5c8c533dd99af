SPECIFICATION FairSpec
CONSTANTS
    NumNodes = 5
    MinNeighbors = 2
    MaxNeighbors = 3
    M = 2
INVARIANTS
    TypeOK
    BuiltGraphIsSound
PROPERTIES
    BuildersEnd
