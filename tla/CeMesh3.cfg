SPECIFICATION Spec
CONSTANTS
    N = 3
    Edges <- FullMesh
    NumProposals = 3
    MaxSlots = 7
    MaxRoundSlots = 6
    ListenTimeout = 3
    SnapshotInterval = 2
    MayAbort = TRUE
INVARIANTS
    TypeOK
    EvidenceIsSound
    SlotsChargedOnce
PROPERTIES
    ImplementsAtomicCommit
