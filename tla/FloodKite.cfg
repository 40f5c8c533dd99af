SPECIFICATION DriverSpec
CONSTANTS
    N = 5
    Edges <- Kite5
    FloodRepeats = 2
    RoundSlots <- DefaultLength
    SnapshotInterval = 1
    MaxSlots = 14
    MaxRounds = 2
    NumFloods = 3
    LastLossyRound = 1
INVARIANTS
    TypeOK
    WaveIsRight
    SnapshotsMatchTicks
PROPERTIES
    ImplementsLossyFlood
    CoverageIsOfThisFlood
