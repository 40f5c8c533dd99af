SPECIFICATION Spec
CONSTANTS
    NumNodes = 2
    Scale = 6
    CiArms <- CiArm
    CeArms <- CeArm
    Seeds <- TwoSeeds
    Simulate <- Traces
    LastRevision = 1
    MaxStarts = 4
    MaxFaults = 2
    AgreedBase <- Agreed
    RETIRED = {"358"}
    Text <- Lines
    Topologies <- LineTopologies
    LedgerSeeds <- OneLedger
    SpreadArm = "tom_ce"
    ResidualArm = "tom_ce"
    CAP = 2
    Drafts <- Manuscripts
    EntryLists <- Lists
    EntryCount = 2
    DataSets <- Data
    SampleRuns <- SmallRuns
INVARIANTS
    ReconciledIsComplete
    EnergyIsConserved
    AppliedIsIntended
PROPERTIES
    ReportMeansReproduced
CHECK_DEADLOCK FALSE
