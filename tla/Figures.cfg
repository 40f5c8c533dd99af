SPECIFICATION Spec
CONSTANTS
    Protocols <- TwoProtocols
    Seeds <- TwoSeeds
    OnlyKeys <- Keys
    ByHand <- HandRun
    Barren = {1}
    MaxEdits = 1
    MaxCommands = 2
    MaxFaults = 1
INVARIANTS
    ForcedRegenIsCanonical
    ExitCodeIsHonest
    EnergyFromThisRun
PROPERTIES
    ProvenanceIsRight
    CompareIsExact
