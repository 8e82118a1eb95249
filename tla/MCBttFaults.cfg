CONSTANTS
    ExtNlba = 2
    NFree = 2
    Vals = {v1}
    MaxWrites = 1
    MaxFaults = 1
    ScribbleMaps <- Maps
    ScribbleEnts <- Ents
SPECIFICATION Spec
INVARIANTS
    TypeOK
    TrustedPartition
    RepairedNeedsNoRepair
PROPERTIES
    CheckOnlyReads
