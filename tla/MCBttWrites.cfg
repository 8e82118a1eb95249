CONSTANTS
    ExtNlba = 2
    NFree = 2
    Vals = {v1}
    MaxWrites = 3
    MaxFaults = 0
    ScribbleMaps = {}
    ScribbleEnts = {}
SPECIFICATION FairSpec
INVARIANTS
    TrustedPartition
    RepairRestores
    PendingIsLogged
PROPERTIES
    CheckTerminates
