CONSTANTS
    ExtNlba = 2
    NFree = 2
    Vals = {v1, v2}
    MaxWrites = 2
    MaxFaults = 0
    ScribbleMaps = {}
    ScribbleEnts = {}
SPECIFICATION Spec
PROPERTIES
    ImplementsSectorStore
