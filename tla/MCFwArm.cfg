SPECIFICATION Spec
CONSTANTS
    NoDimm = NoDimm
    Dimms = {d1, d2}
    Chunks = 2
    Limit = 1
    Ops = {"update", "activate"}
    Forces = {FALSE}
    Toggles = {"arm", "disarm", "none"}
    MaxQueries = 1
    MaxOthers = 1
    MaxFails = 1
INVARIANTS OverflowIsTransient IdleRestored
SYMMETRY Interchangeable
