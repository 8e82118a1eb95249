SPECIFICATION Spec
CONSTANTS
    NoDimm = NoDimm
    Dimms = {d1, d2}
    Chunks = 2
    Limit = 1
    Ops = {"update"}
    Forces = {FALSE, TRUE}
    Toggles = {"none"}
    MaxQueries = 1
    MaxOthers = 3
    MaxFails = 1
INVARIANTS SendStartsAtBeginning
SYMMETRY Interchangeable
