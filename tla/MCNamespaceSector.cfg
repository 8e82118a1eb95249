SPECIFICATION Spec
CONSTANTS
    Labelled = TRUE
    Ops <- CreateOps
    Modes <- SectorMode
    MountAnytime = FALSE
    MaxFails = 1
INVARIANT CreateRecovers
