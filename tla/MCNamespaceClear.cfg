SPECIFICATION Spec
CONSTANTS
    Labelled = TRUE
    Ops <- ClearOps
    Modes <- RawMode
    MountAnytime = FALSE
    MaxFails = 1
INVARIANT ClearedMeansClear
