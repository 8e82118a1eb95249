SPECIFICATION Spec
CONSTANTS
    Labelled = FALSE
    Ops <- AllOps
    Modes <- AllModes
    MountAnytime = FALSE
    MaxFails = 1
INVARIANTS RefusedIsUntouched DestroyedIsGone
