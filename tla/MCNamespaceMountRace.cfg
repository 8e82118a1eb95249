SPECIFICATION Spec
CONSTANTS
    Labelled = TRUE
    Ops <- DestroyOps
    Modes <- RawMode
    MountAnytime = TRUE
    MaxFails = 0
PROPERTY MountSurvives
