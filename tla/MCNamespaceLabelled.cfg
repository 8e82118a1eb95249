SPECIFICATION Spec
CONSTANTS
    Labelled = TRUE
    Ops <- AllOps
    Modes <- AllModes
    MountAnytime = FALSE
    MaxFails = 2
INVARIANTS TypeOK CheckIsTransparent RefusedIsUntouched DestroyedIsGone SoundBetweenCommands DaxRecovers
PROPERTIES MountSurvives
