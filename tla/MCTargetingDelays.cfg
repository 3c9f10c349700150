SPECIFICATION MCRunSpec
CONSTANTS
    Map <- mcOneMap
    Place <- mcShortLine
    Button <- mcButtons
    Routes <- mcShopDelay
    NewSteps <- mcNoSteps
    FieldFrames <- mcFields
    MaxTargets = 4
    MaxActions = 3
    MaxFrames = 1
    WarpDelay = 1
    MaxStride = 2
    Features <- mcNone
PROPERTY DelaysObeyControlLock
CHECK_DEADLOCK FALSE
