SPECIFICATION MCFairSpec
CONSTANTS
    Map <- mcTwoMaps
    Place <- mcShortLine
    Button <- mcButtons
    Routes <- mcRoutes
    NewSteps <- mcNoSteps
    FieldFrames <- mcFields
    MaxTargets = 4
    MaxActions = 3
    MaxFrames = 1
    WarpDelay = 1
    MaxStride = 1
    Features <- mcOptions
PROPERTY RouteFinishes
CHECK_DEADLOCK FALSE
