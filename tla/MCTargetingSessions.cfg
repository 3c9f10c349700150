SPECIFICATION MCSessionSpec
CONSTANTS
    Map <- mcTwoMaps
    Place <- mcBareLine
    Button <- mcButtons
    Routes <- mcRoutes
    NewSteps <- mcNewSteps
    FieldFrames <- mcFields
    MaxTargets = 4
    MaxActions = 3
    MaxFrames = 1
    WarpDelay = 1
    MaxStride = 2
    Features <- mcEdits
INVARIANTS PerformedInOrder StickOnlyWhileWalking PressesArePaired
PROPERTIES DelayIsServed TimerCoversRoute SplitsJoinNeighbours NoTurningBack BlocksStayTogether
CHECK_DEADLOCK FALSE
