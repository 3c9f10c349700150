SPECIFICATION MCMenusSpec
CONSTANTS
    Bit <- mcOneBit
    DirectionButtonMask <- mcNone
    LrButtonMask <- mcNone
    TriggerButtonMask <- mcNone
    RelayType <- mcRelayTypes
    Layer = {l1}
    NoLayer = NoLayer
    Handle <- mcHandles
    Object <- mcObjects
    ObjectOf <- mcObjectOf
    MaxRegistrations = 1
    MaxNesting = 1
    PadWords <- mcNeutral
    EnabledMasks <- mcEnabled
    Kind <- mcMenuTravel
    Name <- mcNames
    EmptyName = EmptyName
    RecordingFiles <- mcMenusFile
    MaxRecordings = 2
    MaxActions = 2
    RegisterPairs <- mcPairs
    Features <- mcRouteFeatures
PROPERTIES ImplementsReplay RepeatedInputIsReleased ReplayAdvances
CHECK_DEADLOCK FALSE
