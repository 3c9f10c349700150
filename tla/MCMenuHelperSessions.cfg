SPECIFICATION MCSpec
CONSTANTS
    Bit <- mcAmountBits
    DirectionButtonMask <- mcNone
    LrButtonMask <- mcL
    TriggerButtonMask <- mcNone
    RelayType <- mcRelayTypes
    Layer = {l1}
    NoLayer = NoLayer
    Handle <- mcHandles
    Object <- mcObjects
    ObjectOf <- mcObjectOf
    MaxRegistrations = 1
    MaxNesting = 1
    PadWords <- mcPadWords
    EnabledMasks <- mcAmountEnabled
    Kind <- mcShopMenu
    Name <- mcNames
    EmptyName = EmptyName
    RecordingFiles <- mcShopFile
    MaxRecordings = 2
    MaxActions = 1
    RegisterPairs <- mcPairs
    Features <- mcShopFeatures
INVARIANTS OverrideOnlyWhilePlaying SandboxIsRefusedAndBacked
PROPERTIES ArmedShopReplaySurvives LayeredActionsReachTheirLayer DraftIsKept AuxSequenceStaysOnLayers
CHECK_DEADLOCK FALSE
