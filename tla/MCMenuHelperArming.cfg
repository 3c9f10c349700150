SPECIFICATION Spec
CONSTANTS
    Bit <- mcOneBit
    DirectionButtonMask <- mcNone
    LrButtonMask <- mcNone
    TriggerButtonMask <- mcNone
    RelayType <- mcRelayTypes
    Layer = {l1}
    NoLayer = NoLayer
    Handle <- mcHandles
    Object <- mcObjects
    ObjectOf <- mcObjectOf
    MaxRegistrations = 1
    MaxNesting = 1
    PadWords <- mcPadWords
    EnabledMasks <- mcEnabled
    Kind <- mcShop
    Name <- mcNames
    EmptyName = EmptyName
    RecordingFiles <- mcShopFile
    MaxRecordings = 2
    MaxActions = 1
    RegisterPairs <- mcPairs
    Features <- mcAuxTargeting
PROPERTY ArmingInOpenShopBegins
CHECK_DEADLOCK FALSE
