SPECIFICATION MCFairSpec
CONSTANTS
    l1 = l1
    l2 = l2
    m1 = m1
    m2 = m2
    Bit <- mcBit
    DirectionButtonMask <- mcNone
    LrButtonMask <- mcNone
    TriggerButtonMask <- mcNone
    RelayType <- mcRelayTypes
    Layer <- mcLayers
    NoLayer = NoLayer
    Handle <- mcHandles
    Object <- mcObjects
    ObjectOf <- mcObjectOf
    MaxRegistrations = 1
    MaxNesting = 1
    PadWords <- mcPadWords
    EnabledMasks <- mcA
    AButton = "A"
    TutorialMenu <- mcTwoMenus
    NoMenu = NoMenu
    FamilyOf <- mcFamilyOf
    OwnerOf <- mcOwnerOf
    SendersOf <- mcSendersOf
    SkipSenders <- mcSkipSenders
    MaxSnapshots = 2
    Features <- mcTutorials
INVARIANTS PendingIsOwned
PROPERTY AttemptEnds
CHECK_DEADLOCK FALSE
