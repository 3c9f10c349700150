SPECIFICATION MCSpec
CONSTANTS
    Bit <- mcBit
    DirectionButtonMask <- mcDirections
    LrButtonMask <- mcNone
    TriggerButtonMask <- mcNone
    RelayType <- mcRelayTypes
    Layer = {l1, l2}
    NoLayer = NoLayer
    Handle <- mcHandles
    Object <- mcObjects
    ObjectOf <- mcObjectOf
    MaxRegistrations = 2
    MaxNesting = 2
    PadWords <- mcPadWords
    EnabledMasks <- mcEnabled
    PlaybackActions <- mcReplay
    ScriptedMasks <- mcA
    AutoUiMasks <- mcA
    Clients <- mcOffers
INVARIANTS RegistrationsFollowManager
PROPERTY AcceptedWasInjected
CHECK_DEADLOCK FALSE
