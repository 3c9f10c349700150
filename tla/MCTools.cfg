SPECIFICATION MCSpec
CONSTANTS
    RareIds <- mcRareIds
    Styles <- mcStyles
    MaxPulls = 2
    MaxPresets = 2
    Absent = Absent
    Unreadable = Unreadable
    NoBlade = NoBlade
    CardFaults = {"Crash"}
    Character = {x, y}
    NoCharacter = NoCharacter
    ArtSlot = {0}
    MaxTracks = 1
    AiHistoryCapacity = 1
    MaxFrame = 2
    MaxCalls = 2
    Tutorials = {t1, t2}
    Events = {e1, e2}
    Landmarks = {}
    Points = {p}
    MaxEntries <- mcMaxEntries
    Handles = {h1, h2}
    NoHandle = NoHandle
    NoTrigger = NoTrigger
    FlagIds <- mcFlagIds
    NoFlag = NoFlag
    ArmFrames = 2
    TracedObjects = {o1, o2}
    NoObject = NoObject
    ControlsObject <- mcControls
    PointList <- mcShutList
    MaxEvents = 6
    HistoryCapacity = 1
    ForcedFullscreenInputFrame = 2
    MaxRunId = 3
    LayerState = {up, down}
    Unseen = Unseen
    TraceCapacity = 3
    SnapshotCapacity = 1
    MaxNesting = 2
    CounterModulus = 4
    Bgm = {event, menu}
    Level = {half, full}
    Full = full
    Silent = silent
    Sound = {s1}
    NoSound = NoSound
    ExistingSoundReadyFrames = 3
    SilentRecoveryFrames = 2
    AudioFaults = {"WriteFails", "PluginReload"}
    Section = {input_buffer, auto_tutorials}
    InputBuffer = input_buffer
    ToolWindow = {utility}
    Tab = {camera, render}
    FirstTab = camera
    NoFile = NoFile
    SettingsFaults = {"WriteFails"}
INVARIANTS SavedPresetIsCurrent
INVARIANTS ModelsAreOwned TutorialServesOneVisit SettingsAreKept
INVARIANTS DelayIsNotOverstated
INVARIANTS ForcedInputServesOpening
INVARIANTS NothingIsLost SilenceIsRecovered
PROPERTIES PullsAreServedInOrder SavedIsNotOurSilence
CHECK_DEADLOCK FALSE
