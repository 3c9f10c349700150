SPECIFICATION FieldSpec
CONSTANTS
    Routes <- mcTwoRoutes
    NoTargets = "empty"
    MaxRoutes = 2
    Absent = Absent
    Unreadable = Unreadable
    Never = Never
    Faults = {"Crash", "Unlisted"}
    MaxPlace = 1
    Strides <- mcStrides
    NoPlayer = NoPlayer
    Maps = {"m1", "m2"}
    Anywhere = Anywhere
    Origin = Origin
    NoParty = NoParty
    Missing = Missing
    MaxWarps = 1
    ReactionKind <- mcReactionKind
    Power = {1, 2}
    Buttons <- mcCombo
    Combo <- mcCombo
    Groups = {g1}
    MAX_LINES = 2
    LINE_LIFETIME = 1
    TOAST_LIFETIME = 1
    MaxLog = 1
    Symbols = {16, 17}
    Trampolines = 40
    MaxBackups = 1
    Replacements = {24, 200}
    Targets = {32, 400}
    Reach <- mcReach
    Wrap <- mcWrap
    PageWords = 16
    MaxRelative = 2
    inline_hook_count = 1
    Handlers = 2
    Top = 13
    Heap <- mcHeap
    Alias <- mcAlias
    Aslr <- mcAslr
    Layouts <- mcLayouts
    Text = 10
    PoolPages = 1
    Sizes = {1, 2}
    Paths = {"a", "b", "c"}
    Digests = {"x", "y"}
    MaxFiles = 3
    NoNrr = NoNrr
    Scalars = {"dumpFileReads", "enableFileOverrides"}
    Lists = {"bdatSkipOverrides"}
    Default <- mcDefault
    NoNode = NoNode
    WrongType = WrongType
    NoTable = NoTable
    Sheets = {"FLD_ms", "CHR"}
    Members = {"name", "rate", "level", "other"}
    Kind <- mcKind
    Fits <- mcFits
    IdTop <- mcTop
    IdCount <- mcCount
    MessageSheets = {"FLD_ms"}
    NameMember = "name"
    Begins <- mcBegins
    NoFallback = NoFallback
    OverrideFiles <- mcOverrideFiles
    ConfigFiles <- mcConfigFiles
    Draws = {0, 4}
    Reads = {"r"}
    NoDump = NoDump
    Blank = Blank
INVARIANTS SavedIsOnCard OrbitFollowsPlayer NothingCrossesScenes MovedAsRead EachContentRunsOnce 
PROPERTIES MigrationKeepsOriginal ToggleNeedsRelease
CHECK_DEADLOCK FALSE
