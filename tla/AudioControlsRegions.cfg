SPECIFICATION AudioSpec
CONSTANTS
    Bgm = {event, menu}
    Level = {half, full}
    Full = full
    Silent = silent
    Sound = {s1}
    NoSound = NoSound
    ExistingSoundReadyFrames = 3
    SilentRecoveryFrames = 2
    AudioFaults = {}
PROPERTY RegionReceivesUsersLevels
CHECK_DEADLOCK FALSE
