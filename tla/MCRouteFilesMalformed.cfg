SPECIFICATION MCSpec
CONSTANTS
    Routes <- mcRoutes
    NoTargets = "empty"
    MaxRoutes = 2
    Absent = Absent
    Unreadable = Unreadable
    Never = Never
    Faults = {"Crash"}
PROPERTY MalformedFileKept
CHECK_DEADLOCK FALSE
