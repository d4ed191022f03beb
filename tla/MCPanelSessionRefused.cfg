SPECIFICATION Spec
CONSTANTS
    Bodies <- MCBodies
    Touched = {"Up", "LeftOn", "LeftBack", "RightOn", "Spare"}
    MaxEvents = 3
    MaxSessions = 1
    MaxStale = 0
INVARIANT ImageIsWatched
CHECK_DEADLOCK FALSE
