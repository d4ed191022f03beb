SPECIFICATION Spec
CONSTANTS
    Bodies <- MCBodies
    Touched = {"Up", "LeftOn", "LeftBack", "RightOn", "Spare"}
    MaxEvents = 3
    MaxSessions = 3
    MaxStale = 2
INVARIANTS
    ControllerInStep
    DescriptorIsKept
    LampsAsOrdered
    FrameIsShown
CHECK_DEADLOCK FALSE
