SPECIFICATION Spec
CONSTANTS
    lamp1 = lamp1
    lamp2 = lamp2
    screen = screen
    Controls <- MCControls
    Outputs <- MCOutputs
    NoControl = NoControl
    Capacity = 2
    Handles = {h1, h2}
    FirstHandle = h1
    MaxSends = 5
INVARIANTS
    OnlyOutputsEvicted
    NothingStaleWaits
    NothingLost
PROPERTIES
    InOrder
    StopArrives
    ImplementsMailbox
CHECK_DEADLOCK FALSE
