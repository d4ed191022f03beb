SPECIFICATION WSpec
CONSTANTS
    lamp1 = lamp1
    display = display
    elsewhere = elsewhere
    button1 = button1
    button2 = button2
    Controls <- MCControls
    Outputs <- ClaimOutputs
    NoControl = NoControl
    Capacity = 4
    Lamps = {lamp1}
    Screen = display
    Buttons = {}
    Fragile = {"lamps", "screen"}
    MaxClaims = 2
    Timeout = 1
    Batch = 2
INVARIANTS
    WTypeOK
    LostClaimIsCleared
    OneLateOutput
PROPERTIES
    StopLeavesDark
CHECK_DEADLOCK FALSE
