SPECIFICATION WSpec
CONSTANTS
    lamp1 = lamp1
    display = display
    elsewhere = elsewhere
    button1 = button1
    button2 = button2
    Controls <- MCControls
    Outputs <- StreamOutputs
    NoControl = NoControl
    Capacity = 4
    Lamps = {lamp1}
    Screen = display
    Buttons = {button1}
    Fragile = {"hid", "control"}
    MaxClaims = 1
    Timeout = 1
    Batch = 2
PROPERTIES
    StopEnds
    InputArrives
CHECK_DEADLOCK FALSE
