SPECIFICATION WSpec
CONSTANTS
    lamp1 = lamp1
    display = display
    elsewhere = elsewhere
    button1 = button1
    button2 = button2
    Controls <- MCControls
    Outputs <- DisplayOutputs
    NoControl = NoControl
    Capacity = 4
    Lamps = {lamp1}
    Screen = display
    Buttons = {}
    Fragile = {"screen"}
    MaxClaims = 1
    Timeout = 2
    Batch = 2
INVARIANTS
    NoticeMeansSilence
PROPERTIES
    SilenceIsShown
    OnlyFaultsEndTheWorker
CHECK_DEADLOCK FALSE
