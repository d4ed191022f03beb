SPECIFICATION FairSpec
CONSTANTS
    core1 = core1
    core2 = core2
    CoreTasks = {core1, core2}
    MaxBackoff = 10
INVARIANTS
    TypeOK
    NothingOutlives
    OnlySignalEnds
    FailureIsReported
PROPERTIES
    SignalIsTerminal
    SignalEnds
    BrokenSessionEnds
CHECK_DEADLOCK FALSE
