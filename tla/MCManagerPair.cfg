SPECIFICATION Spec
CONSTANTS
    port1 = port1
    port2 = port2
    panelA = panelA
    panelB = panelB
    Paths = {port1, port2}
    Exclusive <- Apart
    Identity <- OwnIdentity
    MaxWorkers = 3
    MaxFaults = 2
    MaxInputs = 0
INVARIANTS
    RoutesFollowWorkers
CHECK_DEADLOCK FALSE
