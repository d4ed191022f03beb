SPECIFICATION FairSpec
CONSTANTS
    port1 = port1
    port2 = port2
    panelA = panelA
    panelB = panelB
    Paths = {port1, port2}
    Exclusive <- Same
    Identity <- OneIdentity
    MaxWorkers = 4
    MaxFaults = 2
    MaxInputs = 1
INVARIANTS
    AllJoined
    OneThreadPerPath
    NoOrphan
    RoutesFollowWorkers
    DeadRouteIsKnown
PROPERTIES
    ImplementsRegistry
    ShutdownEnds
    EventuallyServed
CHECK_DEADLOCK FALSE
