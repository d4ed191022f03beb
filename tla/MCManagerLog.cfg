SPECIFICATION Spec
CONSTANTS
    port1 = port1
    port2 = port2
    panelA = panelA
    panelB = panelB
    Paths = {port1, port2}
    Exclusive <- Same
    Identity <- OneIdentity
    MaxWorkers = 3
    MaxFaults = 1
    MaxInputs = 1
INVARIANTS
    NoFailureUnread
CHECK_DEADLOCK FALSE
