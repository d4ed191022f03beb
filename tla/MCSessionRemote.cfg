SPECIFICATION Spec
CONSTANTS
    core1 = core1
    core2 = core2
    CoreTasks = {core1, core2}
    MaxBackoff = 10
SYMMETRY Alike
INVARIANT RemoteFailureIsNamed
CHECK_DEADLOCK FALSE
