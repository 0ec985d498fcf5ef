SPECIFICATION Spec
CHECK_DEADLOCK FALSE
CONSTANTS
    l1 = l1
    l2 = l2
    f = f
    NoChild = NoChild
    Launches <- MCLaunches
    Foreign <- MCForeign
    PortOf <- OwnPorts
INVARIANT DeactivateReapsAll
