SPECIFICATION Spec
CONSTANTS
    l1 = l1
    l2 = l2
    l3 = l3
    a = a
    b = b
    NoTarget = NoTarget
    NoProbe = NoProbe
    Launches <- MCLaunches
    Targets <- MCTargets
    MaxEdits = 1
INVARIANTS
    TypeOK
    ProbeKeepsItsName
    ShownProbeIsCurrent
    OneNoticePerName
