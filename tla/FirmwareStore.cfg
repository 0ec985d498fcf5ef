SPECIFICATION Spec
CHECK_DEADLOCK FALSE
CONSTANTS
    p1 = p1
    p2 = p2
    i1 = i1
    i2 = i2
    i3 = i3
    NoFile = NoFile
    Procs <- MCProcs
    Inodes <- MCInodes
    MaxRuns = 3
INVARIANTS
    TypeOK
    SuccessIsUsable
    NoPartLeftBehind
PROPERTIES
    VerifiedArtifactSurvives
    CommandsEnd
