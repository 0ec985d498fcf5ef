SPECIFICATION Spec
CONSTANTS
    unix = unix
    rp2 = rp2
    good = good
    newer = newer
    dropped = dropped
    NoBytes = NoBytes
    NotJson = NotJson
    Garbled = Garbled
    NoRelease = NoRelease
    Ids <- MCIds
    Pins <- MCPins
    FirstPin = good
    Source <- MCSource
    MakePorts <- MCMakePorts
    Needs <- MCNeeds
    Strays <- MCStrays
    MaxMoves = 1
    MaxRuns = 2
    MaxAttempts = 3
INVARIANTS
    TypeOK
    ClaimsAreBuilt
    ReleaseIsWhole
    TagNamesItsSource
    CommittedStaysFetchable
    SessionIsHonest
    EveryBoardIsSelectable
    VerifyFindsStale
