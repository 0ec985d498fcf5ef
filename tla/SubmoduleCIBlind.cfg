SPECIFICATION Spec
CONSTANTS
    lib = lib
    mpy = mpy
    b1 = b1
    b2 = b2
    Unparseable = Unparseable
    NoFilter = NoFilter
    NoAnswer = NoAnswer
    Subs <- MCSubs
    Branches <- MCBranches
    SubOf <- MCSubOf
    History <- Mended
    Overlays <- MCOverlays
    Files <- MCFiles
INVARIANT NoJobIsHidden
