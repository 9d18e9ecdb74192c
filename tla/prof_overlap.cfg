SPECIFICATION Spec
CONSTANTS
    ana = ana
    bia = bia
    caio = caio
    c1 = c1
    c2 = c2
    c3 = c3
    c4 = c4
    c5 = c5
    f1 = f1
    f2 = f2
    f3 = f3
    Strings = {ana, bia, caio, Empty}
    Empty = Empty
    Connects = {c1, c2, c3}
    NameOf <- Twice
    Follows = {f1}
    Who <- BothWays
    Whom <- BothWaysWhom
    Overlap = TRUE
    CrashIn = {}
    MaxCrashes = 0
    MaxGarbage = 0
INVARIANT FileMatches
