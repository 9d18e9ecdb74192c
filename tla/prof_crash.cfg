SPECIFICATION Spec
CONSTANTS
    ana = ana
    bia = bia
    caio = caio
    c1 = c1
    c2 = c2
    c3 = c3
    c4 = c4
    c5 = c5
    f1 = f1
    f2 = f2
    f3 = f3
    Strings = {ana, bia, caio, Empty}
    Empty = Empty
    Connects = {c1, c2}
    NameOf <- Twice
    Follows = {}
    Who <- BothWays
    Whom <- BothWaysWhom
    Overlap = FALSE
    CrashIn = {"sync"}
    MaxCrashes = 1
    MaxGarbage = 1
INVARIANT NothingForgotten
