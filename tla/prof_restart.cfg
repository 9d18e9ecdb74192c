SPECIFICATION Spec
CONSTANTS
    ana = ana
    bia = bia
    caio = caio
    c1 = c1
    c2 = c2
    c3 = c3
    c4 = c4
    c5 = c5
    f1 = f1
    f2 = f2
    f3 = f3
    Strings = {ana, bia, caio, Empty}
    Empty = Empty
    Connects = {c1, c2, c3, c4, c5}
    NameOf <- Twice
    Follows = {f1, f2, f3}
    Who <- BothWays
    Whom <- BothWaysWhom
    Overlap = FALSE
    CrashIn = {"rest", "sync"}
    MaxCrashes = 2
    MaxGarbage = 1
INVARIANT TypeOK
INVARIANT ForgottenOnlyIfTorn
INVARIANT ReloadDefined
INVARIANT FileMatches
INVARIANT HandlesUnique
INVARIANT FollowersUnique
INVARIANT FollowersFound
