SPECIFICATION Spec
CONSTANTS
    h1 = h1
    h2 = h2
    h3 = h3
    u1 = u1
    Hosts <- TwoHosts
    Users = {u1}
    UserOf <- OneUser
    Leavers = {}
    Primary = primary
    N = 2
    NPeers = 2
    Overlap = TRUE
    Faults = {"duplicate"}
    MaxNotify = 0
    MaxAccepts = 1
    MaxInFlight = 1
SYMMETRY HostSymmetry
INVARIANT AcceptBacked
INVARIANT BackedInv
