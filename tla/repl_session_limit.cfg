SPECIFICATION Spec
CONSTANTS
    h1 = h1
    h2 = h2
    h3 = h3
    u1 = u1
    Hosts <- ThreeHosts
    Users = {u1}
    UserOf <- OneUser
    Leavers = {}
    Primary = primary
    N = 1
    NPeers = 1
    Overlap = FALSE
    Faults = {}
    MaxNotify = 0
    MaxAccepts = 2
    MaxInFlight = 1
INVARIANT AcceptedHasSession
