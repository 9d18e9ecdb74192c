SPECIFICATION Spec
CONSTANTS
    h1 = h1
    h2 = h2
    h3 = h3
    u1 = u1
    Hosts <- TwoHosts
    Users = {u1}
    UserOf <- OneUser
    Leavers = {}
    Primary = primary
    N = 2
    NPeers = 2
    Overlap = TRUE
    Faults = {}
    MaxNotify = 0
    MaxAccepts = 2
    MaxInFlight = 1
INVARIANT ReplicatedBeforeAccept
