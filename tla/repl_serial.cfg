SPECIFICATION FairSpec
CONSTANTS
    h1 = h1
    h2 = h2
    h3 = h3
    u1 = u1
    Hosts <- TwoHosts
    Users = {u1}
    UserOf <- OneUser
    Leavers = {h1}
    Primary = primary
    N = 2
    NPeers = 2
    Overlap = FALSE
    Faults = {"lose"}
    MaxNotify = 2
    MaxAccepts = 2
    MaxInFlight = 1
INVARIANT TypeOK
INVARIANT ReplicatedBeforeAccept
INVARIANT SerialInv
INVARIANT SeqnUnique
INVARIANT NotificationsOrdered
INVARIANT ReplicasAgree
INVARIANT AcceptsCounted
PROPERTY ImplementsPassive
PROPERTY EventuallyAccepted
