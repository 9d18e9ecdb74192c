SPECIFICATION Spec
CONSTANTS
    ana = ana
    bia = bia
    caio = caio
    a1 = a1
    b1 = b1
    b2 = b2
    b3 = b3
    c1 = c1
    Users = {ana, bia, caio}
    Hosts = {a1, b1}
    Requests <- LeaveRequests
    Kind <- KindOf
    From <- HostOf
    Arg <- NameIn
    Existing <- BothFollow
    FreshPtr = {"null"}
INVARIANT NoLoss
