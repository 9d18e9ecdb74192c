SPECIFICATION FairSpec
CONSTANTS
    n1 = n1
    n2 = n2
    n3 = n3
    acc = acc
    rej = rej
    inf = inf
    Packets = {n1, n2, acc, rej, inf}
    TypeOf <- PacketType
    SeqnOf <- PacketSeqn
    FrontEnds = {"console", "gui"}
    Inputs = {"post", "help", "me", "exit"}
    MaxInputs = 1
INVARIANT TypeOK
INVARIANT HandedOnce
INVARIANT OutOfOrderOnlyIfLate
INVARIANT ShownUnlessRaced
INVARIANT SentInOrder
PROPERTY EventuallyHanded
