SPECIFICATION Spec
CONSTANTS
    n1 = n1
    n2 = n2
    c1 = c1
    c2 = c2
    u1 = u1
    u2 = u2
    None = None
    Nodes = {n1}
    Clients = {c1, c2}
    NodeOf <- SameNode
    MaxId = 2
    Uids = {u1, u2}
    Ages = {2}
    Matching = {2}
    Seed <- SeedNone
    MaxCacheItems = 3
    BatchSize = 1
    MaxCommits = 2
    Ops = {"GetByUids", "CreateBulk", "UpdateBulk", "HardDeleteOlder"}
    Faults = {"dbError", "lostAck"}
INVARIANTS
    IInv
PROPERTIES
    ImplementsStore
SYMMETRY ClientSymmetry
CHECK_DEADLOCK FALSE
