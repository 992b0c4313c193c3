SPECIFICATION Spec
CONSTANTS
    n1 = n1
    n2 = n2
    c1 = c1
    c2 = c2
    u1 = u1
    u2 = u2
    None = None
    Nodes = {n1}
    Clients = {c1, c2}
    NodeOf <- SameNode
    MaxId = 1
    Uids = {u1, u2}
    Ages = {1}
    Matching = {}
    Seed <- SeedOne
    MaxCacheItems = 3
    BatchSize = 1
    MaxCommits = 2
    Ops = {"GetByID", "Update", "HardDelete"}
    Faults = {"lag"}
INVARIANTS
    CacheHoldsCommittedRows
PROPERTIES
    ImplementsStore
SYMMETRY ClientSymmetry
CHECK_DEADLOCK FALSE
