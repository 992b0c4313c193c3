SPECIFICATION Spec
CONSTANTS
    n1 = n1
    n2 = n2
    c1 = c1
    c2 = c2
    u1 = u1
    u2 = u2
    None = None
    Nodes = {n1}
    Clients = {c1}
    NodeOf <- OnePerNode
    MaxId = 2
    Uids = {u1}
    Ages = {1, 2}
    Matching = {2}
    Seed <- SeedOne
    MaxCacheItems = 3
    BatchSize = 1
    MaxCommits = 2
    Ops = {"GetByUid", "Create", "Delete"}
    Faults = {}
INVARIANTS
    RegisteredUidIsFound
ACTION_CONSTRAINT OneCallAtATime
CHECK_DEADLOCK FALSE
