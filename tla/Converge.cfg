SPECIFICATION FairSpec
CONSTANTS
    n1 = n1
    n2 = n2
    c1 = c1
    c2 = c2
    u1 = u1
    u2 = u2
    None = None
    Nodes = {n1, n2}
    Clients = {c1, c2}
    NodeOf <- OnePerNode
    MaxId = 1
    Uids = {u1}
    Ages = {2}
    Matching = {2}
    Seed <- SeedOneOld
    MaxCacheItems = 3
    BatchSize = 1
    MaxCommits = 1
    Ops = {"GetByID", "GetByUid", "List", "Delete"}
    Faults = {"lag", "loseMsg", "restart"}
PROPERTIES
    CachesConverge
ACTION_CONSTRAINT WriterAndReader
CHECK_DEADLOCK FALSE
