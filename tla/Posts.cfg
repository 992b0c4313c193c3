SPECIFICATION Spec
CONSTANTS
    n1 = n1
    n2 = n2
    reader = reader
    writer = writer
    None = None
    Nodes = {n1}
    Clients = {reader, writer}
    NodeOf <- SameNode
    Ops <- OpsOf
    MaxId = 2
    Stories = {1, 2}
    Expirable = {1}
    Seed <- SeedOne
    PageSize = 1
    BatchSize = 1
    MaxDelete = 1
    MaxCacheItems = 2
    TicksPerSecond = 2
    MaxClock = 2
    MaxCommits = 2
    Faults = {"dbError", "lostAck", "loseMsg"}
INVARIANTS
    TypeOK
    CurrentListsAreFresh
    ListByIdReturnsAll
    RecentPostsReturnsAll
    ListByKeysReturnsAll
ACTION_CONSTRAINT Bounded
VIEW Visible
CHECK_DEADLOCK FALSE
