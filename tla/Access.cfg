SPECIFICATION Spec
CONSTANTS
    i1 = i1
    i2 = i2
    g1 = g1
    g2 = g2
    None = None
    All = "all"
    Entities = {"user", "post"}
    Instances = {i1, i2}
    GroupNames = {g1, g2}
    Configs <- SmallConfigs
    MaxConnects = 2
    Clients = {c1, c2}
    MaxFailures = 1
    Statements = 2
INVARIANTS
    TypeOK
    OneGroupPerEntity
    NamedEntitiesStayHome
    DisconnectClosesAll
    TableIsWhereWritesGo
    OneCreatorPerTable
PROPERTIES
    NotFoundIsHealthy
    BreakerRecovers
CHECK_DEADLOCK FALSE
