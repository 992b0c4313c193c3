SPECIFICATION Spec
CONSTANTS
    n1 = n1
    n2 = n2
    h1 = h1
    h2 = h2
    Nodes = {n1, n2}
    Entities = {"user"}
    Handlers = {h1, h2}
    Calls = {c1}
    ConnectTries = 2
    PublishTries = 2
    MaxClients = 4
    None = None
INVARIANTS
    TypeOK
    ClosedProviderIsDeaf
PROPERTIES
    CloseEndsListeners
    PublicationsEnd
    RegisteredListens
    ImplementsBroadcast
ACTION_CONSTRAINT Bounded
CHECK_DEADLOCK FALSE
