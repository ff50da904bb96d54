SPECIFICATION FairSpec
CONSTANTS
    Component <- Components
    Listener <- Listeners
    ListensTo <- Asks
    u = u
    UUID = {u, g, h}
    Universe = u
    TypesOf <- Types
    Context = {c1, c2}
    MainContext = c1
    Task = {t1, t2}
    Null = Null
    MaxCreated = 3
    MaxUnloads = 2
INVARIANTS
    FactoryConsistent
    RefsExact
    WorldsLive
PROPERTIES
    ComponentsKept
    UnreferencedRemoved
CHECK_DEADLOCK TRUE
