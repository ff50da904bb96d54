SPECIFICATION FairSpec
CONSTANTS
    Component <- Components
    Listener <- Listeners
    ListensTo <- Asks
    u = u
    UUID = {u}
    Universe = u
    TypesOf <- Types
    Context = {c1}
    MainContext = c1
    Task = {t1}
    Null = Null
    MaxCreated = 2
    MaxUnloads = 0
INVARIANT EntitiesDestroyed
CHECK_DEADLOCK TRUE
