SPECIFICATION FairSpec
CONSTANTS
    MaxCommands = 2
    MaxSessions = 3
INVARIANTS
    SimulationGuarded
    DeliveredInOrder
PROPERTIES
    JoinReturns
    MessagesArrive
CHECK_DEADLOCK TRUE
