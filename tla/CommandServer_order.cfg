SPECIFICATION FairSpec
CONSTANTS
    Writer = {w1, w2}
    Object = {o1}
    RServer = RServer
    MaxCommands = 2
    MaxPerIter = 1
INVARIANTS
    RunInOrder
    QueuesExact
PROPERTIES
    ObjectsRespected
    CommandsFinish
CHECK_DEADLOCK TRUE
