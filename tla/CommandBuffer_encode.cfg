SPECIFICATION FairSpec
CONSTANTS
    Name = {"set_name"}
    Number <- Numbers
    Other = {"STRING"}
    Half <- Halves
    WriterLimit = 3
    BufferLimit = 2
    Args <- ArgLists
    MaxPerIter = 1
    MaxCommands = 2
INVARIANTS
    RunAsWritten
    BufferExact
PROPERTIES
    BufferConsumed
CHECK_DEADLOCK TRUE
