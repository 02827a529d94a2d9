\* Two processes on two pids: one after the other on one pid, or parent and child.
CONSTANTS
    Pids <- MCPids
    Permanent <- MCPermanent
    TopProc = 2
    MaxForks = 2
    MayFail = TRUE
SPECIFICATION FairSpec
INVARIANTS
    TypeOK
    LivingFound
    TopAreActive
    ParentLinked
PROPERTIES
    KeepsEntryLife
    DeadRemoved
CHECK_DEADLOCK FALSE
