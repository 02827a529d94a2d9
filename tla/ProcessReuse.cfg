\* The same pids; every file of a living process can be read.
CONSTANTS
    Pids <- MCPids
    Permanent <- MCPermanent
    TopProc = 2
    MaxForks = 2
    MayFail = FALSE
SPECIFICATION Spec
INVARIANT LivingActive
