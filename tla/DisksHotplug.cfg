\* Every reading succeeds and nothing is mounted; a device that is not there at the start
\* is plugged in later.
CONSTANTS
    Devices <- MCDevices
    MountPoints <- MCMountPoints
    Escaped <- MCEscaped
    MayFail = FALSE
    MaxPlugs = 1
    MaxMounts = 0
    MaxTable = 0
SPECIFICATION Spec
INVARIANT RatesMeasured
CHECK_DEADLOCK FALSE
