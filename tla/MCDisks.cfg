\* A device can be plugged in again once; two mounts are made.
CONSTANTS
    Devices <- MCDevices
    MountPoints <- MCMountPoints
    Escaped <- MCEscaped
    MayFail = TRUE
    MaxPlugs = 2
    MaxMounts = 2
    MaxTable = 2
SPECIFICATION FairSpec
INVARIANTS
    TypeOK
    GeometryOfMounted
    HeldFollowsTable
PROPERTIES
    MountedStays
CHECK_DEADLOCK FALSE
