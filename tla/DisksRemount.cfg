\* Two mounts, one after the other or one over the other.
CONSTANTS
    Devices <- MCDevices
    MountPoints <- MCMountPoints
    Escaped <- MCEscaped
    MayFail = FALSE
    MaxPlugs = 1
    MaxMounts = 2
    MaxTable = 1
SPECIFICATION Spec
INVARIANT MountsAssociated
CHECK_DEADLOCK FALSE
