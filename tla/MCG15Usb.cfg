\* Two keys, plugged in again once; the program may end.
CONSTANTS
    k1 = k1
    k2 = k2
    Keys <- MCKeys
    MaxPlugs = 1
SPECIFICATION FairSpec
INVARIANTS
    TypeOK
    ActiveIsFlying
    FreedWithDevice
PROPERTIES
    KeysReported
    DefinedWhilePresent
    Reattached
CHECK_DEADLOCK FALSE
