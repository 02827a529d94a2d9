\* One key, one loss of the keyboard.
CONSTANTS
    k1 = k1
    k2 = k2
    Keys <- MCKeys
    MaxPlugs = 0
SPECIFICATION Spec
INVARIANT UnplugSurvived
CHECK_DEADLOCK FALSE
