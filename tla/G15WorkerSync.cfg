\* No key needs to be pressed.
CONSTANTS
    NPages = 9
    Pressable = {}
    MaxEmits = 0
SPECIFICATION Spec
INVARIANT UpdatesSynced
CHECK_DEADLOCK FALSE
