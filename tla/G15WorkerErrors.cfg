\* Two detached commands.
CONSTANTS
    NPages = 9
    Pressable <- MCCommandKeys
    MaxEmits = 1
SPECIFICATION Spec
INVARIANT ErrorOfCommand
CHECK_DEADLOCK FALSE
