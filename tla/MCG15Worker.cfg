\* The page turned by L1 and selected by M1, a detached command; nothing runs after the end.
CONSTANTS
    NPages = 4
    Pressable <- MCPageKeys
    MaxEmits = 1
SPECIFICATION FairSpec
INVARIANTS
    TypeOK
    SelectedPageWritten
PROPERTIES
    SelectionShown
    ShutdownEnds
    RefreshServed
CHECK_DEADLOCK FALSE
