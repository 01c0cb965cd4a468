CONSTANTS
    InitialDirs <- MCNoDirs
    MaxOther = 1
    MaxLinkChanges = 1
SPECIFICATION Spec
INVARIANT NeverDeaf
CHECK_DEADLOCK FALSE
