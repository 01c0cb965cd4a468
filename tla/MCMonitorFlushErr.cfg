CONSTANTS
    InitialDirs <- MCNoDirs
    MaxOther = 1
    MaxLinkChanges = 1
SPECIFICATION Spec
INVARIANT FlushSucceeds
CHECK_DEADLOCK FALSE
