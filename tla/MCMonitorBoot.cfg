CONSTANTS
    InitialDirs <- MCNoDirs
    MaxOther = 2
    MaxLinkChanges = 2
SPECIFICATION Spec
INVARIANTS TypeOK NeverDeafUnlessStray FlushSucceedsUnlessStray
CHECK_DEADLOCK FALSE
