CONSTANTS
    InitialDirs <- MCNoDirs
    MaxOther = 0
    MaxLinkChanges = 1
SPECIFICATION Spec
PROPERTY LinksEventuallyWatched
CHECK_DEADLOCK FALSE
