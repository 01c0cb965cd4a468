CONSTANTS
    W = 16
    NB = 2
    Addr4 <- MCAddr4
    Bytes <- MCBytes
    Lens4 <- MCLens4Long
    Lens6 <- MCLens6
    MaxSteps = 3
SPECIFICATION Spec
INVARIANT IntersectSound
