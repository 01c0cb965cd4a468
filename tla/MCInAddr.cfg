CONSTANTS
    W = 16
    NB = 2
    Addr4 <- MCAddr4
    Bytes <- MCBytes
    Lens4 <- MCLens4
    Lens6 <- MCLens6
    MaxSteps = 3
SPECIFICATION Spec
INVARIANTS TypeOK NextSubnet IntersectSound MaskNoAbort
