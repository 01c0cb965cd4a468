CONSTANTS
    Protocol = "dtls"
    Family = "inet"
    NRec <- MCNRec
    MaxFd <- MCMaxFd
    MaxRestart <- MCMaxRestart
SPECIFICATION Spec
INVARIANT CursorBehindWritten
