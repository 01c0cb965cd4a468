CONSTANTS
    Protocol = "udp"
    Family = "inet"
    NRec <- MCNRec
    MaxFd <- MCMaxFd
    MaxRestart <- MCMaxRestart
SPECIFICATION FairSpec
INVARIANT TypeOK
INVARIANT CursorBehindWritten
INVARIANT NoFdLeak
INVARIANT CloseOnlyOwned
INVARIANT ReadyHasTransport
PROPERTY TrackerSpec
PROPERTY AllDelivered
