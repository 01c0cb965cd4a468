CONSTANTS
    Protocol = "dtls"
    Family = "inet6"
    NRec <- MCNRec
    MaxFd <- MCMaxFd
    MaxRestart <- MCMaxRestart
SPECIFICATION FairSpec
PROPERTY AllDelivered
