SPECIFICATION FairSpec
CONSTANTS
    Values <- MCValues
    Backend = "epoll"
    SndBuf = 2
    RcvBuf = 3
    RecvMax = 2
    Eager = FALSE
    Failing = FALSE
    UpData <- MCUp
    DownData <- MCDown
PROPERTIES DownlinkDelivered
CHECK_DEADLOCK FALSE
