SPECIFICATION FairSpec
CONSTANTS
    Values <- MCValues
    Backend = "kqueue"
    SndBuf = 2
    RcvBuf = 4
    RecvMax = 3
    HeadLen = 1
    Eager = {}
    Failing = FALSE
    UpData <- MCUp
    DownData <- MCLongDown
PROPERTIES DownlinkDelivered
CHECK_DEADLOCK FALSE
