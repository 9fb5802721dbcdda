SPECIFICATION FairSpec
CONSTANTS
    Values <- MCValues
    Backend = "kqueue"
    SndBuf = 2
    RcvBuf = 4
    RecvMax = 3
    Eager = FALSE
    Failing = FALSE
    UpData <- MCUpLong
    DownData <- MCDownNone
PROPERTIES UplinkDelivered
CHECK_DEADLOCK FALSE
