SPECIFICATION FairSpec
CONSTANTS
    Values <- MCValues
    Backend = "kqueue"
    SndBuf = 2
    RcvBuf = 3
    RecvMax = 3
    HeadLen = 1
    Eager = {"front"}
    Failing = TRUE
    UpData <- MCUp
    DownData <- MCDown
INVARIANTS TypeOK UplinkConserved DownlinkConserved EmptyOnlyAfterEarly
PROPERTIES RequestServed
CHECK_DEADLOCK FALSE
