SPECIFICATION FairSpec
CONSTANTS
    Values <- MCValues
    Backend = "kqueue"
    SndBuf = 2
    RcvBuf = 3
    RecvMax = 2
    Eager = FALSE
    Failing = TRUE
    UpData <- MCUp
    DownData <- MCDown
INVARIANTS TypeOK UplinkConserved DownlinkConserved Framed
    PausedWhilePending NoEmptySend BoundedOutput
PROPERTIES DownlinkDelivered
CHECK_DEADLOCK FALSE
