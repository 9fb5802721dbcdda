SPECIFICATION FairSpec
CONSTANTS
    Values <- MCValues
    LocalBackend = "kqueue"
    RemoteBackend = "epoll"
    SndBuf = 2
    RcvBuf = 2
    RecvMax = 2
    Eager = {}
    Failing = FALSE
    AppData <- MCApp
    SiteData <- MCSite
PROPERTIES IsPipe RemoteFollows
CHECK_DEADLOCK FALSE
