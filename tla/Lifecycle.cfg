SPECIFICATION FairSpec
CONSTANTS
    NThread = 2
    MaxStarts = 2
    EarlyStop = FALSE
INVARIANTS TypeOK NoUseAfterFree ReleasedOnce NoStrayThread PortFree
    UpMeansListening
PROPERTIES StopCompletes
CHECK_DEADLOCK FALSE
