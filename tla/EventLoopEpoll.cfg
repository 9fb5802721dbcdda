SPECIFICATION FairSpec
CONSTANTS
    Conns = {c1, c2}
    Loops = {l1, l2}
    Null = Null
    Backend = "epoll"
    Interrupts = TRUE
INVARIANTS TypeOK NoStaleEvent WatchedIsAlive PeersPaired WriteHasPeer
PROPERTIES PairsDieTogether ConfinedToItsLoop HangupReaped
CHECK_DEADLOCK FALSE
