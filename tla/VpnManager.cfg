SPECIFICATION FairSpec
CONSTANTS
    Confs = {A, B}
    None = None
    Tasks = {t1, t2}
    MaxActs = 4
    MaxDrops = 1
INVARIANTS TypeOK ListTrue
PROPERTIES ReactionsHarmless Settles
CHECK_DEADLOCK FALSE
