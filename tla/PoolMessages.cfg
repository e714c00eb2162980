SPECIFICATION FairSpec
CONSTANTS
    t1 = t1
    t2 = t2
    t3 = t3
    w1 = w1
    w2 = w2
    Task = {t1, t2, t3}
    Slot = {w1, w2}
    MinWorkers = 1
    MaxWorkers = 2
    QueueSize = 2
    MaxDeaths = 1
    MaxCancels = 1
    MaxReloads = 1
    None = None
    Quit = Quit
INVARIANTS TypeOK NoTaskTwice NothingLost WorkIsManaged NothingAbandoned
PROPERTY EveryTaskIsBegun
CHECK_DEADLOCK FALSE
