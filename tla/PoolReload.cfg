SPECIFICATION Spec
CONSTANTS
    t1 = t1
    t2 = t2
    w1 = w1
    w2 = w2
    Task = {t1, t2}
    Slot = {w1, w2}
    MinWorkers = 1
    MaxWorkers = 2
    QueueSize = 2
    MaxDeaths = 0
    MaxCancels = 0
    MaxReloads = 1
    None = None
    Quit = Quit
INVARIANT ReapsOnlyRunning
CHECK_DEADLOCK FALSE
