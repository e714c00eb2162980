SPECIFICATION ServicesSpec
CONSTANTS
    Approvers = {u1, u2}
    Nobody = nobody
    Users = {u1, u2}
    JobIds = {1, 2}
    MaxLostHooks = 1
    Deliveries = {d1, d2}
    Guid <- MCGuid
    Throttle = 2
    MaxTime = 3
    Receivers = {r1, r2}
    Events = {1, 2, 3}
    MaxFaults = 1
    NodeIds = {1, 2, 3, 4}
    MaxLinks = 3
    MaxRequests = 2
    Launches = {l1, l2, l3}
    MaxConcurrent = 1
    MaxDaily = 2
    LastDay = 1
    Jobs = {1, 2, 3}
    Values = {a, b}
    Evaluations = {e1, e2}
    Cooldown = 2
    MaxClock = 3
    Processes = {p1, p2}
    MaxEdits = 2
    Nodes = {n1, n2}
    Occurrences = {2, 4}
    LastTick = 6
    MaxDeaths = 1
    Controllers = {c1}
    Grace = 0
    MaxHour = 1
    MaxStarts = 1
    MaxLosses = 1
    Instances = {1, 2, 3}
    NodeType <- MCNodeType
    Controlplane = controlplane
    Default = default
    MaxPolicyEdits = 2
    MaxLostTasks = 1
    MaxSignals = 2
    MaxMishaps = 1
    Hosts = {h1}
    Addresses = {a1, a2}
    Absent = absent
    MaxChanges = 3
    MaxBreaks = 1
    Browsers = {b1, b2}
    MaxMessages = 3
    MaxBrowserRequests = 4
    MaxHitches = 2
    Sources = {s1, s2}
    IdSources = {s1}
    Names = {1, 2}
    Ids = {1, 2}
    MaxRow = 6
    MaxImports = 2
    MaxHostEdits = 1
    ProjectJobs = {3, 4}
    Overriding = {4}
    Updates = {1}
    Commits = 2
INVARIANTS ServicesTypeOK RequestsDecidedOnce ApprovalHolds CooldownsHold EventsProcessedOnce TemplatesAcyclic WithinQuota CopiesAreCurrent ConnectionsHold PeriodicTasksHold
PROPERTY ServicesSettle
CHECK_DEADLOCK FALSE
