SPECIFICATION LaneSpec
CONSTANTS
    p1 = p1
    p2 = p2
    s1 = s1
    h1 = h1
    k1 = k1
    email = email
    dashboard = dashboard
    q1 = q1
    w1 = w1
    w2 = w2
    x1 = x1
    x2 = x2
    None = None
    Wrong = Wrong
    Procs = {p1, p2}
    Crew = {p1}
    Scanners = {s1}
    Handlers = {h1}
    Keys = {k1}
    DueOn <- DueDay
    Vendors = {email}
    Dashboard = dashboard
    Limits = {1, 2}
    MaxEvents = 2
    MaxDay = 1
    MaxChanges = 1
    MaxFaults = 1
    Requesters = {q1}
    Workers = {w1, w2}
    Reader = x1
    Readers = {x1, x2}
    Delays <- Backoff
    MaxRetries = 2
    LockoutWindow = 1
    MaxRows = 1
    QueueFailed = 1
    QueueTTL = 3
    QueueRequests = 1
    QueueTokens = 5
    QueueTime = 4
    QueueFaults = 4
    MaxFailed = 2
    TTL = 1
    LastRequest = 1
    MaxRequests = 2
    MaxTokens = 2
    MaxTime = 3
    MaxLost = 1
INVARIANTS
    AllTypesOK
    NoSilentDrop
    ToldOncePerRun
    SentCodesWork
    LimitsHold
PROPERTIES
    EverythingSettles
CHECK_DEADLOCK FALSE
