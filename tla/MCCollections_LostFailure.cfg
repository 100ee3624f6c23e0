SPECIFICATION Spec
CONSTANTS
    r1 = r1
    r2 = r2
    h1 = h1
    h2 = h2
    p1 = p1
    p2 = p2
    N = 1
    Due <- MCDueOne
    MaxAttempts = 1
    RetryDelay = 1
    NsfFee = 1
    Runs = {r1}
    Hooks = {h1}
    PayNows = {p1}
    SyncReplies = {"pending", "completed"}
    EarlyHooks = FALSE
    MaxCrashes = 0
    MaxDay = 0
INVARIANTS
    ClaimPersistsIffProcessed
