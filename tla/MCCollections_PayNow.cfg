SPECIFICATION LiveSpec
CONSTANTS
    r1 = r1
    r2 = r2
    h1 = h1
    h2 = h2
    p1 = p1
    p2 = p2
    N = 1
    Due <- MCDueOne
    MaxAttempts = 1
    RetryDelay = 1
    NsfFee = 1
    Runs = {r1}
    Hooks = {h1, h2}
    PayNows = {p1}
    SyncReplies = {"pending", "completed", "failed"}
    EarlyHooks = FALSE
    MaxCrashes = 1
    MaxDay = 0
INVARIANTS
    TypeOK
    AcknowledgedCashIsPosted
PROPERTIES
    CashReachesTheBooks
    PostsAsPromised
