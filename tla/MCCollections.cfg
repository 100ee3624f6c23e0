SPECIFICATION Spec
CONSTANTS
    r1 = r1
    r2 = r2
    h1 = h1
    h2 = h2
    p1 = p1
    p2 = p2
    N = 2
    Due <- MCDue
    MaxAttempts = 2
    RetryDelay = 1
    NsfFee = 1
    Runs = {r1, r2}
    Hooks = {h1}
    PayNows = {}
    SyncReplies = {"pending"}
    EarlyHooks = TRUE
    MaxCrashes = 1
    MaxDay = 1
INVARIANTS
    OnePullPerInstallment
    RetriesFollowFailures
    CompletedAttemptsArePaid
    FeesOnlyForReturns
