SPECIFICATION LaneSpec
CONSTANTS
    c1 = c1
    c2 = c2
    k1 = k1
    m1 = m1
    m2 = m2
    f1 = f1
    f2 = f2
    a1 = a1
    s1 = s1
    s2 = s2
    t1 = t1
    l1 = l1
    l2 = l2
    None = None
    Files <- Histories
    Batches = {s1, s2}
    Confirms = {c1, c2}
    Cancels = {k1}
    Imports = {m1, m2}
    MaxFaults = 1
    MaxRequests = 4
    Fields = {f1, f2}
    Values = {1, 2}
    Patches <- Edits
    Apps = {a1}
    Collected <- Intake
    Editors = {s1, s2}
    Attachers = {t1}
    Keepers = {k1}
    MaxEdits = 5
    Due <- DueDays
    MonthEnds <- Ends
    Total = 2
    Cuts <- Rates
    Desks = {s1, s2}
    Horizon = 4
    Amounts = {1, 2}
    Modes = {"regular", "add_on"}
    Jobs = {m1, m2}
    MaxPayments = 2
    MaxSessions = 2
    Statuses = {"bankruptcy"}
    EstateAmounts = {2}
    EstateJobs = {m1}
    EstatePayments = 1
    EstateSessions = 4
    Loans = {l1, l2}
    Clerks = {s1, s2}
    Debtor = l1
    Paid = {1}
    FeeMonth = 1
    FeeHorizon = 1
    FeePayments = 1
    Promised = {2}
    PromiseMonth = 2
    PromiseHorizon = 2
    MaxPromises = 2
    PromisePayments = 2
SYMMETRY Processes
INVARIANTS
    AllTypesOK
    HistoryOnce
    BatchKeepsItsWord
    OneCurrentValue
    DecisionsStayExplained
    BucketsFollowTheLoan
    DeskKeepsBooks
PROPERTY
    PastMonthStands
CHECK_DEADLOCK FALSE
