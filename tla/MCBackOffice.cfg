SPECIFICATION LaneSpec
CONSTANTS
    p1 = p1
    p2 = p2
    r1 = r1
    hook = hook
    l1 = l1
    c1 = c1
    c2 = c2
    o1 = o1
    o2 = o2
    None = None
    PerYear <- PaymentsPerYear
    RateUnit = 1
    CapBps = 21200
    Products <- Catalogue
    Amounts = {90, 135}
    Terms = {1, 2, 3}
    Rates = {0, 1, 2}
    Procs = {p1, p2}
    Months = {1, 2}
    ShareBps = 5000
    ExtraFee = 1
    HooksWired = TRUE
    Deposits = {3}
    MaxCollected = 6
    MaxRows = 2
    Cases = {r1}
    NItems = 2
    Total = 1
    Desks = {p1, p2}
    Hooks = {hook}
    MaxDeferred = 2
    Window = 0
    MaxTime = 1
    Listings = {l1}
    Clinics = {c1, c2}
    Sessions = {p1, p2}
    Trigger = "patient_selected"
    Types = {"id", "bank"}
    Workers = {p1, p2}
    ActivationBooksLoan = TRUE
    MaxEvents = 1
    MaxCrashes = 1
    Offers = {o1, o2}
    Requests = {p1, p2}
    MaxOffers = 2
    SignedOffers = {o1}
    MaxSent = 0
    MaxDocs = 1
    MaxFaults = 1
SYMMETRY Processes
INVARIANTS
    AllTypesOK
    VendorIsOwed
    DealIsKept
    AmendmentsAreSigned
    CountedOnce
    DealsAreSound
PROPERTY
    LastResultDecides
CHECK_DEADLOCK FALSE
