SPECIFICATION FairSpec
CONSTANTS
    Offers = {o1}
    Requests = {r1}
    ActivationBooksLoan = TRUE
    None = None
    MaxOffers = 1
    MaxDocs = 0
PROPERTY
    ApprovalLapses
CHECK_DEADLOCK FALSE
