SPECIFICATION Spec
CONSTANTS
    RateNum  = 1
    RateDen  = 4
    Priority <- MCPriority
    Advance  = 3
    Items    <- MCItems
    Total    <- MCTotal
    Due      <- MCDue
    Amounts  = {1, 3}
    FeeAmounts = {1}
    DaysBack = {0}
    AgingOverlaps = TRUE
    MaxDay   = 2
    MaxRows  = 3
    MoveShares = {2000, 2500, 7500, 10000}
    PeriodDays = 1
PROPERTIES
    ClosedNeverDelinquent
