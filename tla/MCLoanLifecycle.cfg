SPECIFICATION LiveSpec
CONSTANTS
    w1 = w1
    w2 = w2
    job = job
    d1 = d1
    d2 = d2
    q1 = q1
    q2 = q2
    None = None
    Web = {w1, w2}
    Jobs = {job}
    Docs = {d1}
    Requests = {q1}
    MaxFaults = 1
INVARIANTS
    TypeOK
    ActedOnce
    BooksFollowRail
    PayoutIsEarned
PROPERTIES
    PayoutIsRecorded
