SPECIFICATION FairSpec
CONSTANTS
    r1 = r1
    r2 = r2
    s1 = s1
    s2 = s2
    w1 = w1
    w2 = w2
    q1 = q1
    q2 = q2
    NoRow = NoRow
    NoSlot = NoSlot
    Rows = {r1}
    Slots = {s1, s2}
    Sweepers = {w1}
    Requests = {q1}
    BatchRows <- OneRequest
    MaxAttempts = 2
    MaxStalledCount = 1
    Faults = {"lostFailure"}
    MaxFaults = 1
    Isolated = TRUE
PROPERTY Settles
