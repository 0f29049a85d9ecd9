\* A batch of two rows competes for one slot.
SPECIFICATION FairSpec
CONSTANTS
    r1 = r1
    r2 = r2
    s1 = s1
    s2 = s2
    w1 = w1
    w2 = w2
    q1 = q1
    q2 = q2
    NoRow = NoRow
    NoSlot = NoSlot
    Rows = {r1, r2}
    Slots = {s1}
    Sweepers = {w1}
    Requests = {q1}
    BatchRows <- OneRequest
    MaxAttempts = 2
    MaxStalledCount = 2
    Faults = {"apiCrash", "coldLoss", "redisTimeout"}
    MaxFaults = 1
    Isolated = TRUE
PROPERTY KeepsPromise
