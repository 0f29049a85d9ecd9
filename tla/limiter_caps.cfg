SPECIFICATION Spec
\* The clock stops at Horizon: jobs put off past it stay where they are.
CHECK_DEADLOCK FALSE
CONSTANTS
    global = global
    alice = alice
    b1 = b1
    b2 = b2
    Global = global
    Senders = {alice}
    Batches = {b1, b2}
    Jobs <- ThreeJobs
    SenderOf <- ThreeSender
    BatchOf <- ThreeBatch
    Cap <- Caps
    HourLen = 2
    Ttl = 3
    Timeout = 1
    RetryDelay = 1
    BatchDelay = 1
    Attempts = 1
    Horizon = 3
    LateEvals = 1
INVARIANT TypeOK
INVARIANT CapsHold
INVARIANT AllOrNothing
INVARIANT StaggerSpaced
PROPERTY BlockedOncePerHour
