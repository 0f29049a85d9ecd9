SPECIFICATION FormSpec
\* Requests, inputs and the clock are bounded.
CHECK_DEADLOCK FALSE
CONSTANTS
    ann = ann
    Ann = Ann
    blank = blank
    junk = junk
    mailColumn = mailColumn
    u1 = u1
    blanked = blanked
    m1 = m1
    q1 = q1
    q2 = q2
    f1 = f1
    f2 = f2
    NoKey = NoKey
    None = None
    User = u1
    Blank = blank
    Entries <- AllEntries
    Valid = {ann}
    Headers = {mailColumn}
    Normal <- Lowered
    LeadFiles <- Leads
    Inputs <- Payloads
    Requests = {q1, q2}
    Window = 2
    Skew = 1
    Shifts = {1}
    Horizon = 1
    Mails = {blanked, m1}
    Blanked = blanked
    Files = {f1, f2}
    FileOf <- Picked
    Limits <- Scheduler
    Starts = {0}
    Delays = {8}
    HourlyLimits = {}
    Second = 2
    MaxEdits = 3
    MaxCells = 3
SYMMETRY Symmetry
INVARIANT FormTypeOK
INVARIANT OneInFlight
INVARIANT CopiesOnlyAfterGivingUp
INVARIANT ChecksAgree
INVARIANT ShownIsStored
INVARIANT TotalKept
INVARIANT OnlyLateReadsLeak
INVARIANT LeadCountsAddUp
PROPERTY NothingLost
