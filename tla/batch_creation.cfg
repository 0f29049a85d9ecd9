SPECIFICATION Spec
\* A request is answered once.
CHECK_DEADLOCK FALSE
CONSTANTS
    ann = ann
    Ann = Ann
    bob = bob
    blank = blank
    junk = junk
    u1 = u1
    u2 = u2
    m1 = m1
    k1 = k1
    q1 = q1
    q2 = q2
    NoKey = NoKey
    Blank = blank
    Entries <- AllEntries
    Valid = {ann, bob}
    Normal <- Lowered
    Inputs <- Asked
    Requests = {q1, q2}
    Window = 2
    Skew = 1
    Shifts = {2}
    Horizon = 4
SYMMETRY Symmetry
INVARIANT CopiesOverlap
INVARIANT AnswerMatches
INVARIANT AnswerIsTrue
