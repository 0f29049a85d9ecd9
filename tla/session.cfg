SPECIFICATION Spec
\* What the user does is bounded.
CHECK_DEADLOCK FALSE
CONSTANTS
    ann = ann
    bob = bob
    anyStatus = anyStatus
    AnyStatus = anyStatus
    Owners = {ann, bob}
    Tables <- SomeTables
    PageSizes = {0, 1, 2}
    t1 = t1
    t2 = t2
    None = None
    Nobody = Nobody
    Emails = {ann, bob}
    Tabs = {t1, t2}
    MaxFlows = 2
    MaxEvents = 4
INVARIANT TypeOK
INVARIANT ShownIsTokens
INVARIANT MailIsOfTheBox
INVARIANT EachListedOnce
PROPERTY AccountsStay
PROPERTY CallbackOnce
PROPERTY WaitingEnds
