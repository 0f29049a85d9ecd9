------------------------------ MODULE FrontEnd -----------------------------
(***************************************************************************)
(* The browser of one user: the session and the mailboxes of its tabs,     *)
(* with the accounts of the API behind them.                               *)
(***************************************************************************)
EXTENDS Mailbox

vars == <<authVars, mailVars>>

Init == AuthInit /\ MailInit

\* What the user does to the session.
UserAct(t) ==
    \/ Open(t) \/ Logout(t) \/ StartGoogle(t) \/ BackToGoogle(t) \/ BackToLogin(t)
    \/ GoogleRefused(t)
    \/ \E e \in Emails : SignIn(t, "login", e) \/ SignIn(t, "register", e) \/ CallbackArrives(t, e)

\* An answer of the session comes, or fifteen seconds have passed without it.
CallEnds(t) ==
    \E c \in calls : c.tab = t /\
        \/ StartAnswers(c) \/ LoginAnswers(c) \/ RegisterAnswers(c) \/ GoogleAnswers(c)
        \/ StartFails(c) \/ LoginFails(c) \/ GoogleFails(c) \/ RegisterTimesOut(c)

\* A registration or a callback goes on in the server, also when nobody waits.
ServerGoesOn ==
    \E c \in calls :
        \/ RegisterLooksUp(c) \/ RegisterCreates(c) \/ RegisterFails(c)
        \/ GoogleUpserts(c) \/ GoogleReturns(c)

AuthStep == ServerGoesOn \/ \E t \in Tabs : UserAct(t) \/ CallEnds(t) \/ Redirect(t)

MailEnds(t) == \E f \in fetches : f.tab = t /\ (MailAnswers(f) \/ MailFails(f))

MailStep == \E t \in Tabs : MountMailbox(t) \/ ChangeTab(t) \/ Refetch(t) \/ MailEnds(t)

Next == (AuthStep /\ Remount) \/ MailStep

\* Calls end, if only because the page gives up, and React runs the effects of
\* what it has rendered.  The user and Google need not act.
Fairness ==
    \A t \in Tabs :
        /\ WF_vars(CallEnds(t) /\ Remount)
        /\ WF_vars(MailEnds(t))
        /\ WF_vars((Redirect(t) /\ Remount) \/ MountMailbox(t))

Spec == Init /\ [][Next]_vars /\ Fairness

----------------------------------------------------------------------------
(* Properties *)

TypeOK == AuthTypeOK /\ MailTypeOK

\* A page shows the account whose token its calls carry, unless another tab
\* or a call that was late has changed the session since the page loaded or
\* its user signed in.
ShownIsTokens == \A t \in Tabs : Mounted(t) /\ t \notin raced => user[t] = token

Displayed(t) == Mounted(t) /\ ~mailbox[t].loading /\ ~mailbox[t].error

\* The mail on display is what the newest effect of the page asked for, in
\* the box that is chosen; and, but for the same excuse, the mail of the
\* account in the header.
MailIsOfTheBox ==
    \A t \in Tabs : Displayed(t) =>
        LET page == mailbox[t].page IN
        /\ page.box = mailbox[t].box /\ page.by = mailbox[t].effect
        /\ t \notin raced => page.as = user[t]

\* The pages of the two boxes divide the e-mails of a user among them, in every
\* table.  It is about the operators of the lists alone, and looked at once, in
\* the states before the user has done anything.
EachListedOnce == events = 0 => ListedOnce(Tables)

\* A row of users keeps its way to sign in: neither of two registrations of
\* one address, nor a Google sign-in with it, takes over the other's account.
AccountsStay == [][\A e \in Emails : Exists(e) => accounts'[e] = accounts[e]]_vars

\* Of the Google sign-ins a browser has under way only the one started last passes
\* the check of its state, though it may have been overtaken when it ends; and none
\* signs somebody in twice, however often its callback is requested.
CallbackOnce ==
    [][/\ \A t \in Tabs, e \in Emails : CallbackArrives(t, e) => flow[t] = flows
       /\ \A c \in calls : GoogleReturns(c) => flow[c.tab] \notin served]_vars

\* What a tab keeps its user waiting with: the validation at start-up, a
\* sign-in, the callback page, a mailbox that loads, a dashboard without a user.
Waits(t) ==
    \/ initializing[t] \/ Busy(t)
    \/ path[t] = "oauth" /\ Pending(t, {"google"}) # {}
    \/ Mounted(t) /\ mailbox[t].loading
    \/ path[t] = "dashboard" /\ user[t] = None

\* However the calls end, all pages come to rest when the user pauses.
WaitingEnds == (\E t \in Tabs : Waits(t)) ~> (\A t \in Tabs : ~Waits(t))
============================================================================
