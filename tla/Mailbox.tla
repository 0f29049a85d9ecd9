------------------------------ MODULE Mailbox ------------------------------
(***************************************************************************)
(* The mailbox of a signed-in tab (frontend/hooks/useMailbox.ts and the    *)
(* dashboard).  Every change of the box and every refresh runs an effect,  *)
(* which asks for the list and the two counts at once and with the same    *)
(* token; answers of an effect that has been replaced are dropped.         *)
(***************************************************************************)
EXTENDS AuthContext, EmailListing

VARIABLES
    mailbox, \* per tab: the box, the effect that runs it and what is shown
    fetches, \* effects that wait for their answers
    fetched  \* effects each tab has run so far

mailVars == <<mailbox, fetches, fetched>>

NoPage == [box |-> "none", by |-> 0, as |-> None]

\* A tab that shows no mailbox, and the state a mailbox starts with.
Fresh == [box |-> "scheduled", effect |-> 0, page |-> NoPage, loading |-> TRUE, error |-> FALSE]

Pages == {NoPage} \cup [box : Boxes, by : 1 .. MaxEvents, as : Identities]

MailTypeOK ==
    /\ mailbox \in [Tabs -> [box : Boxes, effect : 0 .. MaxEvents, page : Pages,
                             loading : BOOLEAN, error : BOOLEAN]]
    /\ fetched \in [Tabs -> 0 .. MaxEvents]
    /\ fetches \subseteq [tab : Tabs, box : Boxes, by : 1 .. MaxEvents, as : Identities]

MailInit ==
    /\ mailbox = [t \in Tabs |-> Fresh]
    /\ fetches = {}
    /\ fetched = [t \in Tabs |-> 0]

\* Mutant of Mounted: the page does not wait for the validation.
MountedEarly(t) == path[t] = "dashboard" /\ user[t] # None

\* ProtectedRoute shows its children.
Mounted(t) == path[t] = "dashboard" /\ ~initializing[t] /\ user[t] # None

\* The identity of requireAuth: the token, or without one whoever the session
\* cookie names, which is any account or nobody.
Presented == IF token = None THEN {e \in Emails : Exists(e)} \cup {None} ELSE {token}

\* The effect of useMailbox for the box of tab t.
RunEffect(t, box) ==
    /\ fetched' = [fetched EXCEPT ![t] = @ + 1]
    /\ mailbox' = [mailbox EXCEPT ![t] = [@ EXCEPT !.box = box, !.effect = fetched'[t],
                                                   !.loading = TRUE, !.error = FALSE]]
    /\ \E e \in Presented :
        fetches' = fetches \cup {[tab |-> t, box |-> box, by |-> fetched'[t], as |-> e]}
    /\ UNCHANGED <<server, stored, tabVars, calls, raced>>

\* The effect of the first render.
MountMailbox(t) ==
    /\ Mounted(t) /\ mailbox[t].effect = 0
    /\ RunEffect(t, "scheduled")
    /\ UNCHANGED events

\* Another box is chosen.
ChangeTab(t) ==
    /\ UserEvent
    /\ Mounted(t) /\ mailbox[t].effect # 0
    /\ \E box \in Boxes \ {mailbox[t].box} : RunEffect(t, box)

\* The refresh of the toolbar, and Retry.
Refetch(t) ==
    /\ UserEvent
    /\ Mounted(t) /\ mailbox[t].effect # 0
    /\ RunEffect(t, mailbox[t].box)

\* Mutant of Active: an effect that was replaced still sets the state.
ActiveWhileMounted(f) == Mounted(f.tab)

\* The active flag of the effect.
Active(f) == Mounted(f.tab) /\ mailbox[f.tab].effect = f.by

\* All three answers have come; nobody is answered nothing.
MailAnswers(f) ==
    /\ f \in fetches /\ fetches' = fetches \ {f} /\ f.as # None
    /\ mailbox' = IF Active(f)
                  THEN [mailbox EXCEPT ![f.tab] =
                          [@ EXCEPT !.page = [box |-> f.box, by |-> f.by, as |-> f.as],
                                    !.loading = FALSE]]
                  ELSE mailbox
    /\ UNCHANGED <<authVars, fetched>>

\* Mutant of MailFails: the error does not end the loading.
MailFailsLoading(f) ==
    /\ f \in fetches /\ fetches' = fetches \ {f}
    /\ mailbox' = IF Active(f) THEN [mailbox EXCEPT ![f.tab] = [@ EXCEPT !.error = TRUE]]
                  ELSE mailbox
    /\ UNCHANGED <<authVars, fetched>>

\* One of them failed: a 401 as any other error is only shown.
MailFails(f) ==
    /\ f \in fetches /\ fetches' = fetches \ {f}
    /\ mailbox' = IF Active(f)
                  THEN [mailbox EXCEPT ![f.tab] = [@ EXCEPT !.error = TRUE, !.loading = FALSE]]
                  ELSE mailbox
    /\ UNCHANGED <<authVars, fetched>>

\* A step of the session: what is not mounted any more loses its state, and
\* a page that was loaded anew has no effects under way.
Remount ==
    /\ mailbox' = [t \in Tabs |-> IF Mounted(t)' THEN mailbox[t] ELSE Fresh]
    /\ UNCHANGED <<fetches, fetched>>
============================================================================
