--------------------------- MODULE FrontEndProofs --------------------------
(***************************************************************************)
(* What holds of FrontEnd for any tabs, addresses and numbers of events:   *)
(* what the tabs show, that accounts and sign-ins are kept apart, how      *)
(* often the effect of a mailbox runs, and what the lists of any table     *)
(* show.                                                                   *)
(***************************************************************************)
EXTENDS FrontEnd, FoldLemmas, TLAPS

Paths == {"closed", "login", "google", "oauth", "dashboard"}
SignIns == {"login", "register", "hashing", "created"}
Exchanges == {"exchange", "redirect"}
GoesOn == {"register", "hashing", "exchange"} \* what the server does without a page
CallSet == [tab : Tabs \cup {Nobody}, kind : Kinds, as : Emails]

\* The types of the session, without the bounds on what is counted.
Types ==
    /\ AccountsOK
    /\ token \in Identities /\ storedUser \in Identities
    /\ stateCookie \in Nat /\ flows \in Nat
    /\ path \in [Tabs -> Paths] /\ user \in [Tabs -> Identities]
    /\ initializing \in [Tabs -> BOOLEAN] /\ flow \in [Tabs -> Nat]
    /\ calls \in SUBSET CallSet
    /\ \A c \in calls : c.tab = Nobody => c.kind \in GoesOn
    /\ served \in SUBSET Nat /\ raced \in SUBSET Tabs

LEMMA UnattendedCalls ==
    ASSUME Types, NEW gone \in SUBSET calls
    PROVE  \A c \in Unattended(gone) : c \in CallSet /\ c.tab = Nobody /\ c.kind \in GoesOn
<1> SUFFICES ASSUME NEW d \in gone, d.kind \in GoesOn
             PROVE  /\ [d EXCEPT !.tab = Nobody] \in CallSet /\ [d EXCEPT !.tab = Nobody].tab = Nobody
                    /\ [d EXCEPT !.tab = Nobody].kind \in GoesOn
  BY DEF Unattended, GoesOn
<1> QED
  BY DEF Types, CallSet

LEMMA OrphanedCalls ==
    ASSUME Types, NEW t \in Tabs
    PROVE  /\ Orphaned(t) \in SUBSET CallSet
           /\ \A c \in Orphaned(t) : c.tab # t
           /\ \A c \in Orphaned(t) : c \notin calls => c.tab = Nobody /\ c.kind \in GoesOn
<1>1. ASSUME NEW c \in Orphaned(t)
      PROVE  \/ c \in calls /\ c.tab # t
             \/ c \in CallSet /\ c.tab = Nobody /\ c.kind \in GoesOn
  BY <1>1, UnattendedCalls DEF Orphaned
<1> QED
  BY <1>1, SessionAssumption DEF Types

\* What a call of the session is, and what is left of one that goes on.
LEMMA OneCall ==
    ASSUME Types, NEW c \in calls, NEW k \in Kinds
    PROVE  /\ c.tab \in Tabs \cup {Nobody} /\ c.kind \in Kinds /\ c.as \in Emails
           /\ [c EXCEPT !.kind = k] \in CallSet
           /\ [c EXCEPT !.kind = k].tab = c.tab /\ [c EXCEPT !.kind = k].kind = k
           /\ [c EXCEPT !.tab = Nobody] \in CallSet
           /\ [c EXCEPT !.tab = Nobody].tab = Nobody /\ [c EXCEPT !.tab = Nobody].kind = c.kind
           /\ c.kind \notin GoesOn => c.tab \in Tabs
  BY DEF Types, CallSet

LEMMA LoadTypes ==
    ASSUME Types, NEW t \in Tabs, NEW page \in {"login", "dashboard"}, Load(t, page)
    PROVE  /\ path' \in [Tabs -> Paths] /\ user' \in [Tabs -> Identities]
           /\ initializing' \in [Tabs -> BOOLEAN] /\ raced' \in SUBSET Tabs
           /\ calls' \in SUBSET CallSet
           /\ \A c \in calls' : c.tab = Nobody => c.kind \in GoesOn
           /\ UNCHANGED <<token, storedUser>>
<1>1. /\ path' \in [Tabs -> Paths] /\ user' \in [Tabs -> Identities]
      /\ initializing' \in [Tabs -> BOOLEAN] /\ raced' \in SUBSET Tabs
  BY DEF Load, Types, Goes, Paths, Identities
<1>2. token # None => Call(t, "start", token) \in CallSet
  BY DEF Types, Call, CallSet, Kinds, Identities
<1>3. Call(t, "start", token).tab # Nobody
  BY SessionAssumption DEF Call
<1> QED
  BY <1>1, <1>2, <1>3, OrphanedCalls DEF Load, Types, stored

LEMMA TypesStep == Types /\ [Next]_vars => Types'
<1> SUFFICES ASSUME Types, [Next]_vars PROVE Types'
  OBVIOUS
<1> USE SessionAssumption
<1>1. ASSUME NEW t \in Tabs, Open(t) PROVE Types'
  BY <1>1, LoadTypes DEF Open, server, AccountsOK, Types
<1>2. ASSUME NEW t \in Tabs, Logout(t) PROVE Types'
  BY <1>2 DEF Logout, Clear, Persist, Goes, server, Types, Paths, Identities, AccountsOK
<1>3. ASSUME NEW t \in Tabs, StartGoogle(t) \/ BackToGoogle(t) PROVE Types'
  <2>1. calls' \in SUBSET CallSet /\ \A c \in calls' : c.tab = Nobody => c.kind \in GoesOn
    BY <1>3, OrphanedCalls DEF StartGoogle, BackToGoogle, ToGoogle, Types
  <2>2. /\ UNCHANGED <<accounts, token, storedUser, served, raced>>
        /\ stateCookie' \in Nat /\ flows' \in Nat /\ flow' \in [Tabs -> Nat]
    BY <1>3 DEF StartGoogle, BackToGoogle, ToGoogle, stored, Types
  <2>3. /\ path' \in [Tabs -> Paths] /\ user' \in [Tabs -> Identities]
        /\ initializing' \in [Tabs -> BOOLEAN]
    BY <1>3 DEF StartGoogle, BackToGoogle, ToGoogle, Goes, Types, Paths, Identities
  <2> QED
    BY <2>1, <2>2, <2>3 DEF Types, AccountsOK
<1>4. ASSUME NEW t \in Tabs, BackToLogin(t) \/ Redirect(t) PROVE Types'
  BY <1>4 DEF BackToLogin, Redirect, Goes, server, stored, Types, Paths, AccountsOK
<1>5. ASSUME NEW t \in Tabs, GoogleRefused(t) PROVE Types'
  BY <1>5, LoadTypes DEF GoogleRefused, Types, AccountsOK
<1>6. ASSUME NEW t \in Tabs, NEW e \in Emails, CallbackArrives(t, e) PROVE Types'
  <2>1. Call(t, "exchange", e) \in CallSet /\ Call(t, "exchange", e).tab # Nobody
    BY DEF Call, CallSet, Kinds
  <2> QED
    BY <1>6, <2>1, OrphanedCalls DEF CallbackArrives, server, stored, tabVars, Types, AccountsOK
<1>17. ASSUME NEW c \in calls, GoogleUpserts(c) PROVE Types'
  <2>1. [c EXCEPT !.kind = "redirect"] \in CallSet /\ c.as \in Emails
    BY OneCall DEF Kinds
  <2> QED
    BY <1>17, <2>1 DEF GoogleUpserts, UpsertGoogleUser, stored, tabVars, Types, AccountsOK
<1>18. ASSUME NEW c \in calls, GoogleReturns(c) PROVE Types'
  <2>1. c.tab \in Tabs /\ c.as \in Emails
    BY <1>18, OneCall DEF GoogleReturns, Kinds, GoesOn
  <2>2. Call(c.tab, "google", c.as) \in CallSet /\ Call(c.tab, "google", c.as).tab # Nobody
    BY <2>1 DEF Call, CallSet, Kinds
  <2> QED
    BY <1>18, <2>1, <2>2 DEF GoogleReturns, Goes, Types, Paths, Identities, AccountsOK
<1>7. ASSUME NEW t \in Tabs, NEW e \in Emails, SignIn(t, "login", e) \/ SignIn(t, "register", e)
      PROVE  Types'
  <2>1. \A k \in Kinds : Call(t, k, e) \in CallSet
                         /\ Call(t, k, e).tab # Nobody
    BY DEF Call, CallSet
  <2> QED
    BY <1>7, <2>1 DEF SignIn, server, stored, tabVars, Types, Kinds, AccountsOK
<1>8. ASSUME NEW c \in calls, StartAnswers(c) \/ GoogleAnswers(c) PROVE Types'
  <2>1. c.tab \in Tabs /\ c.as \in Emails
    BY <1>8, OneCall DEF StartAnswers, GoogleAnswers, Kinds, GoesOn
  <2> QED
    BY <1>8, <2>1 DEF StartAnswers, GoogleAnswers, Goes, server, Types, Paths, Identities, AccountsOK
<1>9. ASSUME NEW c \in calls, StartFails(c) \/ GoogleFails(c) PROVE Types'
  <2>1. c.tab \in Tabs /\ c.as \in Emails
    BY <1>9, OneCall DEF StartFails, GoogleFails, Kinds, GoesOn
  <2> QED
    BY <1>9, <2>1 DEF StartFails, GoogleFails, Clear, Persist, server, Types, Identities, AccountsOK
<1>10. ASSUME NEW c \in calls, LoginAnswers(c) \/ RegisterAnswers(c) PROVE Types'
  <2>1. c.tab \in Tabs \cup {Nobody} /\ c.as \in Emails
    BY OneCall DEF Kinds
  <2> QED
    BY <1>10, <2>1 DEF LoginAnswers, RegisterAnswers, SignedIn, Persist, Goes, server, Types, Paths,
                       Identities, AccountsOK
<1>11. ASSUME NEW c \in calls, LoginFails(c) \/ RegisterFails(c) PROVE Types'
  BY <1>11 DEF LoginFails, RegisterFails, server, stored, tabVars, Types, AccountsOK
<1>12. ASSUME NEW c \in calls, RegisterTimesOut(c) PROVE Types'
  <2>1. calls' \in SUBSET CallSet /\ \A d \in calls' : d.tab = Nobody => d.kind \in GoesOn
    BY <1>12, UnattendedCalls DEF RegisterTimesOut, Types
  <2> QED
    BY <1>12, <2>1 DEF RegisterTimesOut, server, stored, tabVars, Types, AccountsOK
<1>13. ASSUME NEW c \in calls, RegisterLooksUp(c) PROVE Types'
  <2>1. /\ [c EXCEPT !.kind = "hashing"] \in CallSet
        /\ [c EXCEPT !.kind = "hashing"].kind = "hashing"
    BY OneCall DEF Kinds
  <2> QED
    BY <1>13, <2>1 DEF RegisterLooksUp, server, stored, tabVars, Types, AccountsOK, GoesOn
<1>14. ASSUME NEW c \in calls, RegisterCreates(c) PROVE Types'
  <2>1. [c EXCEPT !.kind = "created"] \in CallSet /\ c.as \in Emails
    BY OneCall DEF Kinds
  <2> QED
    BY <1>14, <2>1 DEF RegisterCreates, CreateUser, stored, tabVars, Types, AccountsOK
<1>15. CASE MailStep \/ UNCHANGED vars
  BY <1>15 DEF MailStep, MountMailbox, ChangeTab, Refetch, MailEnds, MailAnswers, MailFails,
               RunEffect, vars, authVars, server, stored, tabVars, Types, AccountsOK
<1>16. CASE AuthStep
  BY <1>16, <1>1, <1>2, <1>3, <1>4, <1>5, <1>6, <1>7, <1>8, <1>9, <1>10, <1>11, <1>12, <1>13, <1>14,
         <1>17, <1>18
     DEF AuthStep, UserAct, CallEnds, ServerGoesOn
<1> QED
  BY <1>15, <1>16 DEF Next

LEMMA TypesInit == Init => Types
  BY SessionAssumption DEF Init, AuthInit, Types, AccountsOK, Identities, Paths

LEMMA TypesAlways == Spec => []Types
  BY TypesInit, TypesStep, PTL DEF Spec

----------------------------------------------------------------------------
(* The accounts *)

\* No step of any of the two ways to sign up takes an account from its owner:
\* registerWithEmail fails on the unique address, upsertGoogleUser too unless the
\* account is Google's already.
THEOREM AccountsAreKept == Spec => AccountsStay
<1>1. Types /\ [Next]_vars => [\A e \in Emails : Exists(e) => accounts'[e] = accounts[e]]_vars
  <2> SUFFICES ASSUME Types, Next PROVE \A e \in Emails : Exists(e) => accounts'[e] = accounts[e]
    OBVIOUS
  <2>1. ASSUME NEW c \in calls, GoogleUpserts(c)
        PROVE  \A d \in Emails : Exists(d) => accounts'[d] = accounts[d]
    BY <2>1 DEF GoogleUpserts, UpsertGoogleUser, Exists, Types, AccountsOK
  <2>2. ASSUME NEW c \in calls, RegisterCreates(c)
        PROVE  \A d \in Emails : Exists(d) => accounts'[d] = accounts[d]
    BY <2>2 DEF RegisterCreates, CreateUser, Exists, Types, AccountsOK
  <2>3. CASE MailStep
    BY <2>3 DEF MailStep, MountMailbox, ChangeTab, Refetch, MailEnds, MailAnswers, MailFails,
                RunEffect, authVars, server
  <2>4. CASE AuthStep
    <3>1. CASE \E t \in Tabs : UserAct(t) \/ Redirect(t)
      BY <3>1 DEF UserAct, Open, Logout, StartGoogle, BackToGoogle, ToGoogle, BackToLogin, GoogleRefused,
                  SignIn, CallbackArrives, Redirect, server
    <3>2. CASE \E t \in Tabs : CallEnds(t)
      BY <3>2 DEF CallEnds, StartAnswers, LoginAnswers, RegisterAnswers, GoogleAnswers, StartFails,
                  LoginFails, GoogleFails, RegisterTimesOut, server
    <3>3. CASE ServerGoesOn
      BY <3>3, <2>1, <2>2 DEF ServerGoesOn, RegisterLooksUp, RegisterFails, GoogleReturns, server
    <3> QED
      BY <2>4, <3>1, <3>2, <3>3 DEF AuthStep
  <2> QED
    BY <2>3, <2>4 DEF Next
<1> QED
  BY TypesAlways, <1>1, PTL DEF Spec, AccountsStay

----------------------------------------------------------------------------
(* What a tab shows *)

\* Each call of a tab belongs to the page that made it: the validation to a page
\* that is still initializing, a sign-in to the login page, an exchange to a tab that
\* is on its way from Google, the hand-off to the callback page.
InPlace(c) ==
    /\ c.kind = "start" => initializing[c.tab] /\ path[c.tab] \in {"login", "dashboard"}
    /\ c.kind \in SignIns => path[c.tab] = "login"
    /\ c.kind \in Exchanges => path[c.tab] = "google"
    /\ c.kind = "google" => path[c.tab] = "oauth"
CallsInPlace == \A c \in calls : c.tab # Nobody => InPlace(c)

\* A tab makes one call of a kind at a time.
OneAtATime ==
    \A c, d \in calls : /\ c.tab = d.tab /\ c.tab # Nobody
                        /\ \/ c.kind = d.kind \/ {c.kind, d.kind} \subseteq SignIns
                           \/ {c.kind, d.kind} \subseteq Exchanges
                        => c = d

\* A tab that stays mounted and was not overtaken has kept its user.
Keeps(t) == Mounted(t) /\ Mounted(t)' /\ t \notin raced' => t \notin raced /\ user'[t] = user[t]

CallInv == Types /\ CallsInPlace /\ OneAtATime

\* What a step of tab t leaves to the others.
OthersKeep(t) ==
    \A s \in Tabs \ {t} : /\ path'[s] = path[s] /\ user'[s] = user[s]
                          /\ initializing'[s] = initializing[s]
                          /\ s \in raced => s \in raced'

LEMMA LoadKeeps ==
    ASSUME CallInv, NEW t \in Tabs, NEW page \in {"login", "dashboard"}, Load(t, page)
    PROVE  /\ CallsInPlace' /\ OneAtATime' /\ ~Mounted(t)' /\ OthersKeep(t)
<1>1. /\ path'[t] = page /\ initializing'[t] = (token # None)
      /\ token = None => user'[t] = None
      /\ OthersKeep(t)
  BY DEF Load, Goes, CallInv, Types, OthersKeep
<1>2. /\ Call(t, "start", token).tab = t /\ Call(t, "start", token).kind = "start"
      /\ \A c \in calls' : c \in Orphaned(t) \/ (c = Call(t, "start", token) /\ token # None)
  BY DEF Call, Load
<1>3. \A c \in calls' : c.tab # Nobody => \/ c \in calls /\ c.tab # t /\ c.tab \in Tabs
                                          \/ c = Call(t, "start", token) /\ token # None
  BY <1>2, OrphanedCalls DEF CallInv, Types, CallSet
<1>4. CallsInPlace'
  <2> SUFFICES ASSUME NEW c \in calls', c.tab # Nobody PROVE InPlace(c)'
    BY DEF CallsInPlace
  <2>1. CASE c \in calls /\ c.tab # t /\ c.tab \in Tabs
    BY <1>1, <2>1 DEF CallInv, CallsInPlace, InPlace, OthersKeep
  <2>2. CASE c = Call(t, "start", token) /\ token # None
    BY <1>1, <1>2, <2>2 DEF InPlace, SignIns, Exchanges
  <2> QED
    BY <1>3, <2>1, <2>2
<1>5. OneAtATime'
  BY <1>2, <1>3 DEF CallInv, OneAtATime, SignIns, Exchanges
<1> QED
  BY <1>1, <1>4, <1>5 DEF Mounted

\* Every step of the session keeps the calls in order and the users of the tabs
\* that stay mounted, and what the tabs show stays true of the token.
Holds(t) == Mounted(t) /\ t \notin raced => user[t] = token
Safe == CallsInPlace' /\ OneAtATime' /\ \A t \in Tabs : Keeps(t) /\ (Holds(t) => Holds(t)')

LEMMA UserActSafe ==
    ASSUME CallInv, NEW t \in Tabs, UserAct(t) \/ Redirect(t)
    PROVE  Safe
<1> USE SessionAssumption
<1>1. CASE Open(t)
  <2>1. PICK page \in {"login", "dashboard"} : Load(t, page)
    BY <1>1 DEF Open
  <2>2. CallsInPlace' /\ OneAtATime' /\ ~Mounted(t)' /\ OthersKeep(t) /\ token' = token
    BY <2>1, LoadKeeps, LoadTypes DEF CallInv
  <2> QED
    BY <2>2 DEF Safe, Keeps, Holds, Mounted, OthersKeep
<1>2. CASE GoogleRefused(t)
  <2>1. CallsInPlace' /\ OneAtATime' /\ ~Mounted(t)' /\ OthersKeep(t) /\ token' = token
    BY <1>2, LoadKeeps, LoadTypes DEF CallInv, GoogleRefused
  <2> QED
    BY <2>1 DEF Safe, Keeps, Holds, Mounted, OthersKeep
<1>3. CASE Logout(t)
  <2>1. /\ calls' = calls /\ initializing' = initializing /\ token' = None
        /\ path' = [path EXCEPT ![t] = "login"] /\ path[t] = "dashboard" /\ ~initializing[t]
        /\ user' = [user EXCEPT ![t] = None]
        /\ raced' = (IF None = token THEN raced ELSE raced \cup Tabs) \ {t}
    BY <1>3 DEF Logout, Clear, Persist, Goes, server
  <2>3. \A c \in calls : c.tab # t
    BY <2>1 DEF CallInv, CallsInPlace, InPlace, Types, CallSet, Kinds, SignIns, Exchanges
  <2>2. CallsInPlace' /\ OneAtATime'
    BY <2>1, <2>3 DEF CallInv, Types, CallsInPlace, InPlace, OneAtATime
  <2> QED
    BY <2>1, <2>2 DEF Safe, Keeps, Holds, Mounted, CallInv, Types
<1>4. CASE StartGoogle(t) \/ BackToGoogle(t)
  <2>1. /\ calls' = Orphaned(t) /\ token' = token /\ raced' = raced
        /\ path' = [path EXCEPT ![t] = "google"]
        /\ user' = [user EXCEPT ![t] = None] /\ initializing' = [initializing EXCEPT ![t] = FALSE]
    BY <1>4 DEF StartGoogle, BackToGoogle, ToGoogle, Goes, stored
  <2>2. \A c \in calls' : c.tab # Nobody => c \in calls /\ c.tab # t /\ c.tab \in Tabs
    BY <2>1, OrphanedCalls DEF CallInv, Types, CallSet
  <2>3. CallsInPlace' /\ OneAtATime'
    BY <2>1, <2>2 DEF CallInv, Types, CallsInPlace, InPlace, OneAtATime
  <2> QED
    BY <2>1, <2>3 DEF Safe, Keeps, Holds, Mounted, CallInv, Types
<1>5. CASE BackToLogin(t) \/ Redirect(t)
  <2>1. /\ calls' = calls /\ initializing' = initializing /\ token' = token
        /\ user' = user /\ raced' = raced /\ path' = [path EXCEPT ![t] = "login"]
        /\ \A c \in calls : c.tab = t => c.kind = "start" \/ c.kind \in SignIns
    BY <1>5 DEF BackToLogin, Redirect, Goes, server, stored, Pending, CallInv, CallsInPlace,
                InPlace, Types, CallSet, Kinds, SignIns, Exchanges
  <2>2. CallsInPlace' /\ OneAtATime'
    BY <2>1 DEF CallInv, Types, CallsInPlace, InPlace, OneAtATime, SignIns, Exchanges
  <2> QED
    BY <2>1, <2>2 DEF Safe, Keeps, Holds, Mounted, CallInv, Types
<1>6. ASSUME NEW e \in Emails, CallbackArrives(t, e) PROVE Safe
  <2>1. /\ calls' = Orphaned(t) \cup {Call(t, "exchange", e)} /\ path[t] = "google"
        /\ UNCHANGED <<path, user, initializing, token, raced>>
    BY <1>6 DEF CallbackArrives, tabVars, stored
  <2>2. Call(t, "exchange", e).tab = t /\ Call(t, "exchange", e).kind = "exchange"
    BY DEF Call
  <2>3. \A c \in calls' : c.tab # Nobody => \/ c \in calls /\ c.tab # t
                                            \/ c = Call(t, "exchange", e)
    BY <2>1, OrphanedCalls DEF CallInv
  <2>4. CallsInPlace'
    BY <2>1, <2>2, <2>3 DEF CallInv, CallsInPlace, InPlace, SignIns, Exchanges
  <2>5. OneAtATime'
    BY <2>1, <2>2, <2>3 DEF CallInv, OneAtATime, SignIns, Exchanges
  <2> QED
    BY <2>1, <2>4, <2>5 DEF Safe, Keeps, Holds, Mounted
<1>7. ASSUME NEW e \in Emails, NEW k \in {"login", "register"}, SignIn(t, k, e) PROVE Safe
  <2>1. /\ calls' = calls \cup {Call(t, k, e)} /\ path[t] = "login"
        /\ UNCHANGED <<path, user, initializing, token, raced>>
        /\ \A c \in calls : c.tab = t => c.kind \notin SignIns
    BY <1>7 DEF SignIn, Busy, Pending, tabVars, stored, SignIns
  <2>2. Call(t, k, e).tab = t /\ Call(t, k, e).kind = k /\ k \in SignIns
    BY DEF Call, SignIns
  <2>3. CallsInPlace' /\ OneAtATime'
    BY <2>1, <2>2 DEF CallInv, Types, CallsInPlace, InPlace, OneAtATime, SignIns, Exchanges
  <2> QED
    BY <2>1, <2>3 DEF Safe, Keeps, Holds, Mounted
<1> QED
  BY <1>1, <1>2, <1>3, <1>4, <1>5, <1>6, <1>7 DEF UserAct

LEMMA AnswersSafe ==
    ASSUME CallInv, NEW c \in calls,
           \/ StartAnswers(c) \/ StartFails(c) \/ LoginAnswers(c) \/ LoginFails(c)
           \/ GoogleAnswers(c) \/ GoogleFails(c) \/ RegisterAnswers(c) \/ RegisterTimesOut(c)
           \/ RegisterLooksUp(c) \/ RegisterCreates(c) \/ RegisterFails(c)
           \/ GoogleUpserts(c) \/ GoogleReturns(c)
    PROVE  Safe
<1> USE SessionAssumption
<1> DEFINE t == c.tab
<1>0. t \in Tabs \cup {Nobody} /\ (c.kind \notin GoesOn => t \in Tabs)
  BY OneCall DEF CallInv, Kinds
<1>1. CASE StartAnswers(c) \/ StartFails(c)
  <2>1. /\ calls' = calls \ {c} /\ c.kind = "start" /\ t \in Tabs
        /\ path' = path /\ initializing' = [initializing EXCEPT ![t] = FALSE]
    BY <1>0, <1>1 DEF StartAnswers, StartFails, GoesOn
  <2>2. initializing[t] /\ \A d \in calls' : d.tab = t => d.kind # "start"
    BY <2>1 DEF CallInv, CallsInPlace, InPlace, OneAtATime
  <2>3. CallsInPlace' /\ OneAtATime'
    BY <2>1, <2>2 DEF CallInv, Types, CallsInPlace, InPlace, OneAtATime
  <2>4. /\ \A s \in Tabs \ {t} : user'[s] = user[s] /\ (s \in raced => s \in raced')
        /\ user'[t] \notin {token', None} => t \in raced'
        /\ token' # token => raced' = Tabs \ {t}
    BY <1>1, <2>1 DEF StartAnswers, StartFails, Clear, Persist, CallInv, Types
  <2> QED
    BY <2>1, <2>2, <2>3, <2>4 DEF Safe, Keeps, Holds, Mounted, CallInv, Types
<1>2. CASE LoginAnswers(c) \/ RegisterAnswers(c)
  <2>1. /\ calls' = calls \ {c} /\ c.kind \in SignIns /\ initializing' = initializing
        /\ SignedIn(t, c.as) /\ t \in Tabs
    BY <1>0, <1>2 DEF LoginAnswers, RegisterAnswers, SignIns, GoesOn
  <2>2. /\ path[t] = "login" /\ \A d \in calls' : d.tab = t => d.kind = "start"
    BY <2>1 DEF CallInv, CallsInPlace, InPlace, OneAtATime, Types, CallSet, Kinds, SignIns, Exchanges
  <2>3. /\ path' = [path EXCEPT ![t] = "dashboard"] /\ user' = [user EXCEPT ![t] = c.as]
        /\ token' = c.as /\ raced' = (IF c.as = token THEN raced ELSE raced \cup Tabs) \ {t}
    BY <2>1 DEF SignedIn, Persist, Goes
  <2>4. CallsInPlace' /\ OneAtATime'
    BY <2>1, <2>2, <2>3 DEF CallInv, Types, CallsInPlace, InPlace, OneAtATime, SignIns, Exchanges
  <2> QED
    BY <2>1, <2>2, <2>3, <2>4 DEF Safe, Keeps, Holds, Mounted, CallInv, Types
<1>3. CASE GoogleAnswers(c) \/ GoogleFails(c)
  <2>1. /\ calls' = calls \ {c} /\ c.kind = "google" /\ t \in Tabs
        /\ initializing' = initializing
    BY <1>0, <1>3 DEF GoogleAnswers, GoogleFails, GoesOn
  <2>2. path[t] = "oauth" /\ \A d \in calls' : d.tab # t
    BY <2>1 DEF CallInv, CallsInPlace, InPlace, OneAtATime, Types, CallSet, Kinds, SignIns, Exchanges
  <2>3. /\ \A s \in Tabs \ {t} : path'[s] = path[s] /\ user'[s] = user[s]
        /\ \A s \in Tabs \ {t} : s \in raced => s \in raced'
        /\ user'[t] \notin {token', None} => t \in raced'
        /\ token' # token => raced' = Tabs \ {t}
    BY <1>3, <2>1 DEF GoogleAnswers, GoogleFails, Clear, Persist, Goes, CallInv, Types
  <2>4. CallsInPlace' /\ OneAtATime'
    <3>1. CallsInPlace'
      BY <2>1, <2>2, <2>3 DEF CallInv, Types, CallSet, CallsInPlace, InPlace
    <3>2. OneAtATime'
      BY <2>1 DEF CallInv, OneAtATime
    <3> QED
      BY <3>1, <3>2
  <2> QED
    BY <2>1, <2>2, <2>3, <2>4 DEF Safe, Keeps, Holds, Mounted, CallInv, Types
<1>4. CASE LoginFails(c) \/ RegisterFails(c)
  <2>1. calls' = calls \ {c} /\ UNCHANGED <<path, user, initializing, token, raced>>
    BY <1>4 DEF LoginFails, RegisterFails, stored, tabVars
  <2>2. CallsInPlace' /\ OneAtATime'
    BY <2>1 DEF CallInv, CallsInPlace, InPlace, OneAtATime
  <2> QED
    BY <2>1, <2>2 DEF Safe, Keeps, Holds, Mounted
<1>5. CASE RegisterTimesOut(c)
  <2>1. /\ calls' = (calls \ {c}) \cup Unattended({c})
        /\ UNCHANGED <<path, user, initializing, token, raced>>
    BY <1>5 DEF RegisterTimesOut, stored, tabVars
  <2>2. \A d \in Unattended({c}) : d.tab = Nobody
    BY UnattendedCalls DEF CallInv
  <2>3. CallsInPlace' /\ OneAtATime'
    BY <2>1, <2>2 DEF CallInv, CallsInPlace, InPlace, OneAtATime
  <2> QED
    BY <2>1, <2>3 DEF Safe, Keeps, Holds, Mounted
<1>6. CASE RegisterLooksUp(c) \/ RegisterCreates(c) \/ GoogleUpserts(c)
  <2>1. PICK k \in Kinds :
           /\ calls' \subseteq (calls \ {c}) \cup {[c EXCEPT !.kind = k]}
           /\ {c.kind, k} \subseteq SignIns \/ {c.kind, k} \subseteq Exchanges
           /\ UNCHANGED <<path, user, initializing, token, raced>>
    <3>1. CASE RegisterLooksUp(c)
      BY <3>1 DEF RegisterLooksUp, stored, tabVars, Kinds, SignIns
    <3>2. CASE RegisterCreates(c)
      BY <3>2 DEF RegisterCreates, stored, tabVars, Kinds, SignIns
    <3>3. CASE GoogleUpserts(c)
      BY <3>3 DEF GoogleUpserts, stored, tabVars, Kinds, Exchanges
    <3> QED
      BY <1>6, <3>1, <3>2, <3>3
  <2> DEFINE h == [c EXCEPT !.kind = k]
  <2>2. h.tab = c.tab /\ h.kind = k
    BY OneCall DEF CallInv
  <2> HIDE DEF h
  <2>3. CallsInPlace'
    BY <2>1, <2>2 DEF CallInv, CallsInPlace, InPlace, SignIns, Exchanges, h
  <2>4. OneAtATime'
    <3>1. ASSUME NEW d \in calls', d = h, NEW f \in calls', f # h, f.tab = h.tab, f.tab # Nobody,
                 \/ f.kind = k \/ {f.kind, k} \subseteq SignIns \/ {f.kind, k} \subseteq Exchanges
          PROVE  FALSE
      <4>1. f \in calls /\ f # c /\ f.tab = c.tab
        BY <2>1, <2>2, <3>1 DEF h
      <4>2. {f.kind, c.kind} \subseteq SignIns \/ {f.kind, c.kind} \subseteq Exchanges
        BY <2>1, <3>1 DEF SignIns, Exchanges
      <4> QED
        BY <3>1, <4>1, <4>2 DEF CallInv, OneAtATime
    <3>2. \A d, f \in calls' : d # h /\ f # h => d \in calls /\ f \in calls
      BY <2>1 DEF h
    <3>3. SUFFICES ASSUME NEW d \in calls', NEW f \in calls', d.tab = f.tab, d.tab # Nobody,
                          \/ d.kind = f.kind \/ {d.kind, f.kind} \subseteq SignIns
                          \/ {d.kind, f.kind} \subseteq Exchanges
                   PROVE  d = f
      BY DEF OneAtATime
    <3>4. CASE d = h /\ f # h
      BY <2>2, <3>1, <3>3, <3>4
    <3>5. CASE f = h /\ d # h
      BY <2>2, <3>1, <3>3, <3>5
    <3>6. CASE d # h /\ f # h
      BY <3>2, <3>3, <3>6 DEF CallInv, OneAtATime
    <3> QED
      BY <3>4, <3>5, <3>6
  <2> QED
    BY <2>1, <2>3, <2>4 DEF Safe, Keeps, Holds, Mounted
<1>7. CASE GoogleReturns(c)
  <2> DEFINE g == Call(t, "google", c.as)
  <2>1. /\ calls' = (calls \ {c}) \cup {g} /\ c.kind = "redirect" /\ t \in Tabs
        /\ initializing' = initializing /\ token' = c.as
        /\ user' = [user EXCEPT ![t] = storedUser] /\ path' = [path EXCEPT ![t] = "oauth"]
        /\ raced' = (IF c.as = token THEN raced ELSE raced \cup Tabs) \ {t}
    BY <1>0, <1>7 DEF GoogleReturns, Goes, GoesOn
  <2>2. path[t] = "google" /\ \A d \in calls \ {c} : d.tab # t
    BY <2>1 DEF CallInv, CallsInPlace, InPlace, OneAtATime, Types, CallSet, Kinds, SignIns, Exchanges
  <2>3. g.tab = t /\ g.kind = "google"
    BY DEF Call
  <2> HIDE DEF g
  <2>4. CallsInPlace'
    BY <2>1, <2>2, <2>3 DEF CallInv, Types, CallsInPlace, InPlace, SignIns, Exchanges
  <2>5. OneAtATime'
    BY <2>1, <2>2, <2>3 DEF CallInv, OneAtATime
  <2> QED
    BY <2>1, <2>4, <2>5 DEF Safe, Keeps, Holds, Mounted, CallInv, Types
<1> QED
  BY <1>1, <1>2, <1>3, <1>4, <1>5, <1>6, <1>7

LEMMA SessionSafe ==
    ASSUME CallInv, [Next]_vars
    PROVE  Safe
<1>1. CASE MailStep \/ UNCHANGED vars
  <2>1. UNCHANGED <<path, user, initializing, token, raced, calls>>
    BY <1>1 DEF MailStep, MountMailbox, ChangeTab, Refetch, MailEnds, MailAnswers, MailFails,
                RunEffect, vars, authVars, server, stored, tabVars
  <2> QED
    BY <2>1 DEF Safe, Keeps, Holds, Mounted, CallInv, CallsInPlace, InPlace, OneAtATime
<1>2. CASE AuthStep
  BY <1>2, UserActSafe, AnswersSafe DEF AuthStep, CallEnds, ServerGoesOn
<1> QED
  BY <1>1, <1>2 DEF Next

LEMMA CallsAlways == Spec => []CallInv
<1>1. Init => CallInv
  BY TypesInit DEF CallInv, CallsInPlace, OneAtATime, Init, AuthInit
<1>2. CallInv /\ [Next]_vars => CallInv'
  BY TypesStep, SessionSafe DEF CallInv, Safe
<1> QED
  BY <1>1, <1>2, PTL DEF Spec

\* AuthProvider shows the user of the token its calls carry, unless another tab
\* or a late answer has changed the session since the page was loaded or its user
\* signed in.
THEOREM ShownIsTheTokens == Spec => []ShownIsTokens
<1>1. Init => ShownIsTokens
  BY DEF Init, AuthInit, ShownIsTokens, Mounted
<1>2. CallInv /\ ShownIsTokens /\ [Next]_vars => ShownIsTokens'
  BY SessionSafe DEF Safe, Holds, ShownIsTokens
<1> QED
  BY CallsAlways, <1>1, <1>2, PTL DEF Spec

----------------------------------------------------------------------------
(* Google *)

\* Sign-ins are numbered in the order they are started, one to a tab.  The cookie
\* holds the newest or none, and never one that has signed somebody in: the answer
\* that signed in took it.  So what passed the check of the state was new.
FlowsInOrder ==
    /\ stateCookie \in {0, flows} /\ stateCookie \notin served
    /\ \A n \in served : 1 <= n /\ n <= flows
    /\ \A t \in Tabs : flow[t] <= flows /\ (path[t] = "google" => flow[t] # 0)
    /\ \A s, t \in Tabs : flow[s] = flow[t] /\ flow[s] # 0 => s = t
    /\ \A c \in calls : c.tab # Nobody /\ c.kind \in Exchanges => flow[c.tab] \notin served

\* A step that starts no sign-in and ends none.
FlowsStay ==
    /\ UNCHANGED <<flow, flows, served>> /\ stateCookie' \in {0, stateCookie}
    /\ \A t \in Tabs : path'[t] = "google" => path[t] = "google" \/ flow[t] # 0
    /\ \A c \in calls' : c.tab # Nobody /\ c.kind \in Exchanges
                         => \E d \in calls : d.tab = c.tab /\ d.kind \in Exchanges

LEMMA LoadsStayAway ==
    ASSUME CallInv, NEW t \in Tabs, NEW page \in {"login", "dashboard"}, Load(t, page)
    PROVE  /\ \A s \in Tabs : path'[s] = "google" => path[s] = "google"
           /\ \A c \in calls' : c.tab # Nobody /\ c.kind \in Exchanges => c \in calls
<1>1. Call(t, "start", token).kind \notin Exchanges
  BY DEF Call, Exchanges
<1>2. \A c \in calls' : c \in Orphaned(t) \/ c = Call(t, "start", token)
  BY DEF Load
<1>3. \A s \in Tabs : path'[s] = "google" => path[s] = "google"
  BY DEF Load, Goes, CallInv, Types
<1> QED
  BY <1>1, <1>2, <1>3, OrphanedCalls DEF CallInv

LEMMA FlowsStayPut ==
    ASSUME CallInv, [Next]_vars
    PROVE  \/ FlowsStay
           \/ \E t \in Tabs : StartGoogle(t)
           \/ \E t \in Tabs, e \in Emails : CallbackArrives(t, e)
           \/ \E c \in calls : GoogleReturns(c)
<1>1. CASE MailStep \/ UNCHANGED vars
  BY <1>1 DEF MailStep, MountMailbox, ChangeTab, Refetch, MailEnds, MailAnswers, MailFails,
              RunEffect, vars, authVars, server, tabVars, FlowsStay
<1>2. ASSUME NEW t \in Tabs, Open(t) \/ GoogleRefused(t) PROVE FlowsStay
  <2>1. PICK page \in {"login", "dashboard"} : Load(t, page)
    BY <1>2 DEF Open, GoogleRefused
  <2> QED
    BY <1>2, <2>1, LoadsStayAway DEF Open, GoogleRefused, server, FlowsStay
<1>3. ASSUME NEW t \in Tabs, Logout(t) \/ BackToLogin(t) \/ Redirect(t) PROVE FlowsStay
  <2>1. calls' = calls /\ path' = [path EXCEPT ![t] = "login"]
    BY <1>3 DEF Logout, BackToLogin, Redirect, Goes
  <2> QED
    BY <1>3, <2>1 DEF Logout, BackToLogin, Redirect, server, FlowsStay, CallInv, Types
<1>4. ASSUME NEW t \in Tabs, BackToGoogle(t) PROVE FlowsStay
  <2>1. /\ flow[t] # 0 /\ path' = [path EXCEPT ![t] = "google"] /\ calls' = Orphaned(t)
        /\ UNCHANGED <<flow, flows, served, stateCookie>>
    BY <1>4 DEF BackToGoogle, ToGoogle, Goes
  <2>2. \A c \in calls' : c.tab # Nobody => c \in calls
    BY <2>1, OrphanedCalls DEF CallInv
  <2> QED
    BY <2>1, <2>2 DEF FlowsStay, CallInv, Types
<1>5. ASSUME NEW t \in Tabs, NEW e \in Emails, NEW k \in {"login", "register"}, SignIn(t, k, e)
      PROVE  FlowsStay
  <2>1. Call(t, k, e).kind \notin Exchanges
    BY DEF Call, Exchanges
  <2> QED
    BY <1>5, <2>1 DEF SignIn, server, tabVars, FlowsStay
<1>6. ASSUME NEW c \in calls,
             \/ StartAnswers(c) \/ StartFails(c) \/ LoginAnswers(c) \/ LoginFails(c)
             \/ GoogleAnswers(c) \/ GoogleFails(c) \/ RegisterAnswers(c) \/ RegisterFails(c)
      PROVE  FlowsStay
  <2>1. /\ calls' = calls \ {c} /\ UNCHANGED <<flow, flows, served, stateCookie>>
        /\ \/ path' = path
           \/ path' = [path EXCEPT ![c.tab] = "dashboard"]
    BY <1>6 DEF StartAnswers, StartFails, LoginAnswers, LoginFails, GoogleAnswers, GoogleFails,
                RegisterAnswers, RegisterFails, SignedIn, Goes, server, tabVars
  <2> QED
    BY <2>1 DEF FlowsStay, CallInv, Types
<1>7. ASSUME NEW c \in calls, RegisterTimesOut(c) PROVE FlowsStay
  <2>1. \A d \in calls' : d.tab # Nobody => d \in calls
    BY <1>7, UnattendedCalls DEF RegisterTimesOut, CallInv
  <2> QED
    BY <1>7, <2>1 DEF RegisterTimesOut, server, tabVars, FlowsStay
<1>8. ASSUME NEW c \in calls, RegisterLooksUp(c) \/ RegisterCreates(c) \/ GoogleUpserts(c)
      PROVE  FlowsStay
  <2>1. UNCHANGED <<flow, flows, served, stateCookie, path>>
    BY <1>8 DEF RegisterLooksUp, RegisterCreates, GoogleUpserts, server, tabVars
  <2>2. /\ [c EXCEPT !.kind = "hashing"].kind = "hashing" /\ [c EXCEPT !.kind = "created"].kind = "created"
        /\ [c EXCEPT !.kind = "redirect"].tab = c.tab
    BY OneCall DEF CallInv, Kinds
  <2> QED
    BY <1>8, <2>1, <2>2 DEF RegisterLooksUp, RegisterCreates, GoogleUpserts, FlowsStay, Exchanges
<1>9. CASE AuthStep
  BY <1>2, <1>3, <1>4, <1>5, <1>6, <1>7, <1>8, <1>9 DEF AuthStep, UserAct, CallEnds, ServerGoesOn
<1> QED
  BY <1>1, <1>9 DEF Next

LEMMA FlowsStep == CallInv /\ FlowsInOrder /\ [Next]_vars => FlowsInOrder'
<1> SUFFICES ASSUME CallInv, FlowsInOrder, [Next]_vars PROVE FlowsInOrder'
  OBVIOUS
<1>0. /\ stateCookie \in Nat /\ flows \in Nat /\ flow \in [Tabs -> Nat] /\ path \in [Tabs -> Paths]
      /\ \A c \in calls : c.tab \in Tabs \cup {Nobody}
  BY DEF CallInv, Types, CallSet
<1>1. ASSUME NEW t \in Tabs, StartGoogle(t) PROVE FlowsInOrder'
  <2>1. /\ flows' = flows + 1 /\ stateCookie' = flows + 1 /\ served' = served
        /\ flow' = [flow EXCEPT ![t] = flows + 1] /\ path' = [path EXCEPT ![t] = "google"]
        /\ calls' = Orphaned(t)
    BY <1>1 DEF StartGoogle, ToGoogle, Goes
  <2>2. \A c \in calls' : c.tab # Nobody => c \in calls /\ c.tab # t /\ c.tab \in Tabs
    BY <1>0, <2>1, OrphanedCalls DEF CallInv
  <2>3. flow'[t] = flows + 1 /\ \A s \in Tabs \ {t} : flow'[s] = flow[s] /\ path'[s] = path[s]
    BY <1>0, <2>1
  <2>4. /\ \A n \in served' : 1 <= n /\ n <= flows'
        /\ stateCookie' \in {0, flows'} /\ stateCookie' \notin served'
    BY <1>0, <2>1 DEF FlowsInOrder, CallInv, Types
  <2>5. \A s \in Tabs : flow'[s] <= flows' /\ (path'[s] = "google" => flow'[s] # 0)
    BY <1>0, <2>1, <2>3 DEF FlowsInOrder
  <2>6. \A r, s \in Tabs : flow'[r] = flow'[s] /\ flow'[r] # 0 => r = s
    BY <1>0, <2>1, <2>3 DEF FlowsInOrder
  <2>7. \A c \in calls' : c.tab # Nobody /\ c.kind \in Exchanges => flow'[c.tab] \notin served'
    BY <2>1, <2>2, <2>3 DEF FlowsInOrder
  <2> QED
    BY <2>4, <2>5, <2>6, <2>7 DEF FlowsInOrder
<1>2. ASSUME NEW t \in Tabs, NEW e \in Emails, CallbackArrives(t, e) PROVE FlowsInOrder'
  <2>1. /\ calls' = Orphaned(t) \cup {Call(t, "exchange", e)} /\ path[t] = "google"
        /\ stateCookie = flow[t] /\ UNCHANGED <<flow, flows, served, stateCookie, path>>
    BY <1>2 DEF CallbackArrives, StateMatches, server, tabVars
  <2>2. \A c \in calls' : c.tab # Nobody => c \in calls \/ c.tab = t
    BY <2>1, OrphanedCalls DEF CallInv, Call
  <2> QED
    BY <1>0, <2>1, <2>2 DEF FlowsInOrder
<1>3. ASSUME NEW c \in calls, GoogleReturns(c) PROVE FlowsInOrder'
  <2>1. /\ calls' = (calls \ {c}) \cup {Call(c.tab, "google", c.as)} /\ c.kind = "redirect"
        /\ stateCookie' = 0 /\ served' = served \cup {flow[c.tab]} /\ UNCHANGED <<flow, flows>>
        /\ path' = [path EXCEPT ![c.tab] = "oauth"]
    BY <1>3 DEF GoogleReturns, Goes
  <2>2. c.tab \in Tabs /\ path[c.tab] = "google"
    <3>1. c.tab \in Tabs \cup {Nobody} /\ (c.kind \notin GoesOn => c.tab \in Tabs)
      BY OneCall DEF CallInv, Kinds
    <3>2. c.tab \in Tabs
      BY <2>1, <3>1 DEF GoesOn
    <3> QED
      BY <2>1, <3>2, SessionAssumption DEF CallInv, CallsInPlace, InPlace, Exchanges
  <2>3. ASSUME NEW d \in calls', d.tab # Nobody, d.kind \in Exchanges
        PROVE  d \in calls /\ d.tab \in Tabs /\ d.tab # c.tab
    <3>1. d \in calls /\ d # c
      BY <2>1, <2>3 DEF Call, Exchanges
    <3> QED
      BY <1>0, <2>1, <2>3, <3>1 DEF CallInv, OneAtATime, Exchanges
  <2> QED
    BY <1>0, <2>1, <2>2, <2>3 DEF FlowsInOrder
<1>4. CASE FlowsStay
  BY <1>0, <1>4 DEF FlowsStay, FlowsInOrder
<1> QED
  BY <1>1, <1>2, <1>3, <1>4, FlowsStayPut

LEMMA FlowsAlways == Spec => []FlowsInOrder
<1>1. Init => FlowsInOrder
  BY DEF Init, AuthInit, FlowsInOrder
<1> QED
  BY CallsAlways, FlowsStep, <1>1, PTL DEF Spec

\* GET /auth/google/callback signs somebody in only for the sign-in that the browser
\* had started last when it checked the state, and once for each: its answer takes
\* the cookie, and a callback requested anew replaces the one before it.
THEOREM CallbackIsNewest == Spec => CallbackOnce
<1>1. CallInv /\ FlowsInOrder /\ [Next]_vars
      => [/\ \A t \in Tabs, e \in Emails : CallbackArrives(t, e) => flow[t] = flows
          /\ \A c \in calls : GoogleReturns(c) => flow[c.tab] \notin served]_vars
  <2> SUFFICES ASSUME CallInv, FlowsInOrder
               PROVE  /\ \A t \in Tabs, e \in Emails : CallbackArrives(t, e) => flow[t] = flows
                      /\ \A c \in calls : GoogleReturns(c) => flow[c.tab] \notin served
    OBVIOUS
  <2>1. ASSUME NEW t \in Tabs, NEW e \in Emails, CallbackArrives(t, e) PROVE flow[t] = flows
    BY <2>1 DEF CallbackArrives, StateMatches, FlowsInOrder
  <2>2. ASSUME NEW c \in calls, GoogleReturns(c) PROVE flow[c.tab] \notin served
    <3>1. c.kind = "redirect" /\ c.tab # Nobody
      <4>1. c.kind \notin GoesOn => c.tab \in Tabs
        BY OneCall DEF CallInv, Kinds
      <4> QED
        BY <2>2, <4>1, SessionAssumption DEF GoogleReturns, GoesOn
    <3> QED
      BY <3>1 DEF FlowsInOrder, Exchanges
  <2> QED
    BY <2>1, <2>2
<1> QED
  BY CallsAlways, FlowsAlways, <1>1, PTL DEF Spec, CallbackOnce

----------------------------------------------------------------------------
(* What a mailbox shows *)

AnyPage == {NoPage} \cup [box : Boxes, by : Nat, as : Identities]
Shown == [box : Boxes, effect : Nat, page : AnyPage, loading : BOOLEAN, error : BOOLEAN]
MailTypes ==
    /\ mailbox \in [Tabs -> Shown]
    /\ fetched \in [Tabs -> Nat]
    /\ fetches \in SUBSET [tab : Tabs, box : Boxes, by : Nat \ {0}, as : Identities]

\* A fetch that may still change the mailbox was made for its box by the user
\* that is shown.
Current(f) ==
    Active(f) => /\ f.box = mailbox[f.tab].box
                 /\ f.tab \notin raced => f.as = user[f.tab]

\* Effects are numbered in order, a page that is not there has none, and what is
\* under way is current or ignored.
MailInv ==
    /\ MailTypes
    /\ \A t \in Tabs : ~Mounted(t) => mailbox[t] = Fresh
    /\ \A t \in Tabs : mailbox[t].effect <= fetched[t]
    /\ \A f \in fetches : f.by <= fetched[f.tab] /\ Current(f)

LEMMA MailInitially == Init => MailInv /\ MailIsOfTheBox
  BY DEF Init, AuthInit, MailInit, MailInv, MailTypes, MailIsOfTheBox, Displayed, Mounted, Current,
         Fresh, Shown, AnyPage, NoPage, Boxes

LEMMA EffectTypes ==
    ASSUME NEW old \in Shown, NEW box \in Boxes, NEW n \in Nat
    PROVE  [old EXCEPT !.box = box, !.effect = n, !.loading = TRUE, !.error = FALSE] \in Shown
  BY DEF Shown

\* A new effect makes the fetches of its tab so far ignored ones.
LEMMA EffectKeeps ==
    ASSUME CallInv, ShownIsTokens, MailInv, MailIsOfTheBox,
           NEW t \in Tabs, Mounted(t), NEW box \in Boxes, RunEffect(t, box)
    PROVE  MailInv' /\ MailIsOfTheBox'
<1> DEFINE new(e) == [tab |-> t, box |-> box, by |-> fetched'[t], as |-> e]
<1>1. /\ \A s \in Tabs : Mounted(s)' = Mounted(s)
      /\ UNCHANGED <<user, raced, token>>
  BY DEF RunEffect, Mounted, tabVars, stored
<1>2. /\ fetched' = [fetched EXCEPT ![t] = fetched[t] + 1]
      /\ fetched'[t] = fetched[t] + 1 /\ fetched[t] \in Nat
      /\ \A s \in Tabs \ {t} : fetched'[s] = fetched[s] /\ mailbox'[s] = mailbox[s]
      /\ mailbox'[t].box = box /\ mailbox'[t].effect = fetched[t] + 1 /\ mailbox'[t].loading = TRUE
  BY DEF RunEffect, MailInv, MailTypes
<1>3. PICK e \in Presented : fetches' = fetches \cup {new(e)}
  BY DEF RunEffect
<1>4. e \in Identities /\ (t \notin raced => e = user[t])
  BY <1>3 DEF Presented, CallInv, Types, Identities, ShownIsTokens, Mounted
<1>5. MailTypes'
  <2>1. new(e) \in [tab : Tabs, box : Boxes, by : Nat \ {0}, as : Identities]
    BY <1>2, <1>4
  <2>2. mailbox' \in [Tabs -> Shown]
    <3> DEFINE old == mailbox[t]
               more == [old EXCEPT !.box = box, !.effect = fetched[t] + 1,
                                   !.loading = TRUE, !.error = FALSE]
    <3>1. mailbox' = [mailbox EXCEPT ![t] = more]
      BY <1>2 DEF RunEffect
    <3>2. old \in Shown /\ fetched[t] + 1 \in Nat
      BY <1>2 DEF MailInv, MailTypes
    <3>3. more \in Shown
      BY <3>2, EffectTypes, Zenon
    <3> HIDE DEF more
    <3> QED
      BY <3>1, <3>3 DEF MailInv, MailTypes
  <2> QED
    BY <1>2, <1>3, <2>1, <2>2 DEF MailInv, MailTypes
<1>6. ASSUME NEW f \in fetches' PROVE f.by <= fetched'[f.tab] /\ Current(f)'
  <2>1. CASE f = new(e)
    BY <1>1, <1>2, <1>4, <2>1 DEF Current, Active
  <2>2. CASE f \in fetches /\ f.tab = t
    BY <1>2, <2>2 DEF MailInv, MailTypes, Current, Active
  <2>3. CASE f \in fetches /\ f.tab # t
    <3>1. f.tab \in Tabs /\ f.by <= fetched[f.tab] /\ Current(f)
      BY <2>3 DEF MailInv, MailTypes
    <3> QED
      BY <1>1, <1>2, <2>3, <3>1 DEF Current, Active
  <2> QED
    BY <1>3, <2>1, <2>2, <2>3
<1>7. \A s \in Tabs : /\ ~Mounted(s)' => mailbox'[s] = Fresh
                      /\ mailbox'[s].effect <= fetched'[s]
  BY <1>1, <1>2 DEF MailInv
<1>8. MailIsOfTheBox'
  BY <1>1, <1>2 DEF MailIsOfTheBox, Displayed
<1> QED
  BY <1>5, <1>6, <1>7, <1>8 DEF MailInv

LEMMA FetchKeeps ==
    ASSUME MailInv, MailIsOfTheBox, NEW f \in fetches, MailAnswers(f) \/ MailFails(f)
    PROVE  MailInv' /\ MailIsOfTheBox'
<1> DEFINE t == f.tab
<1>1. /\ t \in Tabs /\ f.box \in Boxes /\ f.by \in Nat /\ f.as \in Identities /\ Current(f)
      /\ mailbox[t] \in Shown
  BY DEF MailInv, MailTypes
<1>2. /\ \A s \in Tabs : Mounted(s)' = Mounted(s)
      /\ UNCHANGED <<user, raced, fetched>> /\ fetches' = fetches \ {f}
  BY DEF MailAnswers, MailFails, Mounted, authVars, tabVars
<1>3. CASE mailbox' = mailbox
  <2>1. \A g \in fetches : Current(g)' = Current(g)
    BY <1>2, <1>3 DEF Current, Active, MailInv, MailTypes
  <2> QED
    BY <1>2, <1>3, <2>1 DEF MailInv, MailTypes, MailIsOfTheBox, Displayed
<1>4. CASE Active(f) /\ mailbox' # mailbox
  <2>1. /\ mailbox'[t].box = mailbox[t].box /\ mailbox'[t].effect = mailbox[t].effect
        /\ mailbox' = [mailbox EXCEPT ![t] = mailbox'[t]]
        /\ mailbox'[t] \in Shown
        /\ \/ mailbox'[t].error = TRUE
           \/ mailbox'[t].page = [box |-> f.box, by |-> f.by, as |-> f.as]
    <3> DEFINE old == mailbox[t]
               got == [box |-> f.box, by |-> f.by, as |-> f.as]
               good == [old EXCEPT !.page = got, !.loading = FALSE]
               bad == [old EXCEPT !.error = TRUE, !.loading = FALSE]
    <3>1. got \in AnyPage
      BY <1>1 DEF AnyPage
    <3>2. /\ good \in Shown /\ good.box = old.box /\ good.effect = old.effect /\ good.page = got
          /\ bad \in Shown /\ bad.box = old.box /\ bad.effect = old.effect /\ bad.error = TRUE
      BY <1>1, <3>1 DEF Shown
    <3>3. \/ mailbox' = [mailbox EXCEPT ![t] = good]
          \/ mailbox' = [mailbox EXCEPT ![t] = bad]
      BY <1>4 DEF MailAnswers, MailFails
    <3> HIDE DEF got, good, bad
    <3>4. mailbox'[t] \in {good, bad} /\ mailbox' = [mailbox EXCEPT ![t] = mailbox'[t]]
      BY <1>1, <3>3 DEF MailInv, MailTypes
    <3>5. mailbox'[t].error = TRUE \/ mailbox'[t].page = got
      BY <3>2, <3>4
    <3> QED
      BY <3>2, <3>4, <3>5 DEF got
  <2>2. \A s \in Tabs \ {t} : mailbox'[s] = mailbox[s]
    BY <2>1 DEF MailInv, MailTypes
  <2>3. MailTypes'
    BY <1>1, <1>2, <2>1 DEF MailInv, MailTypes
  <2>4. \A g \in fetches' : g.by <= fetched'[g.tab] /\ Current(g)'
    <3> SUFFICES ASSUME NEW g \in fetches' PROVE g.by <= fetched'[g.tab] /\ Current(g)'
      OBVIOUS
    <3>1. g.tab \in Tabs /\ g.by <= fetched[g.tab] /\ Current(g)
      BY <1>2 DEF MailInv, MailTypes
    <3>2. mailbox'[g.tab].box = mailbox[g.tab].box /\ mailbox'[g.tab].effect = mailbox[g.tab].effect
      BY <2>1, <2>2, <3>1
    <3> QED
      BY <1>2, <3>1, <3>2 DEF Current, Active
  <2>5. \A s \in Tabs : /\ ~Mounted(s)' => mailbox'[s] = Fresh
                        /\ mailbox'[s].effect <= fetched'[s]
    BY <1>1, <1>2, <1>4, <2>1, <2>2 DEF MailInv, MailTypes, Active, Shown
  <2>6. ASSUME NEW s \in Tabs, Displayed(s)'
        PROVE  /\ mailbox'[s].page.box = mailbox'[s].box
               /\ mailbox'[s].page.by = mailbox'[s].effect
               /\ s \notin raced' => mailbox'[s].page.as = user'[s]
    <3>1. CASE s = t
      BY <1>1, <1>2, <1>4, <2>1, <2>6, <3>1 DEF Displayed, Current, Active
    <3>2. CASE s # t
      BY <1>2, <2>2, <2>6, <3>2 DEF Displayed, MailIsOfTheBox
    <3> QED
      BY <3>1, <3>2
  <2> QED
    BY <2>3, <2>4, <2>5, <2>6 DEF MailInv, MailIsOfTheBox
<1> QED
  BY <1>3, <1>4 DEF MailAnswers, MailFails

\* A step of the session leaves a page its mailbox only if it stays mounted.
LEMMA SessionKeeps ==
    ASSUME MailInv, MailIsOfTheBox, Safe, Remount
    PROVE  MailInv' /\ MailIsOfTheBox'
<1>1. /\ fetches' = fetches /\ fetched' = fetched
      /\ \A t \in Tabs : mailbox'[t] = IF Mounted(t)' THEN mailbox[t] ELSE Fresh
      /\ mailbox' \in [Tabs -> Shown]
  BY DEF Remount, MailInv, MailTypes, Shown, Fresh, AnyPage, Boxes
<1>2. Fresh.effect = 0 /\ Fresh.loading = TRUE
  BY DEF Fresh
<1>3. ASSUME NEW t \in Tabs, Mounted(t)', mailbox'[t] # Fresh
      PROVE  /\ Mounted(t) /\ mailbox'[t] = mailbox[t]
             /\ t \notin raced' => t \notin raced /\ user'[t] = user[t]
  BY <1>1, <1>3 DEF MailInv, Safe, Keeps
<1>4. ASSUME NEW f \in fetches' PROVE f.by <= fetched'[f.tab] /\ Current(f)'
  <2>1. f.tab \in Tabs /\ f.by # 0 /\ f.by <= fetched[f.tab] /\ Current(f)
    BY <1>1 DEF MailInv, MailTypes
  <2>2. ASSUME Active(f)' PROVE Active(f) /\ mailbox'[f.tab] = mailbox[f.tab] /\ mailbox'[f.tab] # Fresh
    BY <1>2, <1>3, <2>1, <2>2 DEF Active
  <2> QED
    BY <1>1, <1>3, <2>1, <2>2 DEF Current, Active
<1>5. \A t \in Tabs : /\ ~Mounted(t)' => mailbox'[t] = Fresh
                      /\ mailbox'[t].effect <= fetched'[t]
  BY <1>1, <1>2 DEF MailInv, MailTypes, Shown
<1>6. MailIsOfTheBox'
  BY <1>2, <1>3 DEF MailIsOfTheBox, Displayed
<1> QED
  BY <1>1, <1>4, <1>5, <1>6 DEF MailInv, MailTypes

LEMMA MailStepKeeps ==
    CallInv /\ ShownIsTokens /\ MailInv /\ MailIsOfTheBox /\ [Next]_vars
    => MailInv' /\ MailIsOfTheBox'
<1> SUFFICES ASSUME CallInv, ShownIsTokens, MailInv, MailIsOfTheBox, [Next]_vars
             PROVE  MailInv' /\ MailIsOfTheBox'
  OBVIOUS
<1>1. CASE AuthStep /\ Remount
  BY <1>1, SessionSafe, SessionKeeps
<1>2. CASE MailStep
  <2>1. ASSUME NEW t \in Tabs, MountMailbox(t) \/ ChangeTab(t) \/ Refetch(t)
        PROVE  MailInv' /\ MailIsOfTheBox'
    <3>1. mailbox[t].box \in Boxes /\ "scheduled" \in Boxes
      BY DEF MailInv, MailTypes, Shown, Boxes
    <3>2. PICK box \in Boxes : Mounted(t) /\ RunEffect(t, box)
      BY <2>1, <3>1 DEF MountMailbox, ChangeTab, Refetch
    <3> QED
      BY <3>2, EffectKeeps
  <2>2. ASSUME NEW f \in fetches, MailAnswers(f) \/ MailFails(f)
        PROVE  MailInv' /\ MailIsOfTheBox'
    BY <2>2, FetchKeeps
  <2> QED
    BY <1>2, <2>1, <2>2 DEF MailStep, MailEnds
<1>3. CASE UNCHANGED vars
  BY <1>3 DEF vars, mailVars, authVars, tabVars, MailInv, MailTypes, MailIsOfTheBox, Displayed,
              Mounted, Current, Active
<1> QED
  BY <1>1, <1>2, <1>3 DEF Next

LEMMA MailAlways == Spec => [](MailInv /\ MailIsOfTheBox)
BY MailInitially, MailStepKeeps, CallsAlways, ShownIsTheTokens, PTL DEF Spec

\* useMailbox shows, in every page that is mounted, the answer to its own newest
\* question about the box that is chosen, asked as the user that is shown.
THEOREM MailIsTheUsers == Spec => []MailIsOfTheBox
BY MailAlways, PTL

----------------------------------------------------------------------------
(* What a tab waits for *)

\* Something is going on that will change what tab t shows: one of its calls, the
\* answer to its newest effect, or an effect that React has yet to run.
UnderWay(t) ==
    \/ Pending(t, Kinds) # {}
    \/ \E f \in fetches : f.tab = t /\ Active(f)
    \/ path[t] = "dashboard" /\ ~initializing[t] /\ (user[t] = None \/ mailbox[t].effect = 0)

\* No page keeps its user waiting for nothing: none is left in "Loading" by an
\* answer that was dropped or by a page that was left.
NobodyWaitsInVain == \A t \in Tabs : Waits(t) => UnderWay(t)

\* The validation of a page that is initializing, and the newest effect of a
\* mailbox that loads, are under way.
Validated(t) == initializing[t] => \E c \in calls : c.tab = t /\ c.kind = "start"
Loaded(t) ==
    Mounted(t) /\ mailbox[t].loading /\ mailbox[t].effect # 0
    => \E f \in fetches : f.tab = t /\ f.by = mailbox[t].effect
Attended == \A t \in Tabs : Validated(t) /\ Loaded(t)

\* What a session step that is no page load leaves to a tab: its validation, until
\* it has come to its end.
LEMMA StartStays ==
    ASSUME Types, NEW t \in Tabs, Validated(t),
           initializing'[t] => /\ initializing[t]
                               /\ \A c \in calls : c.tab = t /\ c.kind = "start" => c \in calls'
    PROVE  Validated(t)'
  BY DEF Validated

LEMMA LoadAttends ==
    ASSUME Types, NEW t \in Tabs, NEW page \in {"login", "dashboard"}, Load(t, page),
           \A s \in Tabs : Validated(s)
    PROVE  \A s \in Tabs : Validated(s)'
<1>1. CASE token = None
  BY <1>1 DEF Load, Types, Validated, Orphaned
<1>2. CASE token # None
  <2>1. Call(t, "start", token) \in calls'
    BY <1>2 DEF Load
  <2>2. Validated(t)'
    BY <2>1 DEF Call, Validated
  <2>3. \A s \in Tabs \ {t} : Validated(s)'
    BY <1>2 DEF Load, Types, Validated, Orphaned
  <2> QED
    BY <2>2, <2>3
<1> QED
  BY <1>1, <1>2

LEMMA SessionAttends ==
    ASSUME CallInv, Attended, AuthStep
    PROVE  \A s \in Tabs : Validated(s)'
<1>0. Types /\ \A s \in Tabs : Validated(s)
  BY DEF CallInv, Attended
<1>1. ASSUME NEW t \in Tabs, Open(t) \/ GoogleRefused(t) PROVE \A s \in Tabs : Validated(s)'
  BY <1>0, <1>1, LoadAttends DEF Open, GoogleRefused
<1>2. ASSUME NEW t \in Tabs, StartGoogle(t) \/ BackToGoogle(t) PROVE \A s \in Tabs : Validated(s)'
  BY <1>0, <1>2 DEF StartGoogle, BackToGoogle, ToGoogle, Types, Validated, Orphaned
<1>3. ASSUME NEW t \in Tabs, Logout(t) \/ BackToLogin(t) \/ Redirect(t)
             \/ \E e \in Emails : SignIn(t, "login", e) \/ SignIn(t, "register", e)
      PROVE  \A s \in Tabs : Validated(s)'
  BY <1>0, <1>3, StartStays DEF Logout, BackToLogin, Redirect, SignIn, tabVars
<1>6. ASSUME NEW t \in Tabs, NEW e \in Emails, CallbackArrives(t, e)
      PROVE  \A s \in Tabs : Validated(s)'
  <2>1. /\ initializing' = initializing /\ path[t] = "google"
        /\ \A d \in calls : d.tab # t => d \in calls'
    BY <1>6 DEF CallbackArrives, Orphaned, tabVars
  <2>2. \A d \in calls : d.kind = "start" => d.tab # t
    BY <2>1, SessionAssumption DEF CallInv, CallsInPlace, InPlace
  <2> QED
    BY <1>0, <2>1, <2>2, StartStays
<1>4. ASSUME NEW c \in calls, c.tab \in Tabs,
             StartAnswers(c) \/ StartFails(c)
      PROVE  \A s \in Tabs : Validated(s)'
  BY <1>0, <1>4, StartStays DEF StartAnswers, StartFails, Types
<1>5. ASSUME NEW c \in calls,
             \/ LoginAnswers(c) \/ GoogleAnswers(c) \/ LoginFails(c) \/ GoogleFails(c)
             \/ RegisterAnswers(c) \/ RegisterTimesOut(c) \/ RegisterLooksUp(c) \/ RegisterCreates(c)
             \/ RegisterFails(c) \/ GoogleUpserts(c) \/ GoogleReturns(c)
      PROVE  \A s \in Tabs : Validated(s)'
  <2>1. initializing' = initializing /\ \A d \in calls : d.kind = "start" => d \in calls'
    BY <1>5 DEF LoginAnswers, GoogleAnswers, LoginFails, GoogleFails, RegisterAnswers, RegisterTimesOut,
                RegisterLooksUp, RegisterCreates, RegisterFails, GoogleUpserts, GoogleReturns, tabVars
  <2> QED
    BY <1>0, <2>1, StartStays
<1> QED
  BY <1>1, <1>2, <1>3, <1>4, <1>5, <1>6 DEF AuthStep, ServerGoesOn, UserAct, CallEnds

LEMMA AttendedStep == CallInv /\ MailInv /\ Attended /\ [Next]_vars => Attended'
<1> SUFFICES ASSUME CallInv, MailInv, Attended, [Next]_vars PROVE Attended'
  OBVIOUS
<1>1. CASE AuthStep /\ Remount
  <2>1. ASSUME NEW t \in Tabs PROVE Loaded(t)'
    <3> SUFFICES ASSUME Mounted(t)', mailbox'[t].loading, mailbox'[t].effect # 0
                 PROVE  \E f \in fetches' : f.tab = t /\ f.by = mailbox'[t].effect
      BY DEF Loaded
    <3>1. mailbox'[t] = mailbox[t] /\ fetches' = fetches
      BY <1>1 DEF Remount
    <3>2. Mounted(t)
      BY <3>1 DEF MailInv, Fresh
    <3> QED
      BY <3>1, <3>2 DEF Attended, Loaded
  <2> QED
    BY <1>1, <2>1, SessionAttends DEF Attended
<1>2. ASSUME NEW t \in Tabs, NEW box, RunEffect(t, box) PROVE Attended'
  <2>1. /\ initializing' = initializing /\ calls' = calls /\ fetches \subseteq fetches'
        /\ \A s \in Tabs : Mounted(s)' = Mounted(s)
        /\ \A s \in Tabs \ {t} : mailbox'[s] = mailbox[s]
        /\ mailbox'[t].effect = fetched'[t]
    BY <1>2 DEF RunEffect, tabVars, Mounted, MailInv, MailTypes, Shown
  <2>2. \E f \in fetches' : f.tab = t /\ f.by = fetched'[t]
    <3>1. PICK e : [tab |-> t, box |-> box, by |-> fetched'[t], as |-> e] \in fetches'
      BY <1>2 DEF RunEffect, Presented
    <3> QED
      BY <3>1
  <2>3. \A s \in Tabs : Validated(s)'
    BY <2>1 DEF Attended, Validated
  <2>4. \A s \in Tabs : Loaded(s)'
    BY <2>1, <2>2 DEF Attended, Loaded
  <2> QED
    BY <2>3, <2>4 DEF Attended
<1>3. ASSUME NEW f \in fetches, MailAnswers(f) \/ MailFails(f) PROVE Attended'
  <2>1. /\ initializing' = initializing /\ calls' = calls /\ fetches' = fetches \ {f}
        /\ f.tab \in Tabs
        /\ \A s \in Tabs : Mounted(s)' = Mounted(s)
        /\ \A s \in Tabs \ {f.tab} : mailbox'[s] = mailbox[s]
    BY <1>3 DEF MailAnswers, MailFails, authVars, tabVars, Mounted, MailInv, MailTypes
  <2>2. CASE Active(f)
    <3>1. mailbox'[f.tab].loading = FALSE
      BY <1>3, <2>1, <2>2 DEF MailAnswers, MailFails, MailInv, MailTypes, Shown
    <3> QED
      BY <2>1, <3>1 DEF Attended, Validated, Loaded
  <2>3. CASE ~Active(f)
    <3>1. mailbox' = mailbox
      BY <1>3, <2>3 DEF MailAnswers, MailFails
    <3> QED
      BY <2>1, <2>3, <3>1 DEF Attended, Validated, Loaded, Active
  <2> QED
    BY <2>2, <2>3
<1>4. CASE MailStep
  BY <1>2, <1>3, <1>4 DEF MailStep, MountMailbox, ChangeTab, Refetch, MailEnds
<1>5. CASE UNCHANGED vars
  BY <1>5 DEF vars, authVars, mailVars, tabVars, Attended, Validated, Loaded, Mounted
<1> QED
  BY <1>1, <1>4, <1>5 DEF Next

\* The finally blocks of AuthContext.tsx and useMailbox.ts, and the effects that are
\* replaced or lose their page: whatever a tab keeps its user waiting with, what
\* ends it is still under way.  With the bound on effects and events this is why the
\* waiting can end; that it does is WaitingEnds, which needs fairness.
THEOREM WaitingIsForSomething == Spec => []NobodyWaitsInVain
<1>1. Init => Attended
  BY DEF Init, AuthInit, MailInit, Attended, Validated, Loaded, Fresh
<1>2. Types /\ Attended => NobodyWaitsInVain
  <2> SUFFICES ASSUME Types, Attended, NEW t \in Tabs, Waits(t) PROVE UnderWay(t)
    BY DEF NobodyWaitsInVain
  <2>1. CASE initializing[t]
    BY <2>1 DEF Attended, Validated, UnderWay, Pending, Kinds
  <2>2. CASE Busy(t)
    BY <2>2 DEF Busy, UnderWay, Pending, Kinds
  <2>3. CASE Mounted(t) /\ mailbox[t].loading
    BY <2>3 DEF Attended, Loaded, UnderWay, Mounted, Active
  <2>4. CASE path[t] = "dashboard" /\ user[t] = None
    BY <2>1, <2>4 DEF UnderWay
  <2>5. CASE path[t] = "oauth" /\ Pending(t, {"google"}) # {}
    BY <2>5 DEF UnderWay, Pending, Kinds
  <2> QED
    BY <2>1, <2>2, <2>3, <2>4, <2>5 DEF Waits
<1> QED
  BY <1>1, <1>2, AttendedStep, TypesAlways, CallsAlways, MailAlways, PTL DEF Spec

----------------------------------------------------------------------------
(* How often the effect of a mailbox runs *)

Ind(b) == IF b THEN 1 ELSE 0
Has(t, kinds) == \E c \in calls : c.tab = t /\ c.kind \in kinds

\* The effects that tab t may yet run without another act of the user: what is
\* under way and may end with a new mailbox, and a mailbox that is new.
Owed(t) ==
    Ind(Has(t, {"start"})) + Ind(Has(t, SignIns)) + Ind(Has(t, {"google"}))
    + Ind(path[t] = "google") + Ind(Mounted(t) /\ mailbox[t].effect = 0)

LEMMA IndType == \A b : Ind(b) \in {0, 1}
BY DEF Ind

\* Of a tab that a step does not touch, or of which it only ends calls.
LEMMA OthersOwe ==
    ASSUME CallInv, MailInv, Remount, NEW s \in Tabs,
           path'[s] = path[s] \/ (path'[s] = "login" /\ ~Mounted(s)'),
           Mounted(s)' => Mounted(s),
           \A c \in calls' : c.tab = s => \E d \in calls : d.tab = s /\ d.kind = c.kind
    PROVE  Owed(s)' <= Owed(s)
<1>1. \A kinds : Has(s, kinds)' => Has(s, kinds)
  BY DEF Has
<1>2. path'[s] = "google" => path[s] = "google"
  OBVIOUS
<1>3. (Mounted(s) /\ mailbox[s].effect = 0)' => Mounted(s) /\ mailbox[s].effect = 0
  BY DEF Remount
<1> QED
  BY <1>1, <1>2, <1>3 DEF Owed, Ind

\* A step of tab t leaves to the others their pages and calls.
LEMMA OfOthers ==
    ASSUME CallInv, MailInv, Remount, NEW t \in Tabs, OthersKeep(t),
           \A c \in calls' : c.tab \notin {t, Nobody} => c \in calls
    PROVE  \A s \in Tabs \ {t} : Owed(s)' <= Owed(s)
<1> TAKE s \in Tabs \ {t}
<1>1. path'[s] = path[s] /\ Mounted(s)' = Mounted(s)
  BY DEF OthersKeep, Mounted
<1>2. \A c \in calls' : c.tab = s => c \in calls
  BY SessionAssumption
<1> QED
  BY <1>1, <1>2, OthersOwe

\* What the tab itself has after a page was loaded.
LEMMA LoadOwes ==
    ASSUME CallInv, MailInv, Remount, NEW t \in Tabs, NEW page \in {"login", "dashboard"}, Load(t, page)
    PROVE  /\ \A s \in Tabs \ {t} : Owed(s)' <= Owed(s)
           /\ Owed(t)' <= 1
<1>1. ~Mounted(t)' /\ OthersKeep(t) /\ path'[t] = page
  BY LoadKeeps DEF Load, Goes, CallInv, Types
<1>2. \A c \in calls' : c \in Orphaned(t) \/ c = Call(t, "start", token)
  BY DEF Load
<1>3. Call(t, "start", token).tab = t /\ Call(t, "start", token).kind = "start"
  BY DEF Call
<1>4. \A c \in calls' : /\ c.tab \notin {t, Nobody} => c \in calls
                        /\ c.tab = t => c.kind = "start"
  BY <1>2, <1>3, OrphanedCalls DEF CallInv
<1>5. \A s \in Tabs \ {t} : Owed(s)' <= Owed(s)
  BY <1>1, <1>4, OfOthers
<1>6. ~Has(t, SignIns)' /\ ~Has(t, {"google"})'
  BY <1>4 DEF Has, SignIns
<1>7. path'[t] # "google"
  BY <1>1
<1>8. Owed(t)' = Ind(Has(t, {"start"}))'
  BY <1>1, <1>6, <1>7 DEF Owed, Ind
<1> QED
  BY <1>5, <1>8 DEF Ind

\* A thing the user does adds at most one effect, and what follows of it adds none.
LEMMA ActOwes ==
    ASSUME CallInv, MailInv, Remount, events \in Nat, NEW t \in Tabs, UserAct(t) \/ Redirect(t)
    PROVE  events' \in Nat /\ \A s \in Tabs : Owed(s)' - Owed(s) <= events' - events
<1> USE SessionAssumption
<1>0. /\ \A s \in Tabs : Owed(s) \in Nat /\ Owed(s)' \in Nat
      /\ \A b : Ind(b) \in {0, 1}
  BY IndType DEF Owed
<1> DEFINE Others == \A s \in Tabs \ {t} : Owed(s)' <= Owed(s)
<1>1. CASE Open(t)
  BY <1>0, <1>1, LoadOwes DEF Open, UserEvent
<1>2. CASE GoogleRefused(t)
  <2>1. Owed(t) >= 1
    <3>1. Ind(path[t] = "google") = 1
      BY <1>2 DEF GoogleRefused, Ind
    <3> QED
      BY <1>0, <3>1 DEF Owed
  <2> QED
    BY <1>0, <1>2, <2>1, LoadOwes DEF GoogleRefused
<1>3. CASE Logout(t) \/ BackToLogin(t) \/ Redirect(t)
  <2>1. /\ calls' = calls /\ path' = [path EXCEPT ![t] = "login"] /\ ~Mounted(t)' /\ OthersKeep(t)
        /\ events' \in {events, events + 1}
    BY <1>3 DEF Logout, BackToLogin, Redirect, Clear, Persist, Goes, server, stored, UserEvent, Mounted,
                OthersKeep, CallInv, Types
  <2>2. Others
    BY <2>1, OfOthers
  <2>3. Owed(t)' <= Owed(t)
    BY <2>1, OthersOwe DEF CallInv, Types
  <2> QED
    BY <1>0, <2>1, <2>2, <2>3
<1>4. CASE StartGoogle(t) \/ BackToGoogle(t)
  <2>1. /\ events' = events + 1 /\ calls' = Orphaned(t)
        /\ path' = [path EXCEPT ![t] = "google"]
        /\ user' = [user EXCEPT ![t] = None] /\ initializing' = [initializing EXCEPT ![t] = FALSE]
        /\ raced' = raced
    BY <1>4 DEF StartGoogle, BackToGoogle, ToGoogle, Goes, UserEvent
  <2>2. OthersKeep(t) /\ ~Mounted(t)'
    BY <2>1 DEF OthersKeep, Mounted, CallInv, Types
  <2>3. \A c \in calls' : c.tab # t /\ (c.tab # Nobody => c \in calls)
    BY <2>1, OrphanedCalls DEF CallInv
  <2>4. Others
    BY <2>2, <2>3, OfOthers
  <2>5. Owed(t)' <= 1
    <3>1. \A kinds : ~Has(t, kinds)'
      BY <2>3 DEF Has
    <3>2. Owed(t)' = Ind(path[t] = "google")'
      BY <2>2, <3>1 DEF Owed, Ind
    <3> QED
      BY <3>2 DEF Ind
  <2> QED
    BY <1>0, <2>1, <2>4, <2>5
<1>5. ASSUME NEW e \in Emails, CallbackArrives(t, e)
      PROVE  events' \in Nat /\ \A s \in Tabs : Owed(s)' - Owed(s) <= events' - events
  <2>1. /\ events' = events /\ calls' = Orphaned(t) \cup {Call(t, "exchange", e)}
        /\ UNCHANGED <<path, user, initializing, raced>>
    BY <1>5 DEF CallbackArrives, tabVars
  <2>2. Call(t, "exchange", e).tab = t /\ Call(t, "exchange", e).kind = "exchange"
    BY DEF Call
  <2>3. OthersKeep(t) /\ \A s \in Tabs : Mounted(s)' = Mounted(s) /\ path'[s] = path[s]
    BY <2>1 DEF OthersKeep, Mounted
  <2>4. \A c \in calls' : c.tab # Nobody => c \in calls \/ c = Call(t, "exchange", e)
    BY <2>1, OrphanedCalls DEF CallInv
  <2>5. Others
    BY <2>2, <2>3, <2>4, OfOthers
  <2>6. Owed(t)' <= Owed(t)
    <3>1. /\ Has(t, {"start"})' => Has(t, {"start"})
          /\ Has(t, SignIns)' => Has(t, SignIns)
          /\ Has(t, {"google"})' => Has(t, {"google"})
      BY <2>2, <2>4 DEF Has, SignIns
    <3>2. (Mounted(t) /\ mailbox[t].effect = 0)' => Mounted(t) /\ mailbox[t].effect = 0
      BY <2>3 DEF Remount
    <3> QED
      BY <2>3, <3>1, <3>2 DEF Owed, Ind
  <2> QED
    BY <1>0, <2>1, <2>5, <2>6
<1>6. ASSUME NEW e \in Emails, NEW k \in {"login", "register"}, SignIn(t, k, e)
      PROVE  events' \in Nat /\ \A s \in Tabs : Owed(s)' - Owed(s) <= events' - events
  <2>1. /\ events' = events + 1 /\ calls' = calls \cup {Call(t, k, e)} /\ path[t] = "login"
        /\ UNCHANGED <<path, user, initializing, raced>>
    BY <1>6 DEF SignIn, UserEvent, tabVars
  <2>2. Call(t, k, e).tab = t /\ Call(t, k, e).kind \in SignIns
    BY DEF Call, SignIns
  <2>3. OthersKeep(t)
    BY <2>1 DEF OthersKeep
  <2>4. Others
    BY <2>1, <2>2, <2>3, OfOthers
  <2>5. Owed(t)' <= Owed(t) + 1
    <3>1. (Has(t, {"start"})' => Has(t, {"start"})) /\ (Has(t, {"google"})' => Has(t, {"google"}))
      BY <2>1, <2>2 DEF Has, SignIns
    <3>2. ~Mounted(t)' /\ path'[t] = path[t]
      BY <2>1 DEF Mounted
    <3> QED
      BY <3>1, <3>2 DEF Owed, Ind
  <2> QED
    BY <1>0, <2>1, <2>4, <2>5
<1> QED
  BY <1>1, <1>2, <1>3, <1>4, <1>5, <1>6 DEF UserAct

\* The end of a call pays for the mailbox that it brings about.
LEMMA AnswersOwe ==
    ASSUME CallInv, MailInv, Remount, NEW c \in calls,
           \/ StartAnswers(c) \/ StartFails(c) \/ LoginAnswers(c) \/ LoginFails(c)
           \/ GoogleAnswers(c) \/ GoogleFails(c) \/ RegisterAnswers(c) \/ RegisterTimesOut(c)
           \/ RegisterLooksUp(c) \/ RegisterCreates(c) \/ RegisterFails(c)
           \/ GoogleUpserts(c) \/ GoogleReturns(c)
    PROVE  events' = events /\ \A s \in Tabs : Owed(s)' <= Owed(s)
<1> USE SessionAssumption
<1> DEFINE t == c.tab
<1>0. /\ t \in Tabs \cup {Nobody} /\ (c.kind \notin GoesOn => t \in Tabs)
      /\ events' = events
  BY OneCall DEF CallInv, Kinds, StartAnswers, StartFails, LoginAnswers, LoginFails, GoogleAnswers,
     GoogleFails, RegisterAnswers, RegisterTimesOut, RegisterLooksUp, RegisterCreates, RegisterFails,
     GoogleUpserts, GoogleReturns
<1>1. CASE StartAnswers(c) \/ StartFails(c)
  <2>1. /\ calls' = calls \ {c} /\ c.kind = "start" /\ t \in Tabs /\ path' = path
        /\ initializing' = [initializing EXCEPT ![t] = FALSE]
        /\ user' = [user EXCEPT ![t] = user'[t]]
        /\ \A s \in Tabs \ {t} : s \in raced => s \in raced'
    BY <1>0, <1>1 DEF StartAnswers, StartFails, Clear, Persist, GoesOn, CallInv, Types
  <2>2. \A d \in calls' : d.tab = t => d.kind # "start"
    BY <2>1 DEF CallInv, OneAtATime
  <2>3. OthersKeep(t)
    BY <2>1 DEF OthersKeep, CallInv, Types
  <2>4. \A s \in Tabs \ {t} : Owed(s)' <= Owed(s)
    BY <2>1, <2>3, OfOthers
  <2>5. /\ Has(t, {"start"}) /\ ~Has(t, {"start"})' /\ path'[t] = path[t]
        /\ \A kinds : Has(t, kinds)' => Has(t, kinds)
    BY <2>1, <2>2 DEF Has
  <2>6. Owed(t)' <= Owed(t)
    BY <2>5 DEF Owed, Ind
  <2> QED
    BY <1>0, <2>4, <2>6
<1>2. CASE LoginAnswers(c) \/ RegisterAnswers(c)
  <2>1. /\ calls' = calls \ {c} /\ c.kind \in SignIns /\ initializing' = initializing
        /\ path' = [path EXCEPT ![t] = "dashboard"] /\ user' = [user EXCEPT ![t] = c.as]
        /\ t \in Tabs /\ \A s \in Tabs \ {t} : s \in raced => s \in raced'
    BY <1>0, <1>2 DEF LoginAnswers, RegisterAnswers, SignedIn, Persist, Goes, SignIns, GoesOn
  <2>2. \A d \in calls' : d.tab = t => d.kind \notin SignIns
    BY <1>2, <2>1 DEF CallInv, OneAtATime
  <2>3. OthersKeep(t) /\ path'[t] = "dashboard"
    BY <1>2, <2>1 DEF OthersKeep, CallInv, Types
  <2>4. \A s \in Tabs \ {t} : Owed(s)' <= Owed(s)
    BY <1>2, <2>1, <2>3, OfOthers
  <2>5. /\ Has(t, SignIns) /\ ~Has(t, SignIns)'
        /\ \A kinds : Has(t, kinds)' => Has(t, kinds)
    BY <2>1, <2>2 DEF Has
  <2>6. Owed(t)' <= Owed(t)
    BY <2>3, <2>5 DEF Owed, Ind
  <2> QED
    BY <1>0, <2>4, <2>6
<1>3. CASE GoogleReturns(c)
  <2> DEFINE g == Call(t, "google", c.as)
  <2>1. /\ calls' = (calls \ {c}) \cup {g} /\ c.kind = "redirect" /\ t \in Tabs
        /\ initializing' = initializing /\ user' = [user EXCEPT ![t] = storedUser]
        /\ path' = [path EXCEPT ![t] = "oauth"] /\ \A s \in Tabs \ {t} : s \in raced => s \in raced'
    BY <1>0, <1>3 DEF GoogleReturns, Goes, GoesOn
  <2>2. g.tab = t /\ g.kind = "google"
    BY DEF Call
  <2> HIDE DEF g
  <2>3. OthersKeep(t) /\ ~Mounted(t)' /\ path'[t] = "oauth"
    BY <2>1 DEF OthersKeep, Mounted, CallInv, Types
  <2>4. \A s \in Tabs \ {t} : Owed(s)' <= Owed(s)
    BY <2>1, <2>2, <2>3, OfOthers
  <2>5. path[t] = "google" /\ ~Has(t, {"google"})
    BY <2>1 DEF Has, CallInv, CallsInPlace, InPlace, Exchanges
  <2>6. (Has(t, {"start"})' => Has(t, {"start"})) /\ (Has(t, SignIns)' => Has(t, SignIns))
    BY <2>1, <2>2 DEF Has, SignIns
  <2>7. Owed(t)' <= Owed(t)
    BY <2>3, <2>5, <2>6 DEF Owed, Ind
  <2> QED
    BY <1>0, <2>4, <2>7
<1>4. CASE GoogleAnswers(c) \/ GoogleFails(c)
  <2>1. /\ calls' = calls \ {c} /\ c.kind = "google" /\ t \in Tabs /\ initializing' = initializing
        /\ user' = [user EXCEPT ![t] = user'[t]] /\ path' = [path EXCEPT ![t] = path'[t]]
        /\ path'[t] # "google"
        /\ \A s \in Tabs \ {t} : s \in raced => s \in raced'
    BY <1>0, <1>4 DEF GoogleAnswers, GoogleFails, Clear, Persist, Goes, GoesOn, CallInv, Types,
                      CallsInPlace, InPlace
  <2>2. \A d \in calls' : d.tab = t => d.kind # "google"
    BY <2>1 DEF CallInv, OneAtATime
  <2>3. OthersKeep(t)
    BY <2>1 DEF OthersKeep, CallInv, Types
  <2>4. \A s \in Tabs \ {t} : Owed(s)' <= Owed(s)
    BY <2>1, <2>3, OfOthers
  <2>5. /\ Has(t, {"google"}) /\ ~Has(t, {"google"})'
        /\ \A kinds : Has(t, kinds)' => Has(t, kinds)
    BY <2>1, <2>2 DEF Has
  <2>6. Owed(t)' <= Owed(t)
    BY <2>1, <2>5 DEF Owed, Ind
  <2> QED
    BY <1>0, <2>4, <2>6
<1>5. CASE LoginFails(c) \/ RegisterFails(c)
  <2>1. calls' = calls \ {c} /\ UNCHANGED <<path, user, initializing>>
    BY <1>5 DEF LoginFails, RegisterFails, tabVars
  <2>2. \A s \in Tabs : path'[s] = path[s] /\ Mounted(s)' = Mounted(s)
    BY <2>1 DEF Mounted
  <2> QED
    BY <1>0, <2>1, <2>2, OthersOwe
<1>6. CASE RegisterTimesOut(c) \/ RegisterLooksUp(c) \/ RegisterCreates(c) \/ GoogleUpserts(c)
  <2>1. UNCHANGED <<path, user, initializing>>
    BY <1>6 DEF RegisterTimesOut, RegisterLooksUp, RegisterCreates, GoogleUpserts, tabVars
  <2>2. \A s \in Tabs : path'[s] = path[s] /\ Mounted(s)' = Mounted(s)
    BY <2>1 DEF Mounted
  <2>3. \A d \in calls' : \/ d \in calls \/ d.tab = Nobody
                          \/ d.tab = c.tab /\ {c.kind, d.kind} \subseteq SignIns
                          \/ d.kind \in Exchanges
    <3>2. CASE RegisterTimesOut(c)
      BY <3>2, UnattendedCalls DEF RegisterTimesOut, CallInv
    <3>3. CASE RegisterLooksUp(c) \/ RegisterCreates(c) \/ GoogleUpserts(c)
      <4>1. PICK k \in Kinds :
               /\ calls' \subseteq (calls \ {c}) \cup {[c EXCEPT !.kind = k]}
               /\ {c.kind, k} \subseteq SignIns \/ k \in Exchanges
        <5>1. CASE RegisterLooksUp(c)
          BY <5>1 DEF RegisterLooksUp, Kinds, SignIns
        <5>2. CASE RegisterCreates(c)
          BY <5>2 DEF RegisterCreates, Kinds, SignIns
        <5>3. CASE GoogleUpserts(c)
          BY <5>3 DEF GoogleUpserts, Kinds, Exchanges
        <5> QED
          BY <3>3, <5>1, <5>2, <5>3
      <4> DEFINE h == [c EXCEPT !.kind = k]
      <4>2. h.tab = c.tab /\ h.kind = k
        BY OneCall DEF CallInv
      <4> HIDE DEF h
      <4>3. calls' \subseteq calls \cup {h}
        BY <4>1 DEF h
      <4> QED
        BY <4>1, <4>2, <4>3
    <3> QED
      BY <1>6, <3>2, <3>3
  <2>4. ASSUME NEW s \in Tabs PROVE Owed(s)' <= Owed(s)
    <3>1. /\ Has(s, {"start"})' => Has(s, {"start"})
          /\ Has(s, SignIns)' => Has(s, SignIns)
          /\ Has(s, {"google"})' => Has(s, {"google"})
      BY <2>3 DEF Has, SignIns, Exchanges
    <3>2. (Mounted(s) /\ mailbox[s].effect = 0)' => Mounted(s) /\ mailbox[s].effect = 0
      BY <2>2 DEF Remount
    <3> QED
      BY <2>2, <3>1, <3>2 DEF Owed, Ind
  <2> QED
    BY <1>0, <2>4
<1> QED
  BY <1>0, <1>1, <1>2, <1>3, <1>4, <1>5, <1>6

\* The tabs have run no more effects than the user has given cause for, and a page on
\* display is of one of them.
Spent ==
    /\ events \in Nat
    /\ \A t \in Tabs : /\ fetched[t] + Owed(t) <= events
                       /\ mailbox[t].page # NoPage => mailbox[t].page.by \in 1 .. fetched[t]

LEMMA SpentStep ==
    CallInv /\ MailInv /\ Spent /\ [Next]_vars => Spent'
<1> SUFFICES ASSUME CallInv, MailInv, Spent, [Next]_vars PROVE Spent'
  OBVIOUS
<1>0. /\ events \in Nat /\ \A t \in Tabs : Owed(t) \in Nat /\ Owed(t)' \in Nat
      /\ \A t \in Tabs : fetched[t] \in Nat /\ mailbox[t] \in Shown /\ mailbox[t].effect <= fetched[t]
  <2>1. \A t : Owed(t) \in Nat /\ Owed(t)' \in Nat
    BY IndType DEF Owed
  <2> QED
    BY <2>1 DEF Spent, MailInv, MailTypes
<1>1. CASE AuthStep /\ Remount
  <2>1. events' \in Nat /\ \A t \in Tabs : Owed(t)' - Owed(t) <= events' - events
    BY <1>0, <1>1, ActOwes, AnswersOwe DEF AuthStep, CallEnds, ServerGoesOn
  <2>2. /\ fetched' = fetched
        /\ \A t \in Tabs : mailbox'[t].page = mailbox[t].page \/ mailbox'[t].page = NoPage
    BY <1>1 DEF Remount, Fresh
  <2> QED
    BY <1>0, <2>1, <2>2 DEF Spent
<1>2. ASSUME NEW t \in Tabs, NEW box \in Boxes, RunEffect(t, box),
             events' = events + 1 \/ (events' = events /\ Mounted(t) /\ mailbox[t].effect = 0)
      PROVE  Spent'
  <2>1. /\ UNCHANGED <<path, user, initializing, calls>>
        /\ fetched' = [fetched EXCEPT ![t] = fetched[t] + 1]
        /\ mailbox'[t].page = mailbox[t].page /\ mailbox'[t].effect = fetched[t] + 1
        /\ \A s \in Tabs \ {t} : mailbox'[s] = mailbox[s]
    BY <1>2 DEF RunEffect, tabVars, MailInv, MailTypes, Shown
  <2>2. /\ \A s : Mounted(s)' = Mounted(s) /\ \A kinds : Has(s, kinds)' = Has(s, kinds)
        /\ \A s \in Tabs \ {t} : Owed(s)' = Owed(s)
    BY <2>1 DEF Owed, Has, Mounted
  <2>3. /\ Owed(t)' <= Owed(t)
        /\ Mounted(t) /\ mailbox[t].effect = 0 => Owed(t)' = Owed(t) - 1
    <3>1. mailbox'[t].effect # 0
      BY <1>0, <2>1
    <3> QED
      BY <2>1, <2>2, <3>1 DEF Owed, Ind
  <2>4. ASSUME NEW s \in Tabs
        PROVE  /\ fetched'[s] + Owed(s)' <= events'
               /\ mailbox'[s].page # NoPage => mailbox'[s].page.by \in 1 .. fetched'[s]
    <3>1. CASE s = t
      <4>1. fetched'[t] = fetched[t] + 1
        BY <2>1 DEF MailInv, MailTypes
      <4>2. fetched[t] + Owed(t) <= events
        BY DEF Spent
      <4>3. fetched'[t] + Owed(t)' <= events'
        BY <1>0, <1>2, <2>3, <4>1, <4>2
      <4> QED
        BY <1>0, <2>1, <3>1, <4>1, <4>3 DEF Spent
    <3>2. CASE s # t
      <4>1. fetched'[s] = fetched[s] /\ mailbox'[s] = mailbox[s] /\ Owed(s)' = Owed(s)
        BY <2>1, <2>2, <3>2
      <4> QED
        BY <1>0, <1>2, <4>1 DEF Spent
    <3> QED
      BY <3>1, <3>2
  <2> QED
    BY <1>0, <1>2, <2>4 DEF Spent
<1>3. ASSUME NEW f \in fetches, MailAnswers(f) \/ MailFails(f) PROVE Spent'
  <2>1. UNCHANGED <<path, user, initializing, calls, fetched, events>>
    BY <1>3 DEF MailAnswers, MailFails, authVars, tabVars
  <2>2. f.tab \in Tabs /\ f.by \in 1 .. fetched[f.tab]
    BY DEF MailInv, MailTypes
  <2>3. \A s \in Tabs : /\ mailbox'[s].effect = mailbox[s].effect
                        /\ \/ mailbox'[s].page = mailbox[s].page
                           \/ s = f.tab /\ mailbox'[s].page.by = f.by
    <3> DEFINE t == f.tab
               old == mailbox[t]
               got == [box |-> f.box, by |-> f.by, as |-> f.as]
               good == [old EXCEPT !.page = got, !.loading = FALSE]
               bad == [old EXCEPT !.error = TRUE, !.loading = FALSE]
    <3>1. /\ good.effect = old.effect /\ good.page = got /\ got.by = f.by
          /\ bad.effect = old.effect /\ bad.page = old.page
      BY <1>0, <2>2 DEF Shown
    <3>2. \/ mailbox' = mailbox
          \/ mailbox' = [mailbox EXCEPT ![t] = good]
          \/ mailbox' = [mailbox EXCEPT ![t] = bad]
      BY <1>3 DEF MailAnswers, MailFails
    <3> HIDE DEF got, good, bad
    <3>3. \A s \in Tabs : \/ mailbox'[s] = mailbox[s]
                          \/ s = t /\ mailbox'[s] \in {good, bad}
      BY <2>2, <3>2 DEF MailInv, MailTypes
    <3> QED
      BY <3>1, <3>3
  <2>4. \A s \in Tabs : Owed(s)' = Owed(s)
    BY <2>1, <2>3 DEF Owed, Has, Mounted
  <2> QED
    BY <2>1, <2>2, <2>3, <2>4 DEF Spent
<1>4. CASE MailStep
  <2>1. ASSUME NEW t \in Tabs, MountMailbox(t) \/ ChangeTab(t) \/ Refetch(t) PROVE Spent'
    <3>1. mailbox[t].box \in Boxes /\ "scheduled" \in Boxes
      BY <1>0 DEF Shown, Boxes
    <3> QED
      BY <1>2, <2>1, <3>1 DEF MountMailbox, ChangeTab, Refetch, UserEvent
  <2> QED
    BY <1>3, <1>4, <2>1 DEF MailStep, MailEnds
<1>5. CASE UNCHANGED vars
  <2>1. UNCHANGED <<path, user, initializing, calls, mailbox, fetched, events>>
    BY <1>5 DEF vars, mailVars, authVars, tabVars
  <2>2. \A t : Owed(t)' = Owed(t)
    BY <2>1 DEF Owed, Has, Mounted
  <2> QED
    BY <2>1, <2>2 DEF Spent
<1> QED
  BY <1>1, <1>4, <1>5 DEF Next

\* What counts in the session stays within the bounds of what is counted.
Bounded ==
    /\ stateCookie \in 0 .. MaxFlows /\ flows \in 0 .. MaxFlows /\ events \in 0 .. MaxEvents
    /\ flow \in [Tabs -> 0 .. MaxFlows]

LEMMA BoundedStep == Bounded /\ [Next]_vars => Bounded'
<1> SUFFICES ASSUME Bounded, [Next]_vars PROVE Bounded'
  OBVIOUS
<1> USE SessionAssumption DEF Bounded
<1>1. ASSUME UserEvent PROVE events' \in 0 .. MaxEvents
  BY <1>1 DEF UserEvent
<1>2. ASSUME NEW t \in Tabs, StartGoogle(t) PROVE Bounded'
  BY <1>1, <1>2 DEF StartGoogle
<1>3. ASSUME NEW t \in Tabs, UserAct(t) \/ Redirect(t), ~StartGoogle(t) PROVE Bounded'
  BY <1>1, <1>3 DEF UserAct, Open, Logout, BackToGoogle, BackToLogin, GoogleRefused, CallbackArrives,
                    SignIn, Redirect, server, tabVars
<1>6. CASE \E t \in Tabs : CallEnds(t)
  BY <1>6 DEF CallEnds, StartAnswers, StartFails, LoginAnswers, LoginFails, GoogleAnswers, GoogleFails,
              RegisterAnswers, RegisterTimesOut, server, tabVars
<1>7. CASE ServerGoesOn
  BY <1>7 DEF ServerGoesOn, RegisterLooksUp, RegisterCreates, RegisterFails, GoogleUpserts,
              GoogleReturns, server, tabVars
<1>4. CASE AuthStep
  BY <1>2, <1>3, <1>4, <1>6, <1>7 DEF AuthStep
<1>5. CASE MailStep \/ UNCHANGED vars
  BY <1>1, <1>5 DEF MailStep, MountMailbox, ChangeTab, Refetch, MailEnds, MailAnswers, MailFails,
                    RunEffect, vars, authVars, server, tabVars
<1> QED
  BY <1>4, <1>5 DEF Next

\* The types of session and mailboxes.  That the effects of useMailbox are no more than
\* MaxEvents says that none sets off another: each one has an act of the user behind it
\* (a mount follows a page load, a sign-in or a Google sign-in, useMailbox.ts 83), which
\* no other effect has.
THEOREM FrontEndTypeCorrect == Spec => []TypeOK
<1>1. Init => Spent
  BY DEF Init, AuthInit, MailInit, Spent, Owed, Ind, Has, Mounted, Fresh, NoPage
<1>2. Init => Bounded
  BY SessionAssumption DEF Init, AuthInit, Bounded
<1>3. Types /\ MailInv /\ Spent /\ Bounded /\ FlowsInOrder => TypeOK
  <2> SUFFICES ASSUME Types, MailInv, Spent, Bounded, FlowsInOrder PROVE TypeOK
    OBVIOUS
  <2>1. AuthTypeOK
    <3>1. served \subseteq 1 .. MaxFlows
      BY SessionAssumption DEF Types, Bounded, FlowsInOrder
    <3> QED
      BY <3>1 DEF AuthTypeOK, Types, CallSet, Bounded, Paths
  <2>2. MaxEvents \in Nat /\ events \in Nat /\ events <= MaxEvents
    BY SessionAssumption DEF Spent, Bounded
  <2>3. \A t \in Tabs : fetched[t] \in 0 .. MaxEvents
    <3> TAKE t \in Tabs
    <3>1. fetched[t] \in Nat /\ Owed(t) \in Nat /\ fetched[t] + Owed(t) <= events
      BY IndType DEF Owed, Spent, MailInv, MailTypes
    <3> QED
      BY <2>2, <3>1
  <2>4. ASSUME NEW t \in Tabs
        PROVE  mailbox[t] \in [box : Boxes, effect : 0 .. MaxEvents, page : Pages,
                               loading : BOOLEAN, error : BOOLEAN]
    <3>1. mailbox[t] \in Shown /\ mailbox[t].effect <= fetched[t]
      BY DEF MailInv, MailTypes
    <3>2. mailbox[t].effect \in 0 .. MaxEvents
      BY <2>2, <2>3, <3>1 DEF Shown
    <3>3. mailbox[t].page \in Pages
      <4>1. mailbox[t].page # NoPage => mailbox[t].page.by \in 1 .. MaxEvents
        BY <2>2, <2>3 DEF Spent
      <4>2. mailbox[t].page \in AnyPage
        BY <3>1 DEF Shown
      <4> QED
        BY <4>1, <4>2 DEF AnyPage, Pages
    <3> QED
      BY <3>1, <3>2, <3>3 DEF Shown
  <2>5. ASSUME NEW f \in fetches
        PROVE  f \in [tab : Tabs, box : Boxes, by : 1 .. MaxEvents, as : Identities]
    <3>1. /\ f \in [tab : Tabs, box : Boxes, by : Nat \ {0}, as : Identities]
          /\ f.by <= fetched[f.tab]
      BY DEF MailInv, MailTypes
    <3>2. f.by \in 1 .. MaxEvents
      BY <2>2, <2>3, <3>1
    <3> QED
      BY <3>1, <3>2
  <2>6. MailTypeOK
    BY <2>3, <2>4, <2>5 DEF MailTypeOK, MailInv, MailTypes
  <2> QED
    BY <2>1, <2>6 DEF TypeOK
<1> QED
  BY <1>1, <1>2, <1>3, SpentStep, BoundedStep, TypesAlways, CallsAlways, FlowsAlways, MailAlways, PTL DEF Spec
----------------------------------------------------------------------------
(* The lists of e-mails: sorting, and dividing into pages *)

\* Rows whose times can be compared.
Timed(rows) == \A r \in rows : r.scheduledAt \in Int /\ r.sentAt \in Int

LEMMA BeforeOrders ==
    ASSUME NEW box, NEW S, Timed(S)
    PROVE  /\ \A a, b, c \in S : Before(box, a, b) /\ Before(box, b, c) => Before(box, a, c)
           /\ \A a, b \in S : Before(box, a, b) => ~Before(box, b, a)
  BY DEF Timed, Before

\* Some row of every set of rows without ties is the last.
LEMMA LastOf ==
    ASSUME NEW box, NEW S, IsFiniteSet(S), Timed(S), NoTies(S, box)
    PROVE  \A s \in SUBSET S : s # {} => \E m \in s : \A y \in s : y # m => Before(box, y, m)
<1> DEFINE P == {s \in SUBSET S : s # {} => \E m \in s : \A y \in s : y # m => Before(box, y, m)}
           some == [s \in SUBSET S |-> Some(s)]
<1>1. {} \in P
  OBVIOUS
<1>2. ASSUME NEW s \in SUBSET S, s # {}
      PROVE  some[s] \in s /\ (Rest(some, s) \in P => s \in P)
  <2> DEFINE x == Some(s)  t == s \ {x}
  <2>1. x \in s /\ some[s] = x
    BY <1>2 DEF Some
  <2> SUFFICES ASSUME t \in P PROVE s \in P
    BY <2>1 DEF Rest
  <2> HIDE DEF x
  <2>2. CASE t = {}
    BY <2>1, <2>2
  <2>3. CASE t # {}
    <3>1. PICK m \in t : \A y \in t : y # m => Before(box, y, m)
      BY <2>3
    <3>2. \A y \in s : y = x \/ y \in t
      OBVIOUS
    <3>3. CASE Before(box, x, m)
      BY <3>1, <3>2, <3>3
    <3>4. CASE Before(box, m, x)
      <4>1. \A y \in s : y # x => Before(box, y, x)
        BY <2>1, <3>1, <3>2, <3>4, BeforeOrders
      <4> QED
        BY <2>1, <4>1
    <3> QED
      BY <2>1, <3>1, <3>3, <3>4 DEF NoTies
  <2> QED
    BY <2>2, <2>3
<1> HIDE DEF P, some
<1>3. SUBSET S \subseteq P
  BY <1>1, <1>2, SetInduction
<1> QED
  BY <1>3 DEF P

\* A list of these rows, each of them once, in the order of the box.
Lists(S, box, o) ==
    /\ o \in Seq(S) /\ IsInjective(o)
    /\ \A i, j \in DOMAIN o : i < j => ~Before(box, o[j], o[i])

\* Rows without ties have an order.
LEMMA OrderExists ==
    ASSUME NEW box, NEW S, IsFiniteSet(S), Timed(S), NoTies(S, box)
    PROVE  \E o : Lists(S, box, o) /\ ToSet(o) = S
<1> DEFINE P == {s \in SUBSET S : \E o : Lists(S, box, o) /\ ToSet(o) = s}
           last == [s \in SUBSET S |->
                        CHOOSE m \in s : \A y \in s : y # m => Before(box, y, m)]
<1>1. {} \in P
  <2>1. Lists(S, box, <<>>) /\ ToSet(<<>>) = {}
    BY DEF Lists, ToSet, IsInjective
  <2> QED
    BY <2>1
<1>2. ASSUME NEW s \in SUBSET S, s # {}
      PROVE  last[s] \in s /\ (Rest(last, s) \in P => s \in P)
  <2> DEFINE m == last[s]  t == s \ {m}
  <2>1. m \in s /\ \A y \in s : y # m => Before(box, y, m)
    BY <1>2, LastOf
  <2> HIDE DEF last
  <2> SUFFICES ASSUME t \in P PROVE s \in P
    BY <2>1 DEF Rest
  <2>2. PICK o : Lists(S, box, o) /\ ToSet(o) = t
    OBVIOUS
  <2> HIDE DEF m
  <2>3. /\ Append(o, m) \in Seq(S) /\ IsInjective(Append(o, m))
        /\ ToSet(Append(o, m)) = s
    <3>1. m \in S /\ m \notin ToSet(o) /\ o \in Seq(S) /\ IsInjective(o) /\ ToSet(o) \cup {m} = s
      BY <2>1, <2>2 DEF Lists
    <3> QED
      BY <3>1, AppendAdds
  <2>4. ASSUME NEW i \in DOMAIN Append(o, m), NEW j \in DOMAIN Append(o, m), i < j
        PROVE  ~Before(box, Append(o, m)[j], Append(o, m)[i])
    <3>1. /\ Len(o) \in Nat /\ DOMAIN o = 1 .. Len(o) /\ i \in 1 .. Len(o)
          /\ Append(o, m)[i] = o[i] /\ j \in 1 .. Len(o) + 1
          /\ Append(o, m)[Len(o) + 1] = m
          /\ j \in 1 .. Len(o) => Append(o, m)[j] = o[j]
      <4>1. m \in S /\ o \in Seq(S)
        BY <2>1, <2>2 DEF Lists
      <4> QED
        BY <4>1, <2>4
    <3>2. CASE j \in 1 .. Len(o)
      BY <2>2, <2>4, <3>1, <3>2 DEF Lists
    <3>3. CASE j = Len(o) + 1
      <4>1. o[i] \in t
        BY <2>2, <3>1 DEF ToSet
      <4>2. Before(box, o[i], m) /\ o[i] \in S /\ m \in S
        BY <2>1, <4>1
      <4> QED
        BY <3>1, <3>3, <4>2, BeforeOrders
    <3> QED
      BY <3>1, <3>2, <3>3
  <2>5. Lists(S, box, Append(o, m))
    BY <2>3, <2>4 DEF Lists
  <2> QED
    BY <2>3, <2>5
<1> HIDE DEF P, last
<1>3. SUBSET S \subseteq P
  BY <1>1, <1>2, SetInduction
<1> QED
  BY <1>3 DEF P

\* The orders of a list are its rows, each of them once, and there is one.
LEMMA OrdersList ==
    ASSUME NEW box, NEW S, IsFiniteSet(S), Timed(S), NoTies(S, box)
    PROVE  LET o == CHOOSE s \in Orders(S, box) : TRUE IN
           o \in Seq(S) /\ IsInjective(o) /\ ToSet(o) = S /\ Len(o) = Cardinality(S)
<1> DEFINE n == Cardinality(S)
<1>1. PICK o : Lists(S, box, o) /\ ToSet(o) = S
  BY OrderExists
<1>2. o \in Orders(S, box)
  <2>1. o \in Seq(S) /\ Len(o) = n /\ IsInjective(o)
    BY <1>1, OnceLength DEF Lists
  <2>2. DOMAIN o = 1 .. n /\ o \in [1 .. n -> S]
    BY <2>1
  <2>3. \A i, j \in 1 .. n : i # j => o[i] # o[j]
    BY <2>1, <2>2 DEF IsInjective
  <2> QED
    BY <1>1, <2>2, <2>3 DEF Orders, SetToSeqs, Lists
<1>3. ASSUME NEW s \in Orders(S, box)
      PROVE  s \in Seq(S) /\ IsInjective(s) /\ ToSet(s) = S /\ Len(s) = n
  <2>1. n \in Nat
    BY FS_CardinalityType
  <2>2. s \in [1 .. n -> S] /\ \A i, j \in 1 .. n : i # j => s[i] # s[j]
    BY DEF Orders, SetToSeqs
  <2>3. s \in Seq(S) /\ Len(s) = n /\ IsInjective(s)
    BY <2>1, <2>2 DEF IsInjective
  <2>4. Cardinality(ToSet(s)) = n /\ ToSet(s) \subseteq S
    BY <2>2, <2>3, OnceLength DEF ToSet
  <2>5. ToSet(s) = S
    BY <2>4, FS_Subset
  <2> QED
    BY <2>3, <2>5
<1> QED
  BY <1>2, <1>3

----------------------------------------------------------------------------

LEMMA DivIs ==
    ASSUME NEW a \in Nat, NEW m \in Nat \ {0}
    PROVE  a \div m \in Nat /\ m * (a \div m) <= a /\ a < m * (a \div m) + m
  OBVIOUS

LEMMA Grows ==
    ASSUME NEW p \in Int, NEW q \in Int, NEW m \in Nat, p <= q
    PROVE  p * m <= q * m
  OBVIOUS

\* The pages of a list are as many as hold its rows.
LEMMA PageCount ==
    ASSUME NEW n \in Nat, NEW m \in Nat \ {0}
    PROVE  LET k == TotalPages(n, m) IN
           k \in Nat /\ n <= k * m /\ k * m < n + m /\ k <= n
<1> DEFINE k == TotalPages(n, m)
<1>1. k \in Nat /\ m * k <= n + m - 1 /\ n + m - 1 < m * k + m
  <2>1. n + m - 1 \in Nat
    OBVIOUS
  <2> HIDE DEF k
  <2>2. k = (n + m - 1) \div m
    BY DEF k, TotalPages
  <2> QED
    BY <2>1, <2>2, DivIs
<1> HIDE DEF k
<1>2. m * k = k * m
  BY <1>1
<1>3. ASSUME k > n PROVE FALSE
  <2>1. (n + 1) * m <= k * m
    BY <1>1, <1>3, Grows
  <2>2. (n + 1) * m = n * m + m
    OBVIOUS
  <2>3. n * 1 <= n * m
    OBVIOUS
  <2> QED
    BY <1>1, <1>2, <2>1, <2>2, <2>3
<1>4. k * m \in Int
  BY <1>1
<1> QED
  BY <1>1, <1>2, <1>3, <1>4 DEF k

\* What a page holds.
LEMMA PageHolds ==
    ASSUME NEW S, NEW o \in Seq(S), NEW m \in Nat \ {0}, NEW q \in Nat \ {0}, NEW x
    PROVE  x \in Range(Page(o, q, m)) <=>
               \E i \in 1 .. Len(o) : (q - 1) * m < i /\ i <= q * m /\ o[i] = x
<1> DEFINE a == (q - 1) * m  n == Len(o)
<1>1. a \in Nat /\ q * m = a + m /\ n \in Nat
  OBVIOUS
<1>2. Skip(q, m) = a
  BY DEF Skip
<1> HIDE DEF a
<1> DEFINE b == Least(a + m, n)
<1>3. b \in Nat /\ \A i \in Nat : i <= b <=> i <= a + m /\ i <= n
  BY <1>1 DEF Least
<1> HIDE DEF b
<1>4. Page(o, q, m) = SubSeq(o, a + 1, b)
  BY <1>2 DEF Page, b
<1>5. x \in Range(Page(o, q, m)) <=> \E j \in 1 .. b - a : o[j + a] = x
  <2> DEFINE page == SubSeq(o, a + 1, b)
  <2>1. /\ DOMAIN page = 1 .. b - a
        /\ \A j \in 1 .. b - a : page[j] = o[j + a]
    BY <1>1, <1>3
  <2> HIDE DEF page
  <2>2. x \in Range(page) <=> \E j \in 1 .. b - a : page[j] = x
    BY <2>1 DEF Range
  <2>3. Page(o, q, m) = page
    BY <1>4 DEF page
  <2> QED
    BY <2>1, <2>2, <2>3
<1>6. ASSUME NEW j \in 1 .. b - a
      PROVE  j + a \in 1 .. n /\ a < j + a /\ j + a <= a + m
  BY <1>1, <1>3
<1>7. ASSUME NEW i \in 1 .. n, a < i, i <= a + m
      PROVE  i - a \in 1 .. b - a /\ (i - a) + a = i
  BY <1>1, <1>3, <1>7
<1>8. ASSUME NEW j \in 1 .. b - a, o[j + a] = x
      PROVE  \E i \in 1 .. n : a < i /\ i <= a + m /\ o[i] = x
  BY <1>6, <1>8
<1>9. ASSUME NEW i \in 1 .. n, a < i, i <= a + m, o[i] = x
      PROVE  \E j \in 1 .. b - a : o[j + a] = x
  BY <1>7, <1>9
<1> QED
  BY <1>1, <1>5, <1>8, <1>9 DEF a

\* Every row of a list is on one of its pages, and on no other.
LEMMA OnOnePage ==
    ASSUME NEW S, NEW o \in Seq(S), IsInjective(o), NEW m \in Nat \ {0}, NEW x \in ToSet(o)
    PROVE  \E p \in 1 .. TotalPages(Len(o), m) :
               \A q \in 1 .. TotalPages(Len(o), m) : x \in Range(Page(o, q, m)) <=> q = p
<1> DEFINE n == Len(o)  k == TotalPages(n, m)
<1>1. n \in Nat /\ DOMAIN o = 1 .. n
  OBVIOUS
<1>2. PICK i \in 1 .. n : o[i] = x
  BY <1>1 DEF ToSet
<1>3. \A j \in 1 .. n : o[j] = x => j = i
  BY <1>1, <1>2 DEF IsInjective
<1>4. k \in Nat /\ n <= k * m
  BY <1>1, PageCount
<1> HIDE DEF k
<1> DEFINE p == (i - 1) \div m + 1
<1>5. p \in Nat \ {0} /\ (p - 1) * m < i /\ i <= p * m /\ (p - 1) * m \in Int /\ p * m \in Int
  <2> DEFINE d == (i - 1) \div m
  <2>1. i - 1 \in Nat
    BY <1>1
  <2>2. d \in Nat /\ m * d <= i - 1 /\ i - 1 < m * d + m
    BY <2>1, DivIs
  <2> HIDE DEF d
  <2>3. p = d + 1
    BY DEF d
  <2> HIDE DEF p
  <2>4. m * d = d * m /\ (p - 1) * m = d * m /\ p * m = d * m + m /\ d * m \in Int
    BY <2>2, <2>3
  <2> QED
    BY <1>1, <2>2, <2>3, <2>4
<1> HIDE DEF p
<1>6. p \in 1 .. k
  <2>1. ASSUME p > k PROVE FALSE
    <3>1. k * m <= (p - 1) * m
      BY <1>4, <1>5, <2>1, Grows
    <3>2. k * m \in Int
      BY <1>4
    <3> QED
      BY <1>1, <1>4, <1>5, <3>1, <3>2
  <2> QED
    BY <1>4, <1>5, <2>1
<1>7. ASSUME NEW q \in 1 .. k
      PROVE  x \in Range(Page(o, q, m)) <=> q = p
  <2>0. q \in Nat \ {0} /\ q * m \in Int /\ (q - 1) * m \in Int
    BY <1>4
  <2>1. x \in Range(Page(o, q, m)) <=> (q - 1) * m < i /\ i <= q * m
    BY <1>2, <1>3, <2>0, PageHolds
  <2>2. ASSUME q < p, i <= q * m PROVE FALSE
    <3>1. q * m <= (p - 1) * m
      BY <1>5, <2>0, <2>2, Grows
    <3> QED
      BY <1>1, <1>5, <2>0, <2>2, <3>1
  <2>3. ASSUME p < q, (q - 1) * m < i PROVE FALSE
    <3>1. p * m <= (q - 1) * m
      BY <1>5, <2>0, <2>3, Grows
    <3> QED
      BY <1>1, <1>5, <2>0, <2>3, <3>1
  <2> QED
    BY <1>5, <2>0, <2>1, <2>2, <2>3
<1> QED
  BY <1>6, <1>7 DEF k

\* No row is on a page of a list it is not of.
LEMMA OnNoPage ==
    ASSUME NEW S, NEW o \in Seq(S), NEW m \in Nat \ {0}, NEW x, x \notin ToSet(o), NEW q \in Nat \ {0}
    PROVE  x \notin Range(Page(o, q, m))
<1>1. DOMAIN o = 1 .. Len(o)
  OBVIOUS
<1> QED
  BY <1>1, PageHolds DEF ToSet

\* The box of a row.
BoxOf(r) == IF r.status \in StatusesOf("scheduled") THEN "scheduled" ELSE "sent"

\* The pages of one list: those of its only order.
LEMMA ListPages ==
    ASSUME NEW rows \in Tables, NEW owner, NEW asked \in Int, NEW box \in Boxes, NEW status,
           Allowed(box, status), NoTies(Matching(rows, owner, box, AnyStatus), box)
    PROVE  LET found == Matching(rows, owner, box, status)
               pages == Paged(rows, owner, box, status, asked)
           IN  /\ \A r \in found : \E p \in DOMAIN pages :
                      \A q \in DOMAIN pages : r \in Range(pages[q]) <=> q = p
               /\ \A r : r \notin found => \A q \in DOMAIN pages : r \notin Range(pages[q])
               /\ DOMAIN pages \subseteq 1 .. Cardinality(rows)
<1> DEFINE found == Matching(rows, owner, box, status)
           all == Matching(rows, owner, box, AnyStatus)
           m == Limit(asked)
           o == CHOOSE s \in Orders(found, box) : TRUE
           k == TotalPages(Cardinality(found), m)
           pages == Paged(rows, owner, box, status, asked)
<1>1. found \subseteq all /\ all \subseteq rows
  BY DEF Allowed, Matching
<1>2. IsFiniteSet(rows) /\ Timed(rows)
  BY ListingAssumption DEF Timed
<1>3. IsFiniteSet(found) /\ Timed(found) /\ NoTies(found, box)
  <2>1. NoTies(all, box)
    OBVIOUS
  <2> HIDE DEF found, all
  <2> QED
    BY <1>1, <1>2, <2>1, FS_Subset DEF Timed, NoTies
<1>4. /\ Cardinality(found) \in Nat /\ Cardinality(rows) \in Nat
      /\ Cardinality(found) <= Cardinality(rows)
  BY <1>1, <1>2, <1>3, FS_CardinalityType, FS_Subset
<1>5. m \in Nat \ {0}
  BY DEF Limit, Least, MaxLimit
<1> HIDE DEF found, m
<1>6. pages = [n \in 1 .. k |-> Page(o, n, m)]
  BY DEF Paged, found, m
<1>7. o \in Seq(found) /\ IsInjective(o) /\ ToSet(o) = found /\ Len(o) = Cardinality(found)
  BY <1>3, OrdersList
<1>8. k \in Nat /\ k <= Cardinality(found)
  BY <1>4, <1>5, PageCount
<1> HIDE DEF o, k, pages
<1>9. DOMAIN pages = 1 .. k /\ \A q \in 1 .. k : pages[q] = Page(o, q, m) /\ q \in Nat \ {0}
  BY <1>6, <1>8
<1>10. k = TotalPages(Len(o), m)
  BY <1>7 DEF k
<1>11. ASSUME NEW r \in found
       PROVE  \E p \in DOMAIN pages : \A q \in DOMAIN pages : r \in Range(pages[q]) <=> q = p
  <2>1. PICK p \in 1 .. k : \A q \in 1 .. k : r \in Range(Page(o, q, m)) <=> q = p
    BY <1>5, <1>7, <1>10, OnOnePage
  <2> QED
    BY <1>9, <2>1
<1>12. ASSUME NEW r, r \notin found, NEW q \in DOMAIN pages PROVE r \notin Range(pages[q])
  BY <1>5, <1>7, <1>9, <1>12, OnNoPage
<1>13. DOMAIN pages \subseteq 1 .. Cardinality(rows)
  BY <1>4, <1>8, <1>9
<1> QED
  BY <1>11, <1>12, <1>13 DEF found, pages

\* Every table is listed as ListedOnce says, whatever the size of the pages.
THEOREM TablesAreListed == ListedOnce(Tables)
<1> SUFFICES ASSUME NEW rows \in Tables, NEW owner \in Owners, NEW asked \in PageSizes,
                    \A box \in Boxes : NoTies(Matching(rows, owner, box, AnyStatus), box),
                    NEW r \in rows, NEW status \in {AnyStatus, r.status}
             PROVE  Cardinality({at \in Boxes \X (1 .. Cardinality(rows)) :
                        LET pages == Paged(rows, owner, at[1], status, asked) IN
                        /\ Allowed(at[1], status)
                        /\ at[2] \in DOMAIN pages /\ r \in Range(pages[at[2]])})
                    = Cardinality(Visible(rows, owner, r.id))
  BY DEF ListedOnce
<1> DEFINE On(box, n) ==
               LET pages == Paged(rows, owner, box, status, asked) IN
               Allowed(box, status) /\ n \in DOMAIN pages /\ r \in Range(pages[n])
           places == {at \in Boxes \X (1 .. Cardinality(rows)) : On(at[1], at[2])}
           home == BoxOf(r)
<1>1. asked \in Int /\ \A a \in rows : a.id = r.id => a = r
  BY ListingAssumption
<1>2. /\ home \in Boxes /\ r.status \in StatusesOf(home) /\ AnyStatus # r.status
      /\ \A box \in Boxes : r.status \in StatusesOf(box) => box = home
      /\ Allowed(home, status)
  BY ListingAssumption DEF BoxOf, Boxes, StatusesOf, Allowed
<1>3. ASSUME NEW box \in Boxes, Allowed(box, status)
      PROVE  r \in Matching(rows, owner, box, status) <=> r.owner = owner /\ box = home
  BY <1>2, <1>3 DEF Matching, Allowed
<1>4. CASE r.owner # owner
  <2>1. ASSUME NEW box \in Boxes, NEW n, On(box, n) PROVE FALSE
    <3>1. Allowed(box, status) /\ r \notin Matching(rows, owner, box, status)
      BY <1>3, <1>4, <2>1
    <3> QED
      BY <1>1, <2>1, <3>1, ListPages
  <2>2. places = {}
    BY <2>1
  <2>3. Visible(rows, owner, r.id) = {}
    BY <1>1, <1>4 DEF Visible
  <2> QED
    BY <2>2, <2>3
<1>5. CASE r.owner = owner
  <2>1. r \in Matching(rows, owner, home, status)
    BY <1>2, <1>3, <1>5
  <2> DEFINE pages == Paged(rows, owner, home, status, asked)
  <2>2. PICK p \in DOMAIN pages : \A q \in DOMAIN pages : r \in Range(pages[q]) <=> q = p
    BY <1>1, <1>2, <2>1, ListPages
  <2>3. DOMAIN pages \subseteq 1 .. Cardinality(rows)
    BY <1>1, <1>2, ListPages
  <2>4. \A n : On(home, n) <=> n = p
    BY <1>2, <2>2
  <2>5. ASSUME NEW box \in Boxes, NEW n, On(box, n) PROVE box = home
    <3>1. CASE r \in Matching(rows, owner, box, status)
      BY <1>3, <2>5, <3>1
    <3>2. CASE r \notin Matching(rows, owner, box, status)
      BY <1>1, <2>5, <3>2, ListPages
    <3> QED
      BY <3>1, <3>2
  <2>6. places = {<<home, p>>}
    <3> HIDE DEF On, home
    <3>1. p \in 1 .. Cardinality(rows)
      BY <2>2, <2>3
    <3>2. <<home, p>> \in places
      BY <1>2, <2>4, <3>1
    <3>3. ASSUME NEW at \in places PROVE at = <<home, p>>
      BY <2>4, <2>5
    <3> QED
      BY <3>2, <3>3
  <2>7. Visible(rows, owner, r.id) = {r}
    BY <1>1, <1>5 DEF Visible
  <2>8. Cardinality(places) = Cardinality(Visible(rows, owner, r.id))
    BY <2>6, <2>7, FS_Singleton
  <2> QED
    BY <2>8
<1> QED
  BY <1>4, <1>5

\* Every e-mail of a user is on one page of one box, in every table.
THEOREM ListsAreComplete == Spec => []EachListedOnce
<1>1. EachListedOnce
  BY TablesAreListed DEF EachListedOnce
<1> QED
  BY <1>1, PTL

=============================================================================
