---------------------------- MODULE AuthContext ----------------------------
(***************************************************************************)
(* The session of one browser: AuthProvider and the token in localStorage  *)
(* (frontend/lib/auth-context.tsx, lib/api.ts), the login, callback and    *)
(* protected pages, and the auth routes of the API.  localStorage belongs  *)
(* to the browser, the user in memory to each tab.  A token is the account *)
(* it names.  A call carries the token it was sent with; its answer comes  *)
(* whenever, and after fifteen seconds without one the page gives up.      *)
(* Page "dashboard" stands for every page behind ProtectedRoute.           *)
(***************************************************************************)
EXTENDS Accounts, Naturals, FiniteSets

CONSTANTS
    Tabs,     \* tabs of the browser
    Nobody,   \* the tab of a call whose page has given up or gone
    MaxFlows, \* bound: Google sign-ins started
    MaxEvents \* bound: things the user does

ASSUME SessionAssumption ==
    NoneIsNobody /\ Nobody \notin Tabs /\ MaxFlows \in Nat /\ MaxEvents \in Nat

VARIABLES
    token,        \* reachinbox_token
    storedUser,   \* reachinbox_user
    stateCookie,  \* the oauth_state cookie: the flow it was set for, or 0
    path,         \* the page each tab is on; "google" is outside
    user,         \* the user in the memory of each tab
    initializing, \* the validation at start-up is under way
    calls,        \* API calls of the session under way
    flow,         \* the Google sign-in each tab has started last
    flows,        \* Google sign-ins so far
    events,       \* user events so far
    served,       \* (history) Google sign-ins that have signed somebody in
    raced         \* (history) tabs whose session somebody else has overwritten

stored == <<token, storedUser>>
server == <<accounts, stateCookie, flows, served>>
tabVars == <<path, user, initializing, flow>>
authVars == <<server, stored, tabVars, calls, events, raced>>

Call(t, kind, e) == [tab |-> t, kind |-> kind, as |-> e]
Kinds == {"start", "login", "register", "hashing", "created", "exchange", "redirect", "google"}
Identities == Emails \cup {None}

Pending(t, kinds) == {c \in calls : c.tab = t /\ c.kind \in kinds}
Busy(t) == Pending(t, {"login", "register", "hashing", "created"}) # {}

AuthTypeOK ==
    /\ AccountsOK
    /\ token \in Identities /\ storedUser \in Identities
    /\ stateCookie \in 0 .. MaxFlows /\ flows \in 0 .. MaxFlows /\ events \in 0 .. MaxEvents
    /\ path \in [Tabs -> {"closed", "login", "google", "oauth", "dashboard"}]
    /\ user \in [Tabs -> Identities]
    /\ initializing \in [Tabs -> BOOLEAN]
    /\ flow \in [Tabs -> 0 .. MaxFlows]
    /\ calls \subseteq [tab : Tabs \cup {Nobody}, kind : Kinds, as : Emails]
    /\ served \subseteq 1 .. MaxFlows /\ raced \subseteq Tabs

\* A browser that was used before: signed in to an account, or not.
AuthInit ==
    /\ AccountsOK
    /\ token \in {None} \cup {e \in Emails : Exists(e)} /\ storedUser = token
    /\ stateCookie = 0 /\ flows = 0 /\ events = 0
    /\ path = [t \in Tabs |-> "closed"]
    /\ user = [t \in Tabs |-> None]
    /\ initializing = [t \in Tabs |-> FALSE]
    /\ calls = {} /\ served = {} /\ raced = {}
    /\ flow = [t \in Tabs |-> 0]

UserEvent == events < MaxEvents /\ events' = events + 1

Goes(t, page) == path' = [path EXCEPT ![t] = page]

\* persistSession and setUser in tab t: the browser's session is e's now.
Persist(t, e) ==
    /\ token' = e /\ storedUser' = e
    /\ user' = [user EXCEPT ![t] = e]
    /\ raced' = (IF e = token THEN raced ELSE raced \cup Tabs) \ {t}

Clear(t) == Persist(t, None)

\* Of calls that nobody waits for any more: those the server still works on.
Unattended(gone) ==
    {[c EXCEPT !.tab = Nobody] : c \in {d \in gone : d.kind \in {"register", "hashing", "exchange"}}}

\* The calls once the page of t is gone.
Orphaned(t) == {c \in calls : c.tab # t} \cup Unattended({c \in calls : c.tab = t})

----------------------------------------------------------------------------
(* Page loads and the validation at start-up *)

\* Mutant of Load: /auth/me is asked also without a token.
LoadAlways(t, page) ==
    /\ Goes(t, page)
    /\ calls' = Orphaned(t) \cup {Call(t, "start", token)}
    /\ user' = [user EXCEPT ![t] = storedUser]
    /\ initializing' = [initializing EXCEPT ![t] = TRUE]
    /\ raced' = raced \ {t}
    /\ UNCHANGED stored

\* AuthProvider mounts with the stored user.  Without a token nobody is signed
\* in; with one the user stays until /auth/me has answered.
Load(t, page) ==
    /\ Goes(t, page)
    /\ IF token = None
       THEN /\ calls' = Orphaned(t)
            /\ user' = [user EXCEPT ![t] = None]
       ELSE /\ calls' = Orphaned(t) \cup {Call(t, "start", token)}
            /\ user' = [user EXCEPT ![t] = storedUser]
    /\ initializing' = [initializing EXCEPT ![t] = token # None]
    /\ raced' = raced \ {t}
    /\ UNCHANGED stored

Open(t) ==
    /\ UserEvent
    /\ \E page \in {"login", "dashboard"} : Load(t, page)
    /\ UNCHANGED <<server, flow>>

\* /auth/me answers with the user of the token it was asked with, which is
\* stored and shown even if somebody else has signed in meanwhile.
StartAnswers(c) ==
    /\ c \in calls /\ c.kind = "start" /\ calls' = calls \ {c}
    /\ storedUser' = c.as
    /\ user' = [user EXCEPT ![c.tab] = c.as]
    /\ initializing' = [initializing EXCEPT ![c.tab] = FALSE]
    /\ raced' = IF token = c.as THEN raced ELSE raced \cup {c.tab}
    /\ UNCHANGED <<server, token, path, flow, events>>

\* Whatever went wrong, a 401 or the network, the stored session is cleared.
StartFails(c) ==
    /\ c \in calls /\ c.kind = "start" /\ calls' = calls \ {c}
    /\ Clear(c.tab)
    /\ initializing' = [initializing EXCEPT ![c.tab] = FALSE]
    /\ UNCHANGED <<server, path, flow, events>>

\* ProtectedRoute sends away whom it does not know.
Redirect(t) ==
    /\ path[t] = "dashboard" /\ ~initializing[t] /\ user[t] = None
    /\ Goes(t, "login")
    /\ UNCHANGED <<server, stored, user, initializing, calls, flow, events, raced>>

----------------------------------------------------------------------------
(* Login, registration and logout *)

\* onSubmit of the login page, in either mode.
SignIn(t, kind, e) ==
    /\ UserEvent
    /\ path[t] = "login" /\ ~Busy(t)
    /\ calls' = calls \cup {Call(t, kind, e)}
    /\ UNCHANGED <<server, stored, tabVars, raced>>

\* login and register after the await, and the push to the dashboard.
SignedIn(t, e) == Persist(t, e) /\ Goes(t, "dashboard")

LoginAnswers(c) ==
    /\ c \in calls /\ c.kind = "login" /\ calls' = calls \ {c}
    /\ VerifyEmailPassword(c.as)
    /\ SignedIn(c.tab, c.as)
    /\ UNCHANGED <<server, initializing, flow, events>>

\* A 401, an error, or no answer in time.
LoginFails(c) ==
    /\ c \in calls /\ c.kind = "login" /\ calls' = calls \ {c}
    /\ UNCHANGED <<server, stored, tabVars, events, raced>>

\* registerWithEmail up to hashPassword; a taken address is answered 409.
RegisterLooksUp(c) ==
    /\ c \in calls /\ c.kind = "register"
    /\ calls' = (calls \ {c}) \cup
                {h \in {[c EXCEPT !.kind = "hashing"]} : ~Exists(c.as)}
    /\ UNCHANGED <<server, stored, tabVars, events, raced>>

\* The account is created, and the answer under way if a page waits for it.
RegisterCreates(c) ==
    /\ c \in calls /\ c.kind = "hashing"
    /\ CreateUser(c.as)
    /\ calls' = (calls \ {c}) \cup {a \in {[c EXCEPT !.kind = "created"]} : a.tab # Nobody}
    /\ UNCHANGED <<stored, stateCookie, flows, served, tabVars, events, raced>>

RegisterAnswers(c) ==
    /\ c \in calls /\ c.kind = "created" /\ calls' = calls \ {c}
    /\ SignedIn(c.tab, c.as)
    /\ UNCHANGED <<server, initializing, flow, events>>

\* Another registration of the address was faster, or the database fails.
RegisterFails(c) ==
    /\ c \in calls /\ c.kind \in {"register", "hashing"} /\ calls' = calls \ {c}
    /\ UNCHANGED <<server, stored, tabVars, events, raced>>

\* The page gives up, or the answer is lost; the server does not know.
RegisterTimesOut(c) ==
    /\ c \in calls /\ c.kind \in {"register", "hashing", "created"} /\ c.tab # Nobody
    /\ calls' = (calls \ {c}) \cup Unattended({c})
    /\ UNCHANGED <<server, stored, tabVars, events, raced>>

\* logout and the profile menu; the call to /auth/logout is not waited for.
Logout(t) ==
    /\ UserEvent
    /\ path[t] = "dashboard" /\ ~initializing[t] /\ user[t] # None
    /\ Clear(t) /\ Goes(t, "login")
    /\ UNCHANGED <<server, initializing, calls, flow>>

----------------------------------------------------------------------------
(* Sign-in with Google *)

\* The browser leaves the page of t for Google's.
ToGoogle(t) ==
    /\ Goes(t, "google") /\ calls' = Orphaned(t)
    /\ user' = [user EXCEPT ![t] = None] /\ initializing' = [initializing EXCEPT ![t] = FALSE]
    /\ UNCHANGED <<accounts, stored, served, raced>>

\* GET /auth/google: there is a new state cookie.
StartGoogle(t) ==
    /\ UserEvent
    /\ path[t] = "login" /\ ~Busy(t) /\ flows < MaxFlows
    /\ flows' = flows + 1 /\ stateCookie' = flows'
    /\ flow' = [flow EXCEPT ![t] = flows']
    /\ ToGoogle(t)

\* Back, in the browser, to Google's pages of the last sign-in of t.
BackToGoogle(t) ==
    /\ UserEvent
    /\ flow[t] # 0 /\ path[t] # "google"
    /\ ToGoogle(t)
    /\ UNCHANGED <<stateCookie, flows, flow>>

\* The state that comes back is the one of the cookie.
StateMatches(t) == stateCookie = flow[t]

\* GET /auth/google/callback up to the exchange of the code.  Requested anew
\* while an earlier request is under way, it replaces that one in the browser
\* and not in the server.
CallbackArrives(t, e) ==
    /\ path[t] = "google" /\ StateMatches(t)
    /\ calls' = Orphaned(t) \cup {Call(t, "exchange", e)}
    /\ UNCHANGED <<server, stored, tabVars, events, raced>>

\* The code has been exchanged and the account stored: the answer is under way,
\* if somebody waits for it.
GoogleUpserts(c) ==
    /\ c \in calls /\ c.kind = "exchange"
    /\ UpsertGoogleUser(c.as)
    /\ calls' = (calls \ {c}) \cup {a \in {[c EXCEPT !.kind = "redirect"]} : a.tab # Nobody}
    /\ UNCHANGED <<stored, stateCookie, flows, served, tabVars, events, raced>>

\* Mutant of GoogleReturns: the state cookie is left.
GoogleReturnsKeeping(c) ==
    /\ c \in calls /\ c.kind = "redirect"
    /\ calls' = (calls \ {c}) \cup {Call(c.tab, "google", c.as)}
    /\ served' = served \cup {flow[c.tab]} /\ token' = c.as
    /\ Goes(c.tab, "oauth") /\ user' = [user EXCEPT ![c.tab] = storedUser]
    /\ raced' = (IF c.as = token THEN raced ELSE raced \cup Tabs) \ {c.tab}
    /\ UNCHANGED <<accounts, stateCookie, flows, storedUser, initializing, flow, events>>

\* The answer arrives: the cookie goes, whichever flow it is of by now, and the
\* callback page stores the token before it asks whose it is.
GoogleReturns(c) ==
    /\ c \in calls /\ c.kind = "redirect"
    /\ calls' = (calls \ {c}) \cup {Call(c.tab, "google", c.as)}
    /\ stateCookie' = 0 /\ served' = served \cup {flow[c.tab]} /\ token' = c.as
    /\ Goes(c.tab, "oauth") /\ user' = [user EXCEPT ![c.tab] = storedUser]
    /\ raced' = (IF c.as = token THEN raced ELSE raced \cup Tabs) \ {c.tab}
    /\ UNCHANGED <<accounts, flows, storedUser, initializing, flow, events>>

\* Cancelled, no code, another state, an exchange or an account that fails; this
\* answer, too, takes the cookie.
GoogleRefused(t) ==
    /\ path[t] = "google"
    /\ stateCookie' = 0
    /\ Load(t, "login")
    /\ UNCHANGED <<accounts, flows, served, flow, events>>

\* completeGoogleLogin after the await, and the push to the dashboard.
GoogleAnswers(c) ==
    /\ c \in calls /\ c.kind = "google" /\ calls' = calls \ {c}
    /\ storedUser' = c.as /\ user' = [user EXCEPT ![c.tab] = c.as]
    /\ Goes(c.tab, "dashboard")
    /\ raced' = IF token = c.as THEN raced ELSE raced \cup {c.tab}
    /\ UNCHANGED <<server, token, initializing, flow, events>>

GoogleFails(c) ==
    /\ c \in calls /\ c.kind = "google" /\ calls' = calls \ {c}
    /\ Clear(c.tab)
    /\ UNCHANGED <<server, path, initializing, flow, events>>

\* The link of the callback page's error.
BackToLogin(t) ==
    /\ path[t] = "oauth" /\ Pending(t, {"google"}) = {}
    /\ Goes(t, "login")
    /\ UNCHANGED <<server, stored, user, initializing, calls, flow, events, raced>>
============================================================================
