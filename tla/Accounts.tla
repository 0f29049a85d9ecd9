------------------------------ MODULE Accounts -----------------------------
(***************************************************************************)
(* The accounts of the API (services/authService.ts) as the rows of table  *)
(* users, one per e-mail address, which is unique.  An account is never    *)
(* deleted, and its address names it.  A Google identity has one address.  *)
(***************************************************************************)
CONSTANTS
    Emails, \* addresses, normalised
    None    \* null: no token, nobody

VARIABLE accounts \* how each address signs in: "none", "password" or "google"

NoneIsNobody == None \notin Emails

AccountsOK == accounts \in [Emails -> {"none", "password", "google"}]

Exists(e) == accounts[e] # "none"

\* Mutant of CreateUser: what is there is overwritten.
UpsertUser(e) == accounts' = [accounts EXCEPT ![e] = "password"]

\* The create of registerWithEmail, refused when another one was faster.
CreateUser(e) ==
    /\ ~Exists(e)
    /\ accounts' = [accounts EXCEPT ![e] = "password"]

\* An account made by Google has no password to verify.
VerifyEmailPassword(e) == accounts[e] = "password"

\* upsertGoogleUser: found by the Google identity, else created; the create is
\* refused when the address belongs to an account with a password.
\* (The update writes the address Google gives, as it is: taken for granted are that
\* an identity of Google keeps its address and that Google writes it in small
\* letters, as registrations are stored.)
UpsertGoogleUser(e) ==
    /\ accounts[e] # "password"
    /\ accounts' = [accounts EXCEPT ![e] = "google"]
============================================================================
