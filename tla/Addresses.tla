----------------------------- MODULE Addresses -----------------------------
(***************************************************************************)
(* The e-mail addresses that the form, the lead parser and the API work    *)
(* on, as the entries a user types or uploads.  All three use the same     *)
(* normalisation, trim().toLowerCase(), and the same EMAIL_REGEX.          *)
(***************************************************************************)
CONSTANTS
    Entries,  \* raw recipient entries, and what trim().toLowerCase() makes of them
    Blank,    \* the entry that is empty once trimmed
    Valid,    \* the entries EMAIL_REGEX accepts
    Normal(_) \* trim().toLowerCase()

ASSUME EntriesAssumption ==
    /\ Blank \in Entries \ Valid /\ Valid \subseteq Entries
    /\ \A e \in Entries : Normal(e) \in Entries /\ Normal(Normal(e)) = Normal(e)
============================================================================
