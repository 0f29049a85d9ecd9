-------------------------- MODULE ComposeFormProofs ------------------------
(***************************************************************************)
(* What holds of ComposeForm for any mails, files, limits and entries: the *)
(* submissions of the page one at a time, what that means for the batches  *)
(* they become, where the attachments of the form come from and what they  *)
(* add up to, what the fields of the form keep, what the API makes of what *)
(* was posted, and the numbers that the page shows of a file of leads.     *)
(***************************************************************************)
EXTENDS ComposeForm, BatchCreationProofs, FiniteSetTheorems

----------------------------------------------------------------------------
(* One submission at a time *)

\* The flag that disables the button, and the two states in which the button of
\* a failed submission or the success view take its place.
OneWaits ==
    /\ isSubmitting \in BOOLEAN /\ (isSubmitting <=> awaiting # {})
    /\ \A p, q \in awaiting : p = q
    /\ submitError => awaiting = {}
    /\ success # None => awaiting = {}

LEMMA OneWaitsStep == OneWaits /\ [FormNext]_<<vars, page>> => OneWaits'
<1> SUFFICES ASSUME OneWaits, [FormNext]_<<vars, page>> PROVE OneWaits'
  OBVIOUS
<1>1. ASSUME Input, success' = success, submitError' = submitError \/ submitError' = FALSE
      PROVE  OneWaits'
  BY <1>1 DEF Input, posting, OneWaits
<1>2. ASSUME Input, success' = None, submitError' = FALSE PROVE OneWaits'
  BY <1>2 DEF Input, posting, OneWaits
<1>3. ASSUME NEW q \in Requests, Submit(q) PROVE OneWaits'
  BY <1>3 DEF Submit, Clickable, CanSubmit, OneWaits
<1>4. ASSUME NEW q \in Requests, Scheduled(q) \/ SubmitFails(q) PROVE OneWaits'
  BY <1>4 DEF Scheduled, SubmitFails, OneWaits
<1>5. CASE SubmitRefused \/ Reset \/ Leave
  <2>1. CASE SubmitRefused
    BY <2>1 DEF SubmitRefused, posting, OneWaits
  <2>2. CASE Reset
    BY <2>2 DEF Reset, posting, OneWaits
  <2>3. CASE Leave
    BY <2>3 DEF Leave, Mounted, OneWaits
  <2> QED
    BY <1>5, <2>1, <2>2, <2>3
<1>6. CASE UserStep
  BY <1>6, <1>1, <1>2, <1>3, <1>5
     DEF UserStep, SetField, AddRecipient, RemoveRecipient, ChooseLeadFile, PickAttachments,
         RemoveAttachment, RetryLoad
<1>7. CASE PageStep
  <2>1. UNCHANGED <<posting, submitError, success>> => OneWaits'
    BY DEF posting, OneWaits
  <2> QED
    BY <1>7, <2>1, <1>4 DEF PageStep, LoadData, LoadFails, MergeLeads, LeadFileFails, AttachPick,
                            PickFails
<1>8. CASE ServerStep \/ UNCHANGED <<vars, page>>
  BY <1>8 DEF ServerStep, page, OneWaits
<1> QED
  BY <1>6, <1>7, <1>8 DEF FormNext

LEMMA OneWaitsAlways == FormSpec => []OneWaits
<1>1. FormInit => OneWaits
  BY DEF FormInit, OneWaits
<1> QED
  BY <1>1, OneWaitsStep, PTL DEF FormSpec

\* useComposeEmail waits for at most one submission, and isSubmitting tells.
THEOREM OneSubmission == FormSpec => []OneInFlight
<1>1. OneWaits => OneInFlight
  <2> SUFFICES ASSUME OneWaits PROVE OneInFlight
    OBVIOUS
  <2>1. CASE awaiting = {}
    BY <2>1, FS_EmptySet DEF OneInFlight, OneWaits
  <2>2. CASE awaiting # {}
    <3>1. PICK q \in awaiting : TRUE
      BY <2>2
    <3>2. awaiting = {q}
      BY <3>1 DEF OneWaits
    <3> QED
      BY <3>2, FS_Singleton DEF OneInFlight, OneWaits
  <2> QED
    BY <2>1, <2>2
<1> QED
  BY <1>1, OneWaitsAlways, PTL

----------------------------------------------------------------------------
(* The steps of the page, as the batch API sees them *)

\* A step of the page that posts nothing gives up only on what it stops waiting
\* for, unless that has ended.
LEMMA PageOnly ==
    ASSUME FormNext, ~ServerStep, \A q \in Requests : ~Submit(q)
    PROVE  /\ UNCHANGED <<vars, posted>>
           /\ awaiting' \subseteq awaiting /\ gaveUp \subseteq gaveUp'
           /\ \A q \in awaiting : q \in awaiting' \cup gaveUp' \/ phase[q] = "end"
<1>1. CASE UserStep
  BY <1>1 DEF UserStep, SetField, AddRecipient, RemoveRecipient, ChooseLeadFile, PickAttachments,
              RemoveAttachment, RetryLoad, SubmitRefused, Reset, Leave, Mounted, Input, posting
<1>2. CASE PageStep
  BY <1>2 DEF PageStep, LoadData, LoadFails, MergeLeads, LeadFileFails, AttachPick, PickFails,
              Scheduled, SubmitFails, Answered, posting
<1> QED
  BY <1>1, <1>2 DEF FormNext

\* What a step of a request leaves to the others, and what its batch, its phase
\* and what it has seen may become.
LEMMA OneRequest ==
    ASSUME Order, NEW q \in Requests, RequestStep(q)
    PROVE  /\ req' = req /\ phase[q] # "end"
           /\ \A p \in Requests \ {q} : /\ phase'[p] = phase[p] /\ created'[p] = created[p]
                                        /\ saw'[p] = saw[p]
           /\ phase'[q] = "create" => saw'[q] = Batches
           /\ created'[q] # Never => /\ saw'[q] = saw[q]
                                     /\ phase[q] = "create" \/ created[q] # Never
           /\ phase'[q] \notin {"new", "end"} /\ phase[q] = "new" => Acceptable(req[q])
<1> USE DEF Order, Moves, Phases, Never
<1>1. CASE Receive(q) \/ Reject(q) \/ ResolveSender(q) \/ NoSender(q)
  BY <1>1 DEF Receive, Reject, ResolveSender, NoSender, Answer
<1>2. CASE FindExisting(q) \/ FindNothing(q)
  BY <1>2 DEF FindExisting, FindNothing
<1>3. CASE Summarise(q) \/ Create(q) \/ Enqueue(q)
  BY <1>3 DEF Summarise, Create, Commit, Enqueue
<1>4. CASE DbRejects(q) \/ Dies(q)
  BY <1>4 DEF DbRejects, Dies, MaybeCommitted, Commit
<1> QED
  BY <1>1, <1>2, <1>3, <1>4 DEF RequestStep

----------------------------------------------------------------------------
(* Copies *)

\* Request b had ended before c looked up, and c has seen its batch.
Follows(b, c) ==
    /\ phase[b] = "end"
    /\ created[b] # Never /\ (phase[c] = "create" \/ created[c] # Never) => b \in saw[c]

\* A request is waited for, given up or over, so that of two which the page did
\* not give up on one follows the other.
InTurn ==
    /\ DOMAIN req = Requests /\ posted \subseteq Requests /\ awaiting \subseteq posted
    /\ \A q \in Requests \ posted : phase[q] = "new"
    /\ \A q \in posted : q \in awaiting \cup gaveUp \/ phase[q] = "end"
    /\ \A b, c \in posted \ gaveUp : b # c => Follows(b, c) \/ Follows(c, b)

FormInv == OneWaits /\ LookUpInv /\ InTurn

LEMMA InTurnStep == FormInv /\ [FormNext]_<<vars, page>> => InTurn'
<1> SUFFICES ASSUME FormInv, [FormNext]_<<vars, page>> PROVE InTurn'
  OBVIOUS
<1>1. ASSUME UNCHANGED <<vars, posted>>, awaiting' \subseteq awaiting, gaveUp \subseteq gaveUp',
             \A q \in awaiting : q \in awaiting' \cup gaveUp' \/ phase[q] = "end"
      PROVE  InTurn'
  BY <1>1 DEF vars, FormInv, InTurn, Follows
<1>2. ASSUME NEW q \in Requests, Submit(q) PROVE InTurn'
  <2>1. /\ awaiting = {} /\ q \notin posted
        /\ posted' = posted \cup {q} /\ awaiting' = awaiting \cup {q}
        /\ DOMAIN req' = DOMAIN req
        /\ UNCHANGED <<phase, created, saw, gaveUp>>
    BY <1>2 DEF Submit, Clickable, CanSubmit, FormInv, OneWaits
  <2>2. created[q] = Never /\ phase[q] = "new"
    BY <2>1 DEF FormInv, InTurn, LookUpInv, Order
  <2>3. ASSUME NEW b \in posted \ gaveUp PROVE phase[b] = "end" /\ Follows(b, q)'
    BY <2>1, <2>2, <2>3 DEF FormInv, InTurn, Follows
  <2>4. ASSUME NEW b \in posted' \ gaveUp', NEW c \in posted' \ gaveUp', b # c
        PROVE  Follows(b, c)' \/ Follows(c, b)'
    BY <2>1, <2>3, <2>4 DEF FormInv, InTurn, Follows
  <2> QED
    BY <2>1, <2>4 DEF FormInv, InTurn
<1>3. CASE ServerStep
  <2>1. UNCHANGED page
    BY <1>3 DEF ServerStep
  <2>2. CASE Tick
    BY <2>1, <2>2 DEF page, Tick, FormInv, InTurn, Follows
  <2>3. ASSUME NEW q \in posted, RequestStep(q) PROVE InTurn'
    <3>1. Order /\ q \in Requests
      BY DEF FormInv, LookUpInv, InTurn
    <3>2. ASSUME NEW b \in posted, NEW c \in posted, Follows(b, c) PROVE Follows(b, c)'
      <4>1. b \in Requests /\ c \in Requests /\ b # q
        BY <2>3, <3>1, <3>2, OneRequest DEF FormInv, InTurn, Follows
      <4>2. phase'[b] = phase[b] /\ created'[b] = created[b]
        BY <2>3, <3>1, <4>1, OneRequest
      <4>3. CASE c = q
        BY <2>3, <3>1, <3>2, <4>1, <4>2, <4>3, OneRequest DEF Follows, Batches
      <4>4. CASE c # q
        BY <2>3, <3>1, <3>2, <4>1, <4>2, <4>4, OneRequest DEF Follows
      <4> QED
        BY <4>3, <4>4
    <3>3. \A p \in Requests \ {q} : phase'[p] = phase[p]
      BY <2>3, <3>1, OneRequest
    <3>4. req' = req /\ phase[q] # "end"
      BY <2>3, <3>1, OneRequest
    <3>5. UNCHANGED <<posted, awaiting, gaveUp>>
      BY <2>1 DEF page
    <3> QED
      BY <3>2, <3>3, <3>4, <3>5 DEF FormInv, InTurn
  <2> QED
    BY <1>3, <2>2, <2>3 DEF ServerStep
<1>4. CASE UNCHANGED <<vars, page>>
  BY <1>4, <1>1 DEF page
<1> QED
  BY <1>1, <1>2, <1>3, <1>4, PageOnly DEF FormNext, UserStep

\* The form keeps what BatchCreation keeps: it posts requests that have not been
\* received yet, and no batch is one of theirs.
LEMMA LookUpKept == FormInv /\ [FormNext]_<<vars, page>> => LookUpInv'
<1> SUFFICES ASSUME FormInv, [FormNext]_<<vars, page>> PROVE LookUpInv'
  OBVIOUS
<1>1. CASE [Next]_vars
  BY <1>1, OrderStep, OldOnlyStep DEF FormInv, LookUpInv
<1>2. ASSUME NEW q \in Requests, Submit(q) PROVE LookUpInv'
  <2>1. /\ q \notin posted /\ UNCHANGED <<now, phase, cutoff, created, saw>>
        /\ \A p \in Requests \ {q} : req'[p] = req[p]
    BY <1>2 DEF Submit, FormInv, InTurn
  <2>2. created[q] = Never /\ phase[q] = "new"
    BY <2>1 DEF FormInv, InTurn, LookUpInv, Order
  <2>3. Order'
    BY <2>1 DEF FormInv, LookUpInv, Order
  <2>4. ASSUME NEW p \in Requests, phase'[p] = "create" \/ created'[p] # Never, NEW b \in saw'[p]
        PROVE  created'[b] # Never /\ (SameKey(req'[b], req'[p]) => created'[b] < cutoff'[p])
    <3>1. b \in Requests /\ created[b] # Never /\ b # q /\ p # q
      BY <2>1, <2>2, <2>4 DEF FormInv, LookUpInv, Order, OldOnly
    <3> QED
      BY <2>1, <2>4, <3>1 DEF FormInv, LookUpInv, OldOnly
  <2> QED
    BY <2>3, <2>4 DEF LookUpInv, OldOnly
<1>3. CASE ServerStep
  <2>1. [Next]_vars
    BY <1>3 DEF ServerStep, Next, FormInv, InTurn
  <2> QED
    BY <2>1, <1>1
<1> QED
  BY <1>1, <1>2, <1>3, PageOnly DEF FormNext, vars

LEMMA FormAlways == FormSpec => []FormInv
<1>1. FormInit => FormInv
  <2> SUFFICES ASSUME FormInit PROVE FormInv
    OBVIOUS
  <2>1. OneWaits
    BY DEF FormInit, OneWaits
  <2>2. LookUpInv
    BY DEF FormInit, Init, LookUpInv, Order, OldOnly, Phases, Never
  <2>3. InTurn
    BY DEF FormInit, Init, InTurn
  <2> QED
    BY <2>1, <2>2, <2>3 DEF FormInv
<1>2. FormInv /\ [FormNext]_<<vars, page>> => FormInv'
  BY OneWaitsStep, LookUpKept, InTurnStep DEF FormInv
<1> QED
  BY <1>1, <1>2, PTL DEF FormSpec

\* Two batches of a user under one key and in one window: the later one looked up
\* before the earlier was committed (BatchCreationProofs), which of two requests of
\* one page happens only when the page has given up on one while it was running
\* (lib/api.ts 70, useComposeEmail.ts 419).
THEOREM CopiesNeedGivingUp == FormSpec => []CopiesOnlyAfterGivingUp
<1>1. FormInv => CopiesOnlyAfterGivingUp
  <2> SUFFICES ASSUME FormInv, NEW b \in Batches, NEW c \in Batches, b # c,
                      SameKey(req[b], req[c]), created[b] <= created[c],
                      created[c] - created[b] <= Window, b \notin gaveUp, c \notin gaveUp
               PROVE  FALSE
    BY DEF CopiesOnlyAfterGivingUp
  <2>1. /\ b \in Requests /\ c \in Requests /\ created[b] # Never /\ created[c] # Never
        /\ created[b] \in Int /\ created[c] \in Int /\ cutoff[b] \in Int /\ cutoff[c] \in Int
    BY DEF Batches, FormInv, LookUpInv, Order, Never
  <2>2. b \in posted \ gaveUp /\ c \in posted \ gaveUp
    BY <2>1 DEF FormInv, LookUpInv, Order, InTurn
  <2>3. b \in saw[c] \/ c \in saw[b]
    BY <2>1, <2>2 DEF FormInv, InTurn, Follows
  <2>4. b \in saw[c] => created[b] < cutoff[c] /\ cutoff[c] + Window <= created[c]
    BY <2>1 DEF FormInv, LookUpInv, Order, OldOnly
  <2>5. c \in saw[b] => created[c] < cutoff[b] /\ cutoff[b] + Window <= created[b]
    BY <2>1 DEF FormInv, LookUpInv, Order, OldOnly, SameKey
  <2> QED
    BY <2>1, <2>3, <2>4, <2>5, ClockAssumption
<1> QED
  BY <1>1, FormAlways, PTL

----------------------------------------------------------------------------
(* Attachments *)

\* Every attachment of the form, and every one that is being read for it, was
\* taken for the mail in the form or was late when it began.
Accounted ==
    /\ DOMAIN form = {"recipients", "mail", "start", "delay", "limit", "attachments"}
    /\ form.attachments \subseteq ofMail \cup late
    /\ \A files \in picks : files \subseteq ofMail \cup late

LEMMA AccountedStep == Accounted /\ [FormNext]_<<vars, page>> => Accounted'
<1> SUFFICES ASSUME Accounted, [FormNext]_<<vars, page>> PROVE Accounted'
  OBVIOUS
<1>1. ASSUME UNCHANGED <<picks, history>>, form'.attachments = form.attachments,
             DOMAIN form' = DOMAIN form
      PROVE  Accounted'
  BY <1>1 DEF Accounted, history
<1>2. ASSUME NEW field \in {"mail", "start", "delay", "limit"}, NEW value, SetField(field, value)
      PROVE  Accounted'
  BY <1>1, <1>2 DEF SetField, Accounted
<1>3. ASSUME NEW files \in SUBSET Files, PickAttachments(files) PROVE Accounted'
  BY <1>3 DEF PickAttachments, Accounted
<1>4. ASSUME NEW name, RemoveAttachment(name) PROVE Accounted'
  BY <1>4 DEF RemoveAttachment, Accounted, history
<1>5. CASE Reset \/ Leave
  BY <1>5 DEF Reset, Leave, Mounted, EmptyForm, Accounted
<1>6. ASSUME NEW e, AddRecipient(e) \/ RemoveRecipient(e) PROVE Accounted'
  BY <1>1, <1>6 DEF AddRecipient, RemoveRecipient, Accounted
<1>7. CASE UserStep
  BY <1>1, <1>2, <1>3, <1>4, <1>5, <1>6, <1>7
     DEF UserStep, ChooseLeadFile, RetryLoad, Submit, SubmitRefused, history
<1>8. CASE LoadData \/ MergeLeads
  BY <1>1, <1>8 DEF LoadData, MergeLeads, Accounted
<1>9. ASSUME NEW files \in picks, AttachPick(files) \/ PickFails(files) PROVE Accounted'
  BY <1>9 DEF AttachPick, PickFails, Accounted, history
<1>10. CASE PageStep
  BY <1>1, <1>8, <1>9, <1>10 DEF PageStep, LoadFails, LeadFileFails, Scheduled, SubmitFails, history
<1>11. CASE ServerStep \/ UNCHANGED <<vars, page>>
  BY <1>1, <1>11 DEF ServerStep, page, history
<1> QED
  BY <1>7, <1>10, <1>11 DEF FormNext

\* A form that was emptied gets attachments of the mail before only from reads
\* that were under way (useComposeEmail.ts 330, 460).
THEOREM LeaksAreLate == FormSpec => []OnlyLateReadsLeak
<1>1. FormInit => Accounted
  BY DEF FormInit, EmptyForm, Accounted
<1>2. Accounted => OnlyLateReadsLeak
  BY DEF Accounted, OnlyLateReadsLeak
<1> QED
  BY <1>1, <1>2, AccountedStep, PTL DEF FormSpec

----------------------------------------------------------------------------
(* The lists of addresses *)

\* g[s] is what a filter leaves of the entries of list at s.
Filters(g, list, out) ==
    g = [s \in SUBSET DOMAIN list |->
           IF s = {} THEN <<>>
           ELSE IF list[Max(s)] \in out THEN g[s \ {Max(s)}]
                ELSE Append(g[s \ {Max(s)}], list[Max(s)])]

LEMMA WithoutUnfolds ==
    ASSUME NEW A, NEW list \in Seq(A), NEW out
    PROVE  \E g : Without(list, out) = g[DOMAIN list] /\ Filters(g, list, out)
<1> DEFINE D == DOMAIN list
           Eq(g) == [s \in SUBSET D |->
                       IF s = {} THEN <<>>
                       ELSE IF list[Max(s)] \in out THEN g[s \ {Max(s)}]
                            ELSE Append(g[s \ {Max(s)}], list[Max(s)])]
           step == [a \in Seq(A) \X D |->
                      IF list[a[2]] \in out THEN a[1] ELSE Append(a[1], list[a[2]])]
           max == [s \in SUBSET D |-> Max(s)]
<1>1. \E g : g = Eq(g)
  <2>1. IsFiniteSet(D)
    BY FS_Interval
  <2>2. step \in [Seq(A) \X D -> Seq(A)]
    OBVIOUS
  <2>3. \A s \in SUBSET D : s # {} => max[s] \in s
    BY MaxOfSome
  <2>4. <<>> \in Seq(A)
    OBVIOUS
  <2> HIDE DEF step
  <2>5. PICK g : FoldsTo(g, D, max, Seq(A), <<>>, step)
    <3> DEFINE B == Seq(A)
    <3>1. step \in [B \X D -> B] /\ <<>> \in B
      BY <2>2, <2>4
    <3> HIDE DEF max, D, B
    <3>2. \E g : FoldsTo(g, D, max, B, <<>>, step)
      BY <2>1, <2>3, <3>1, FoldExists
    <3> QED
      BY <3>2 DEF B
  <2>6. ASSUME NEW s \in SUBSET D, s # {}
        PROVE  g[s] = Eq(g)[s]
    <3>1. g[s \ {Max(s)}] \in Seq(A) /\ max[s] \in D /\ max[s] = Max(s)
      BY <2>3, <2>5, <2>6 DEF FoldsTo
    <3>2. g[s] = step[<<g[s \ {Max(s)}], Max(s)>>]
      BY <2>5, <2>6, <3>1 DEF FoldsTo, Rest
    <3> QED
      BY <2>6, <3>1, <3>2 DEF step
  <2>7. \A s \in SUBSET D : g[s] = Eq(g)[s]
    BY <2>5, <2>6 DEF FoldsTo
  <2>8. g = Eq(g)
    BY <2>5, <2>7 DEF FoldsTo
  <2> QED
    BY <2>8
<1> DEFINE it == CHOOSE g : g = Eq(g)
<1>2. it = Eq(it)
  <2> HIDE DEF Eq
  <2> QED
    BY <1>1
<1>3. Without(list, out) = it[D]
  BY DEF Without, FoldLeft, MapThenFoldSet
<1> QED
  BY <1>2, <1>3 DEF Filters

\* A filter takes the values in out, and no others; a list that had every value
\* once still has.
LEMMA WithoutFinds ==
    ASSUME NEW A, NEW list \in Seq(A), NEW out
    PROVE  /\ Without(list, out) \in Seq(A)
           /\ ToSet(Without(list, out)) = ToSet(list) \ out
           /\ IsInjective(list) => IsInjective(Without(list, out))
<1>1. PICK g : Without(list, out) = g[DOMAIN list] /\ Filters(g, list, out)
  BY WithoutUnfolds
<1> DEFINE D == DOMAIN list
           P == {s \in SUBSET D : /\ g[s] \in Seq(A)
                                  /\ ToSet(g[s]) = {list[k] : k \in s} \ out
                                  /\ IsInjective(list) => IsInjective(g[s])}
           max == [s \in SUBSET D |-> Max(s)]
<1>2. {} \in P
  BY <1>1 DEF Filters, ToSet, IsInjective
<1>3. ASSUME NEW s \in SUBSET D, s # {} PROVE max[s] \in s /\ (Rest(max, s) \in P => s \in P)
  <2>1. Max(s) \in s /\ max[s] = Max(s)
    BY <1>3, MaxOfSome
  <2> SUFFICES ASSUME s \ {Max(s)} \in P PROVE s \in P
    BY <2>1 DEF Rest
  <2> DEFINE acc == g[s \ {Max(s)}]
             e == list[Max(s)]
             all == {list[k] : k \in s}
             others == {list[k] : k \in s \ {Max(s)}}
  <2>2. /\ acc \in Seq(A) /\ ToSet(acc) = others \ out
        /\ IsInjective(list) => IsInjective(acc) 
    OBVIOUS
  <2>3. g[s] = IF e \in out THEN acc ELSE Append(acc, e)
    BY <1>1, <1>3 DEF Filters
  <2>4. all = others \cup {e} /\ e \in A
    BY <2>1
  <2>5. IsInjective(list) => e \notin others
    BY <2>1 DEF IsInjective
  <2> HIDE DEF acc, e, others, all
  <2>6. /\ g[s] \in Seq(A) /\ ToSet(g[s]) = (others \cup {e}) \ out
        /\ IsInjective(list) => IsInjective(g[s])
    BY <2>2, <2>3, <2>4, <2>5, AppendAdds
  <2> QED
    BY <2>4, <2>6 DEF all
<1>4. SUBSET D \subseteq P
  <2>1. IsFiniteSet(D)
    BY FS_Interval
  <2> HIDE DEF D, P, max
  <2> QED
    BY <1>2, <1>3, <2>1, SetInduction
<1>5. D \in P
  BY <1>4
<1>6. {list[k] : k \in D} = ToSet(list)
  BY DEF ToSet
<1> QED
  BY <1>1, <1>5, <1>6


\* The valid addresses as they are after normalisation.
Listed == {v \in Valid : Normal(v) = v}

\* What NormalizeEmails may have taken so far.
Takings == [valid : Seq(Listed), invalid : Nat, duplicatesRemoved : {0}, missingEmailColumn : {FALSE}]

\* What the loop of NormalizeEmails makes of one more address.
Takes(acc, email) ==
    IF email \notin Valid THEN [acc EXCEPT !.invalid = @ + 1]
    ELSE IF email \in ToSet(acc.valid) THEN acc
    ELSE [acc EXCEPT !.valid = Append(@, email)]

\* g[s] is what the loop makes of the addresses of list at s.
TakesAll(g, list) ==
    g = [s \in SUBSET DOMAIN list |->
           IF s = {} THEN NoLeads ELSE Takes(g[s \ {Max(s)}], list[Max(s)])]

LEMMA TakesType ==
    ASSUME NEW acc \in Takings, NEW email, Normal(email) = email
    PROVE  Takes(acc, email) \in Takings
<1>1. CASE email \notin Valid
  <2>1. acc.invalid + 1 \in Nat
    BY DEF Takings
  <2> QED
    BY <1>1, <2>1 DEF Takes, Takings
<1>2. CASE email \in Valid
  <2>1. email \in Listed
    BY <1>2 DEF Listed
  <2>2. Append(acc.valid, email) \in Seq(Listed)
    BY <2>1 DEF Takings
  <2> QED
    BY <1>2, <2>2 DEF Takes, Takings
<1> QED
  BY <1>1, <1>2

\* The entries that NormalizeEmails looks at.
Looked(input) == Without([i \in DOMAIN input |-> Normal(input[i])], {Blank})

LEMMA NormalizeUnfolds ==
    ASSUME NEW input, NEW list, list = Looked(input), list \in Seq({e \in Entries : Normal(e) = e})
    PROVE  \E g : /\ TakesAll(g, list)
                  /\ NormalizeEmails(input)
                        = [g[DOMAIN list] EXCEPT !.duplicatesRemoved =
                             Len(list) - g[DOMAIN list].invalid - Len(g[DOMAIN list].valid)]
<1> DEFINE D == DOMAIN list
           Eq(g) == [s \in SUBSET D |-> IF s = {} THEN NoLeads ELSE Takes(g[s \ {Max(s)}], list[Max(s)])]
           step == [a \in Takings \X D |-> Takes(a[1], list[a[2]])]
           max == [s \in SUBSET D |-> Max(s)]
<1>1. \E g : g = Eq(g)
  <2>1. IsFiniteSet(D)
    BY FS_Interval
  <2>2. step \in [Takings \X D -> Takings]
    BY TakesType
  <2>3. \A s \in SUBSET D : s # {} => max[s] \in s
    BY MaxOfSome
  <2>4. NoLeads \in Takings
    BY DEF NoLeads, Takings
  <2> HIDE DEF step
  <2>5. PICK g : FoldsTo(g, D, max, Takings, NoLeads, step)
    <3> HIDE DEF max, D
    <3> QED
      BY <2>1, <2>2, <2>3, <2>4, FoldExists
  <2>6. ASSUME NEW s \in SUBSET D, s # {}
        PROVE  g[s] = Eq(g)[s]
    <3>1. g[s \ {Max(s)}] \in Takings /\ max[s] \in D /\ max[s] = Max(s)
      BY <2>3, <2>5, <2>6 DEF FoldsTo
    <3>2. g[s] = step[<<g[s \ {Max(s)}], Max(s)>>]
      BY <2>5, <2>6, <3>1 DEF FoldsTo, Rest
    <3> QED
      BY <2>6, <3>1, <3>2 DEF step
  <2>7. \A s \in SUBSET D : g[s] = Eq(g)[s]
    BY <2>5, <2>6 DEF FoldsTo
  <2>8. g = Eq(g)
    BY <2>5, <2>7 DEF FoldsTo
  <2> QED
    BY <2>8
<1> DEFINE it == CHOOSE g : g = Eq(g)
<1>2. it = Eq(it)
  <2> HIDE DEF Eq
  <2> QED
    BY <1>1
<1>3. NormalizeEmails(input)
         = [it[D] EXCEPT !.duplicatesRemoved = Len(list) - it[D].invalid - Len(it[D].valid)]
  BY DEF NormalizeEmails, FoldLeft, MapThenFoldSet, Takes, Looked
<1> QED
  BY <1>2, <1>3 DEF TakesAll


\* What is looked at: the normalised entries that are not blank.
LEMMA LookedAt ==
    ASSUME NEW input \in Seq(Entries)
    PROVE  /\ Looked(input) \in Seq({e \in Entries : Normal(e) = e})
           /\ ToSet(Looked(input)) = {Normal(e) : e \in ToSet(input)} \ {Blank}
<1> DEFINE all == [i \in DOMAIN input |-> Normal(input[i])]
           A == {e \in Entries : Normal(e) = e}
<1>1. all \in Seq(A)
  <2>1. DOMAIN input = 1 .. Len(input) /\ Len(input) \in Nat /\ \A i \in DOMAIN input : input[i] \in Entries
    OBVIOUS
  <2>2. \A i \in DOMAIN input : Normal(input[i]) \in A
    BY <2>1, EntriesAssumption
  <2> HIDE DEF A
  <2> QED
    BY <2>1, <2>2
<1>2. ToSet(all) = {Normal(e) : e \in ToSet(input)}
  BY DEF ToSet
<1> HIDE DEF all, A
<1>3. Without(all, {Blank}) \in Seq(A) /\ ToSet(Without(all, {Blank})) = ToSet(all) \ {Blank}
  BY <1>1, WithoutFinds
<1> QED
  BY <1>2, <1>3 DEF Looked, all, A

\* normalizeEmails (recipientParser.ts): the valid addresses among the entries,
\* each once and normalised, and how many of the others are not blank.
LEMMA NormalizeFinds ==
    ASSUME NEW input \in Seq(Entries)
    PROVE  LET said == NormalizeEmails(input)
               list == Looked(input)
           IN  /\ said.valid \in Seq(Listed)
               /\ ToSet(said.valid) = {Normal(e) : e \in ToSet(input)} \cap Valid
               /\ IsInjective(said.valid)
               /\ said.invalid = Cardinality({k \in DOMAIN list : list[k] \notin Valid})
               /\ said.duplicatesRemoved = Len(list) - said.invalid - Len(said.valid)
<1> DEFINE said == NormalizeEmails(input)
           list == Looked(input)
           A == {e \in Entries : Normal(e) = e}
           D == DOMAIN list
           Bad(s) == {k \in s : list[k] \notin Valid}
<1>1. list \in Seq(A) /\ ToSet(list) = {Normal(e) : e \in ToSet(input)} \ {Blank}
  BY LookedAt
<1>2. PICK g : /\ TakesAll(g, list)
               /\ said = [g[D] EXCEPT !.duplicatesRemoved =
                             Len(list) - g[D].invalid - Len(g[D].valid)]
  BY <1>1, NormalizeUnfolds
<1> HIDE DEF said, list
<1>3. IsFiniteSet(D) /\ \A s \in SUBSET D : IsFiniteSet(s)
  BY <1>1, FS_Interval, FS_Subset
<1> DEFINE P == {s \in SUBSET D : /\ g[s] \in Takings
                                  /\ ToSet(g[s].valid) = {list[k] : k \in s} \cap Valid
                                  /\ IsInjective(g[s].valid)
                                  /\ g[s].invalid = Cardinality(Bad(s))}
           max == [s \in SUBSET D |-> Max(s)]
<1>4. {} \in P
  <2>1. g[{}] = NoLeads
    BY <1>2 DEF TakesAll
  <2>2. Bad({}) = {} /\ Cardinality({}) = 0
    BY FS_EmptySet
  <2>3. NoLeads \in Takings /\ NoLeads.valid = <<>> /\ NoLeads.invalid = 0
    BY DEF NoLeads, Takings
  <2>4. ToSet(<<>>) = {} /\ IsInjective(<<>>)
    BY DEF ToSet, IsInjective
  <2> QED
    BY <2>1, <2>2, <2>3, <2>4
<1>5. ASSUME NEW s \in SUBSET D, s # {} PROVE max[s] \in s /\ (Rest(max, s) \in P => s \in P)
  <2>1. Max(s) \in s /\ max[s] = Max(s)
    BY <1>1, <1>5, MaxOfSome
  <2> SUFFICES ASSUME s \ {Max(s)} \in P PROVE s \in P
    BY <2>1 DEF Rest
  <2> DEFINE t == s \ {Max(s)}
             acc == g[t]
             e == list[Max(s)]
             all == {list[k] : k \in s}
             others == {list[k] : k \in t}
  <2>2. /\ acc \in Takings /\ ToSet(acc.valid) = others \cap Valid /\ IsInjective(acc.valid)
        /\ acc.invalid = Cardinality(Bad(t))
    OBVIOUS
  <2>3. g[s] = Takes(acc, e)
    BY <1>2, <1>5 DEF TakesAll
  <2>4. all = others \cup {e} /\ Normal(e) = e
    BY <1>1, <2>1
  <2>5. /\ e \in Valid => Bad(s) = Bad(t)
        /\ e \notin Valid => Cardinality(Bad(s)) = Cardinality(Bad(t)) + 1
    <3>1. ASSUME e \notin Valid PROVE Bad(s) = Bad(t) \cup {Max(s)} /\ Max(s) \notin Bad(t)
      BY <2>1, <3>1
    <3>2. IsFiniteSet(Bad(t))
      BY <1>3, <2>1
    <3> QED
      BY <2>1, <3>1, <3>2, FS_AddElement
  <2> HIDE DEF acc, e, t, others, all
  <2>6. Takes(acc, e) \in Takings
    BY <2>2, <2>4, TakesType
  <2>7. CASE e \notin Valid
    <3>1. /\ Takes(acc, e).valid = acc.valid
          /\ Takes(acc, e).invalid = acc.invalid + 1
      BY <2>2, <2>7 DEF Takes, Takings
    <3> QED
      BY <2>2, <2>3, <2>4, <2>5, <2>6, <2>7, <3>1 DEF all
  <2>8. CASE e \in Valid /\ e \in ToSet(acc.valid)
    BY <2>2, <2>3, <2>4, <2>5, <2>6, <2>8 DEF Takes, all
  <2>9. CASE e \in Valid /\ e \notin ToSet(acc.valid)
    <3>1. /\ Takes(acc, e).valid = Append(acc.valid, e)
          /\ Takes(acc, e).invalid = acc.invalid
      BY <2>2, <2>9 DEF Takes, Takings
    <3>2. acc.valid \in Seq(Listed) /\ e \in Listed
      BY <2>2, <2>4, <2>9 DEF Takings, Listed
    <3>3. ToSet(Append(acc.valid, e)) = ToSet(acc.valid) \cup {e} /\ IsInjective(Append(acc.valid, e))
      BY <2>2, <2>9, <3>2, AppendAdds
    <3> QED
      BY <2>2, <2>3, <2>4, <2>5, <2>6, <2>9, <3>1, <3>3 DEF all
  <2> QED
    BY <2>7, <2>8, <2>9
<1>6. SUBSET D \subseteq P
  <2> HIDE DEF D, P, max
  <2> QED
    BY <1>3, <1>4, <1>5, SetInduction
<1>7. D \in P
  BY <1>6
<1>8. ToSet(list) = {list[k] : k \in D}
  BY DEF ToSet
<1>9. /\ said.valid = g[D].valid /\ said.invalid = g[D].invalid
      /\ said.duplicatesRemoved = Len(list) - said.invalid - Len(said.valid)
  <2>1. g[D] \in Takings
    BY <1>7
  <2> QED
    BY <1>2, <2>1 DEF Takings
<1>10. ToSet(said.valid) = {Normal(e) : e \in ToSet(input)} \cap Valid
  BY <1>1, <1>7, <1>8, <1>9, EntriesAssumption
<1> QED
  BY <1>7, <1>9, <1>10 DEF said, list, Takings


\* A list of addresses as the form keeps it.
Listing(s) == s \in Seq(Listed) /\ IsInjective(s)

LEMMA EmptyListing == Listing(<<>>)
BY DEF Listing, IsInjective

LEMMA NormalizeLists ==
    ASSUME NEW input \in Seq(Entries)
    PROVE  Listing(NormalizeEmails(input).valid)
BY NormalizeFinds DEF Listing

\* parseCsv (recipientParser.ts), whichever of its ways it takes.
LEMMA CsvLists ==
    ASSUME NEW cells \in Seq(Seq(Entries))
    PROVE  Listing(ParseCsv(cells).valid)
<1> DEFINE empty  == {r \in ToSet(cells) : \A c \in DOMAIN r : Normal(r[c]) = Blank}
           rows   == Without(cells, empty)
           header == [c \in DOMAIN Head(rows) |-> Normal(Head(rows)[c])]
           columns == {c \in DOMAIN header : header[c] \in Headers}
           column == CHOOSE c \in columns : \A d \in columns : c <= d
           cell(r) == IF column \in DOMAIN r THEN r[column] ELSE Blank
           body == [i \in 1 .. Len(rows) - 1 |-> cell(rows[i + 1])]
<1>1. rows \in Seq(Seq(Entries))
  BY WithoutFinds
<1>2. FlattenSeq(rows) \in Seq(Entries)
  BY <1>1, FlattenTypes
<1> HIDE DEF rows, column
<1>3. rows # <<>> => body \in Seq(Entries)
  <2> SUFFICES ASSUME rows # <<>> PROVE body \in Seq(Entries)
    OBVIOUS
  <2>1. Len(rows) - 1 \in Nat /\ \A i \in 1 .. Len(rows) - 1 : rows[i + 1] \in Seq(Entries)
    BY <1>1
  <2>2. ASSUME NEW r \in Seq(Entries) PROVE cell(r) \in Entries
    BY EntriesAssumption
  <2> HIDE DEF cell
  <2>3. \A i \in 1 .. Len(rows) - 1 : cell(rows[i + 1]) \in Entries
    BY <2>1, <2>2
  <2> QED
    BY <2>1, <2>3
<1>4. NoLeads.valid = <<>> /\ [NoLeads EXCEPT !.missingEmailColumn = TRUE].valid = <<>>
  BY DEF NoLeads
<1> HIDE DEF body, columns, header
<1>5. \/ ParseCsv(cells) = NoLeads
      \/ ParseCsv(cells) = [NoLeads EXCEPT !.missingEmailColumn = TRUE]
      \/ rows # <<>> /\ ParseCsv(cells) = NormalizeEmails(body)
      \/ ParseCsv(cells) = NormalizeEmails(FlattenSeq(rows))
  BY DEF ParseCsv, body, columns, header, column, rows
<1> QED
  BY <1>2, <1>3, <1>4, <1>5, EmptyListing, NormalizeLists

\* What a lead file adds to the form.
LEMMA LeadsList ==
    ASSUME NEW f \in LeadFiles
    PROVE  Listing(LeadsOf(f).valid)
<1>1. f.rows \in Seq(Seq(Entries))
  BY LeadFilesAssumption
<1>2. FlattenSeq(f.rows) \in Seq(Entries)
  BY <1>1, FlattenTypes
<1>3. NoLeads.valid = <<>>
  BY DEF NoLeads
<1> QED
  BY <1>1, <1>2, <1>3, EmptyListing, NormalizeLists, CsvLists DEF LeadsOf, ParseLeadText

----------------------------------------------------------------------------
(* The fields of the form *)

Forms == [recipients : Seq(Entries), mail : Mails, start : Nat \cup {None},
          delay : Nat, limit : Nat \cup {None}, attachments : SUBSET Files]

LEMMA EmptyFits ==
    ASSUME now \in Nat, NEW source \in {"fallback", "server"}
    PROVE  EmptyForm(Limits[source]) \in Forms /\ EmptyForm(Limits[source]).recipients = <<>>
<1>1. Limits[source].defaultDelay \in Nat /\ Limits[source].defaultLimit \in Nat /\ Blanked \in Mails
  BY FormAssumption
<1>2. DefaultStart \in Nat /\ <<>> \in Seq(Entries)
  BY DEF DefaultStart
<1> QED
  BY <1>1, <1>2 DEF EmptyForm, Forms

\* The types, and the lists of the form as the inductive invariant needs them.
FormTyped == FormTypeOK /\ Listing(form.recipients)

LEMMA UncheckedFits == Unchecked \in [Files -> [room : Nat, beside : SUBSET Files]]
  BY DEF Unchecked

LEMMA ListingFits ==
    ASSUME NEW s, Listing(s)
    PROVE  s \in Seq(Entries)
<1>1. Listed \subseteq Entries
  BY EntriesAssumption DEF Listed
<1> QED
  BY <1>1 DEF Listing

\* The list of the form after an address or a file was added, or one removed.
LEMMA ListAdds ==
    ASSUME NEW s, Listing(s), NEW e \in Entries, Normal(e) \in Valid, Normal(e) \notin ToSet(s)
    PROVE  Listing(Append(s, Normal(e))) /\ ToSet(s) \subseteq ToSet(Append(s, Normal(e)))
<1>1. Normal(e) \in Listed
  BY EntriesAssumption DEF Listed
<1> QED
  BY <1>1, AppendAdds DEF Listing

LEMMA ListJoins ==
    ASSUME NEW s, Listing(s), NEW t, Listing(t)
    PROVE  /\ Listing(s \o Without(t, ToSet(s)))
           /\ ToSet(s) \subseteq ToSet(s \o Without(t, ToSet(s)))
<1>1. /\ Without(t, ToSet(s)) \in Seq(Listed) /\ IsInjective(Without(t, ToSet(s)))
      /\ ToSet(Without(t, ToSet(s))) = ToSet(t) \ ToSet(s)
  BY WithoutFinds DEF Listing
<1>2. ToSet(s) \cap ToSet(Without(t, ToSet(s))) = {}
  BY <1>1
<1> QED
  BY <1>1, <1>2, ConcatAdds DEF Listing

LEMMA ListDrops ==
    ASSUME NEW s, Listing(s), NEW e
    PROVE  Listing(Without(s, {e})) /\ ToSet(Without(s, {e})) \subseteq ToSet(s)
BY WithoutFinds DEF Listing

LEMMA FormTypedStep == FormTyped /\ now \in Nat /\ [FormNext]_<<vars, page>> => FormTyped'
<1> SUFFICES ASSUME FormTyped, now \in Nat, [FormNext]_<<vars, page>> PROVE FormTyped'
  OBVIOUS
<1>0. form \in Forms
  BY DEF FormTyped, FormTypeOK, Forms
<1>1. ASSUME form' \in Forms, Listing(form'.recipients), Input, config' = config, loadError' = loadError,
             loads' \in Nat, lead' \in LeadFiles \cup {None}, picks' \in SUBSET SUBSET Files,
             submitError' \in BOOLEAN, success' = None, ofMail' \in SUBSET Files, late' = late,
             checked' \in [Files -> [room : Nat, beside : SUBSET Files]]
      PROVE  FormTyped'
  <2>1. edits' \in 0 .. MaxEdits
    BY <1>1, FormAssumption DEF Input, FormTyped, FormTypeOK
  <2> QED
    BY <1>1, <2>1 DEF Input, posting, FormTyped, FormTypeOK, Forms
<1>2. ASSUME NEW field \in {"mail", "start", "delay", "limit"}, NEW value, SetField(field, value),
             [form EXCEPT ![field] = value] \in Forms
      PROVE  FormTyped'
  <2>1. form'.recipients = form.recipients
    BY <1>0, <1>2 DEF SetField, Forms
  <2> QED
    BY <1>1, <1>2, <2>1 DEF SetField, settings, history, FormTyped, FormTypeOK
<1>3. ASSUME NEW value \in Mails, SetField("mail", value) PROVE FormTyped'
  BY <1>0, <1>2, <1>3 DEF Forms
<1>4. ASSUME NEW value \in Starts \cup {None}, SetField("start", value) PROVE FormTyped'
  BY <1>0, <1>2, <1>4, FormAssumption DEF Forms
<1>5. ASSUME NEW value \in Delays, SetField("delay", value) PROVE FormTyped'
  BY <1>0, <1>2, <1>5, FormAssumption DEF Forms
<1>6. ASSUME NEW value \in HourlyLimits \cup {None}, SetField("limit", value) PROVE FormTyped'
  BY <1>0, <1>2, <1>6, FormAssumption DEF Forms
<1>7. ASSUME NEW list, Listing(list), form' = [form EXCEPT !.recipients = list]
      PROVE  form' \in Forms /\ Listing(form'.recipients) /\ form'.recipients = list
  BY <1>0, <1>7, ListingFits DEF Forms
<1>8. ASSUME NEW e \in Entries, AddRecipient(e) \/ RemoveRecipient(e) PROVE FormTyped'
  <2>1. CASE AddRecipient(e)
    <3>1. Listing(Append(form.recipients, Normal(e)))
      BY <2>1, ListAdds DEF AddRecipient, FormTyped
    <3> QED
      BY <1>1, <1>7, <2>1, <3>1 DEF AddRecipient, Input, settings, history, FormTyped, FormTypeOK
  <2>2. CASE RemoveRecipient(e)
    <3>1. Listing(Without(form.recipients, {e}))
      BY ListDrops DEF FormTyped
    <3> QED
      BY <1>1, <1>7, <2>2, <3>1 DEF RemoveRecipient, Input, settings, history, FormTyped, FormTypeOK
  <2> QED
    BY <1>8, <2>1, <2>2
<1>9. ASSUME NEW f \in LeadFiles, ChooseLeadFile(f) PROVE FormTyped'
  BY <1>0, <1>1, <1>9 DEF ChooseLeadFile, Input, settings, history, FormTyped, FormTypeOK
<1>10. ASSUME NEW files \in SUBSET Files, PickAttachments(files) PROVE FormTyped'
  <2>1. Taken(files) \in SUBSET Files
    BY DEF Taken
  <2>2. limits.maxTotal \in Nat
    BY FormAssumption DEF limits, FormTyped, FormTypeOK
  <2>3. checked' \in [Files -> [room : Nat, beside : SUBSET Files]]
    <3>1. (Taken(files) \cup UNION picks) \in SUBSET Files
      BY <2>1 DEF FormTyped, FormTypeOK
    <3> HIDE DEF Taken, limits
    <3> QED
      BY <1>10, <2>2, <3>1 DEF PickAttachments, FormTyped, FormTypeOK
  <2> QED
    BY <1>0, <1>1, <1>10, <2>1, <2>3 DEF PickAttachments, Input, settings, FormTyped, FormTypeOK
<1>11. ASSUME NEW name, RemoveAttachment(name) PROVE FormTyped'
  <2>1. form' \in Forms /\ form'.recipients = form.recipients
    BY <1>0, <1>11 DEF RemoveAttachment, Forms
  <2> QED
    BY <1>1, <1>11, <2>1 DEF RemoveAttachment, Input, settings, history, FormTyped, FormTypeOK
<1>12. ASSUME NEW q \in Requests, Submit(q) PROVE FormTyped'
  BY <1>0, <1>12 DEF Submit, settings, history, FormTyped, FormTypeOK
<1>13. CASE RetryLoad
  BY <1>0, <1>1, <1>13 DEF RetryLoad, Input, history, FormTyped, FormTypeOK
<1>14. CASE SubmitRefused
  BY <1>14 DEF SubmitRefused, posting, settings, history, FormTyped, FormTypeOK
<1>15. CASE Reset
  <2>1. form' \in Forms /\ form'.recipients = <<>>
    BY <1>15, EmptyFits DEF Reset, limits, FormTyped, FormTypeOK
  <2>2. late' \in SUBSET Files
    BY <1>15 DEF Reset, FormTyped, FormTypeOK
  <2> QED
    BY <1>15, <2>1, <2>2, EmptyListing DEF Reset, posting, settings, FormTyped, FormTypeOK, Forms
<1>16. CASE Leave
  <2>1. form' \in Forms /\ form'.recipients = <<>>
    BY <1>16, EmptyFits DEF Leave, Mounted
  <2>2. edits' \in 0 .. MaxEdits
    <3>1. edits < MaxEdits /\ edits' = edits + 1 /\ edits \in 0 .. MaxEdits
      BY <1>16 DEF Leave, FormTyped, FormTypeOK
    <3>2. MaxEdits \in Nat
      BY FormAssumption
    <3> QED
      BY <3>1, <3>2
  <2>3. gaveUp' \subseteq posted'
    BY <1>16 DEF Leave, FormTyped, FormTypeOK
  <2> QED
    BY <1>16, <2>1, <2>2, <2>3, EmptyListing, UncheckedFits DEF Leave, Mounted, FormTyped, FormTypeOK, Forms
<1>17. CASE UserStep
  BY <1>3, <1>4, <1>5, <1>6, <1>8, <1>9, <1>10, <1>11, <1>12, <1>13, <1>14, <1>15, <1>16, <1>17 DEF UserStep
<1>18. CASE LoadData
  <2>1. /\ form.delay \in Nat /\ form.limit \in Nat \cup {None} /\ DefaultStart \in Nat
        /\ Limits["server"]["defaultDelay"] \in Nat /\ Limits["server"]["defaultLimit"] \in Nat
    BY <1>0, FormAssumption DEF Forms, DefaultStart
  <2>2. form' \in Forms /\ form'.recipients = form.recipients
    BY <1>0, <1>18, <2>1 DEF LoadData, Forms
  <2> QED
    <3>1. loads' \in Nat
      BY <1>18 DEF LoadData, FormTyped, FormTypeOK
    <3>2. /\ config' = "server" /\ loadError' = FALSE
          /\ UNCHANGED <<lead, picks, posting, submitError, success, edits, history>>
      BY <1>18 DEF LoadData
    <3> QED
      BY <2>2, <3>1, <3>2 DEF posting, history, FormTyped, FormTypeOK, Forms
<1>19. CASE LoadFails
  BY <1>19 DEF LoadFails, posting, history, FormTyped, FormTypeOK
<1>20. CASE MergeLeads
  <2>1. Listing(form.recipients \o Without(LeadsOf(lead).valid, ToSet(form.recipients)))
    BY <1>20, LeadsList, ListJoins DEF MergeLeads, FormTyped, FormTypeOK
  <2>2. form' \in Forms /\ Listing(form'.recipients)
    BY <1>7, <1>20, <2>1 DEF MergeLeads
  <2> QED
    BY <1>20, <2>2 DEF MergeLeads, posting, settings, history, FormTyped, FormTypeOK, Forms
<1>21. CASE LeadFileFails
  BY <1>21 DEF LeadFileFails, posting, settings, history, FormTyped, FormTypeOK
<1>22. ASSUME NEW files \in picks, AttachPick(files) \/ PickFails(files) PROVE FormTyped'
  <2>1. files \in SUBSET Files
    BY DEF FormTyped, FormTypeOK
  <2>2. form' \in Forms /\ form'.recipients = form.recipients
    BY <1>0, <1>22, <2>1 DEF AttachPick, PickFails, Forms
  <2> QED
    BY <1>22, <2>2 DEF AttachPick, PickFails, posting, settings, history, FormTyped, FormTypeOK, Forms
<1>23. ASSUME NEW q \in Requests, Scheduled(q) \/ SubmitFails(q) PROVE FormTyped'
  BY <1>23 DEF Scheduled, SubmitFails, settings, history, FormTyped, FormTypeOK
<1>24. CASE PageStep
  BY <1>18, <1>19, <1>20, <1>21, <1>22, <1>23, <1>24 DEF PageStep
<1>25. CASE ServerStep \/ UNCHANGED <<vars, page>>
  BY <1>25 DEF ServerStep, page, FormTyped, FormTypeOK
<1> QED
  BY <1>17, <1>24, <1>25 DEF FormNext

LEMMA FormTypedAlways == FormSpec => []FormTyped
<1>1. FormInit => FormTyped
  <2> SUFFICES ASSUME FormInit PROVE FormTyped
    OBVIOUS
  <2>1. form \in Forms /\ form.recipients = <<>>
    BY EmptyFits DEF FormInit, Init
  <2> QED
    <3>1. edits \in 0 .. MaxEdits /\ loads \in Nat
      <4>1. MaxEdits \in Nat /\ edits = 0 /\ loads = 1
        BY FormAssumption DEF FormInit
      <4> QED
        BY <4>1
    <3> QED
      BY <2>1, <3>1, EmptyListing, UncheckedFits DEF FormInit, FormTyped, FormTypeOK, Forms
<1>2. FormInv => now \in Nat
  BY DEF FormInv, LookUpInv, Order
<1> QED
  BY <1>1, <1>2, FormTypedStep, FormAlways, PTL DEF FormSpec

\* The form is of its type in every state, whatever files are read into it: the
\* hook useComposeEmail.ts keeps recipients, fields and pending reads apart.
THEOREM FormTypeCorrect == FormSpec => []FormTypeOK
<1>1. FormTyped => FormTypeOK
  BY DEF FormTyped
<1> QED
  BY <1>1, FormTypedAlways, PTL

----------------------------------------------------------------------------
(* The total of the attachments *)

Sizes == [f \in Files |-> FileOf[f].size]

\* SizeOf, as a sum over subsets of Files.
LEMMA SizesAdd ==
    ASSUME NEW g, Adds(g, Sizes, Files), NEW T \in SUBSET Files
    PROVE  SizeOf(T) = g[T]
<1> DEFINE Sized(k) == [s \in SUBSET T |-> IF s = {} THEN 0 ELSE FileOf[Some(s)].size + k[s \ {Some(s)}]]
           it == CHOOSE k : k = Sized(k)
           part == [f \in T |-> Sizes[f]]
<1>0. /\ IsFiniteSet(Files) /\ IsFiniteSet(T)
      /\ \A f \in Files : FileOf[f].size \in Nat /\ Sizes[f] = FileOf[f].size
  BY FormAssumption, FS_Subset DEF Sizes
<1>1. \A s \in SUBSET T : s # {} => Some(s) \in T
  BY DEF Some
<1>2. PICK k : Adds(k, part, T)
  <2>1. part \in [T -> Nat]
    BY <1>0
  <2> QED
    BY <1>0, <2>1, AddsExists
<1>3. k = Sized(k)
  BY <1>0, <1>1, <1>2 DEF Adds, Summed
<1>4. it = Sized(it)
  <2> HIDE DEF Sized
  <2> QED
    BY <1>3
<1>5. SizeOf(T) = it[T]
  BY DEF SizeOf, MapThenSumSet, MapThenFoldSet, Some
<1> HIDE DEF it
<1>6. Adds(it, Sizes, T)
  BY <1>0, <1>1, <1>4 DEF Adds, Summed
<1> QED
  BY <1>0, <1>5, <1>6, AddsAgree

\* What one file adds to a total, and that a part of the files has no more.
LEMMA TotalsGrow ==
    ASSUME NEW T \in SUBSET Files
    PROVE  /\ SizeOf(T) \in Nat
           /\ \A s \in SUBSET T : SizeOf(s) <= SizeOf(T)
           /\ \A f \in T : SizeOf(T) = FileOf[f].size + SizeOf(T \ {f})
<1>1. IsFiniteSet(Files) /\ Sizes \in [Files -> Nat] /\ \A f \in Files : Sizes[f] = FileOf[f].size
  BY FormAssumption DEF Sizes
<1>2. PICK g : Adds(g, Sizes, Files)
  BY <1>1, AddsExists
<1>3. \A s \in SUBSET Files : SizeOf(s) = g[s]
  BY <1>2, SizesAdd
<1>4. g[T] \in Nat
  BY <1>1, <1>2, AddsUnfold
<1>5. \A f \in T : g[T] = Sizes[f] + g[T \ {f}]
  BY <1>1, <1>2, AddsUnfold
<1>6. \A s \in SUBSET T : g[s] <= g[T]
  BY <1>1, <1>2, AddsGrow
<1> QED
  BY <1>1, <1>3, <1>4, <1>5, <1>6

\* Files that were not read beside each other are within the total that one of
\* them was checked against: the one picked last, when the others were in the form.
Within(S) ==
    \/ S = {}
    \/ \E f \in S : SizeOf(S) <= checked[f].room
    \/ \E f \in S : S \cap checked[f].beside # {}

AllWithin == \A S \in SUBSET (form.attachments \cup UNION picks) : Within(S)

LEMMA AllWithinStep == FormTyped /\ AllWithin /\ [FormNext]_<<vars, page>> => AllWithin'
<1> SUFFICES ASSUME FormTyped, AllWithin, [FormNext]_<<vars, page>> PROVE AllWithin'
  OBVIOUS
<1>0. /\ form \in Forms /\ picks \in SUBSET SUBSET Files
      /\ checked \in [Files -> [room : Nat, beside : SUBSET Files]]
  BY DEF FormTyped, FormTypeOK, Forms
<1>1. ASSUME checked' = checked,
             form'.attachments \cup UNION picks' \subseteq form.attachments \cup UNION picks
      PROVE  AllWithin'
  BY <1>1 DEF AllWithin, Within
<1>2. ASSUME NEW field \in {"mail", "start", "delay", "limit"}, NEW value, SetField(field, value)
      PROVE  AllWithin'
  BY <1>0, <1>1, <1>2 DEF SetField, Forms, history
<1>3. ASSUME NEW files \in SUBSET Files, PickAttachments(files) PROVE AllWithin'
  <2> DEFINE new == Taken(files)  old == form.attachments  reading == UNION picks
  <2>1. /\ new \subseteq files /\ new \in SUBSET Files /\ old \in SUBSET Files /\ reading \in SUBSET Files
        /\ \A f \in new : SizeOf(old) + FileOf[f].size <= limits.maxTotal
    BY <1>0 DEF Taken, Forms
  <2>2. /\ form' = form /\ UNION picks' = reading \cup new
        /\ \A f \in new : /\ checked'[f].room = limits.maxTotal
                           /\ checked'[f].beside = (new \cup reading) \ {f}
        /\ \A f \in Files \ new : checked'[f] = checked[f]
    <3> HIDE DEF new
    <3> QED
      BY <1>3, <2>1 DEF PickAttachments, new
  <2> HIDE DEF new, old, reading
  <2>3. SUFFICES ASSUME NEW S \in SUBSET (old \cup reading \cup new) PROVE Within(S)'
    BY <2>2 DEF AllWithin, old
  <2>4. CASE S \cap new = {}
    <3>1. S \in SUBSET (old \cup reading) /\ S \subseteq Files \ new
      BY <2>1, <2>4
    <3>2. Within(S)
      BY <3>1 DEF AllWithin, old, reading
    <3> QED
      BY <2>2, <3>1, <3>2 DEF Within
  <2>5. ASSUME NEW f \in S, f \in new, ~(S \ {f} \subseteq old) PROVE Within(S)'
    <3>1. PICK h \in S \ {f} : h \in reading \cup new
      BY <2>3, <2>5
    <3>2. h \in checked'[f].beside
      BY <2>2, <2>5, <3>1
    <3> QED
      BY <3>1, <3>2 DEF Within
  <2>6. ASSUME NEW f \in S, f \in new, S \ {f} \subseteq old PROVE Within(S)'
    <3>1. S \in SUBSET Files /\ f \in Files /\ FileOf[f].size \in Nat /\ limits.maxTotal \in Nat
      BY <2>1, <2>3, FormAssumption DEF limits, FormTyped, FormTypeOK
    <3>2. SizeOf(S) = FileOf[f].size + SizeOf(S \ {f}) /\ SizeOf(S \ {f}) <= SizeOf(old)
      BY <2>1, <2>6, <3>1, TotalsGrow
    <3>3. SizeOf(S) \in Nat /\ SizeOf(old) \in Nat /\ SizeOf(S \ {f}) \in Nat
      BY <2>1, <3>1, TotalsGrow
    <3>4. SizeOf(old) + FileOf[f].size <= limits.maxTotal
      BY <2>1, <2>6
    <3>5. SizeOf(S) <= checked'[f].room
      <4>1. checked'[f].room = limits.maxTotal
        BY <2>2, <2>6
      <4> QED
        BY <3>1, <3>2, <3>3, <3>4, <4>1
    <3> QED
      BY <3>5 DEF Within
  <2> QED
    BY <2>4, <2>5, <2>6
<1>4. ASSUME NEW name, RemoveAttachment(name) PROVE AllWithin'
  BY <1>0, <1>1, <1>4 DEF RemoveAttachment, Forms, history
<1>5. CASE Reset
  BY <1>1, <1>5 DEF Reset, EmptyForm
<1>6. CASE Leave
  BY <1>6 DEF Leave, Mounted, EmptyForm, AllWithin, Within
<1>7. ASSUME NEW e, AddRecipient(e) \/ RemoveRecipient(e) PROVE AllWithin'
  BY <1>0, <1>1, <1>7 DEF AddRecipient, RemoveRecipient, Forms, history
<1>8. CASE UserStep
  BY <1>1, <1>2, <1>3, <1>4, <1>5, <1>6, <1>7, <1>8
     DEF UserStep, ChooseLeadFile, RetryLoad, Submit, SubmitRefused, history
<1>9. CASE LoadData \/ MergeLeads
  BY <1>0, <1>1, <1>9 DEF LoadData, MergeLeads, Forms, history
<1>10. ASSUME NEW files \in picks, AttachPick(files) \/ PickFails(files) PROVE AllWithin'
  BY <1>0, <1>1, <1>10 DEF AttachPick, PickFails, Forms, history
<1>11. CASE PageStep
  BY <1>1, <1>9, <1>10, <1>11 DEF PageStep, LoadFails, LeadFileFails, Scheduled, SubmitFails, history
<1>12. CASE ServerStep \/ UNCHANGED <<vars, page>>
  BY <1>1, <1>12 DEF ServerStep, page
<1> QED
  BY <1>8, <1>11, <1>12 DEF FormNext

\* addAttachments (useComposeEmail.ts 311-330) judges each file by the total of the
\* attachments the form has when it is picked.  For any number of files and picks,
\* reads that end in any order and limits that change, that keeps the form within
\* the total, but for files that were read beside each other.
THEOREM TotalIsKept == FormSpec => []TotalKept
<1>1. FormInit => AllWithin
  BY DEF FormInit, EmptyForm, AllWithin, Within
<1>2. AllWithin => TotalKept
  BY DEF AllWithin, Within, TotalKept
<1> QED
  BY <1>1, <1>2, AllWithinStep, FormTypedAlways, PTL DEF FormSpec

\* One of two sets holds the other.
Nested(s, t) == s \subseteq t \/ t \subseteq s

LEMMA Nests ==
    ASSUME FormTyped, [FormNext]_<<vars, page>>
    PROVE  Nested(form.attachments, form'.attachments) /\ Nested(ToSet(form.recipients), ToSet(form'.recipients))
<1>0. form \in Forms /\ Listing(form.recipients)
  BY DEF FormTyped, FormTypeOK, Forms
<1> USE DEF Nested
<1>1. ASSUME NEW field \in {"mail", "start", "delay", "limit"}, NEW value, SetField(field, value)
      PROVE  form'.attachments = form.attachments /\ form'.recipients = form.recipients
  BY <1>0, <1>1 DEF SetField, Forms
<1>2. ASSUME NEW e \in Entries, AddRecipient(e) \/ RemoveRecipient(e)
      PROVE  form'.attachments = form.attachments /\ Nested(ToSet(form.recipients), ToSet(form'.recipients))
  <2>1. CASE AddRecipient(e)
    <3>1. form'.recipients = Append(form.recipients, Normal(e)) /\ form'.attachments = form.attachments
      BY <1>0, <2>1 DEF AddRecipient, Forms
    <3> QED
      BY <1>0, <2>1, <3>1, ListAdds DEF AddRecipient
  <2>2. CASE RemoveRecipient(e)
    <3>1. form'.recipients = Without(form.recipients, {e}) /\ form'.attachments = form.attachments
      BY <1>0, <2>2 DEF RemoveRecipient, Forms
    <3> QED
      BY <1>0, <3>1, ListDrops
  <2> QED
    BY <1>2, <2>1, <2>2
<1>3. ASSUME NEW name, RemoveAttachment(name)
      PROVE  form'.attachments \subseteq form.attachments /\ form'.recipients = form.recipients
  BY <1>0, <1>3 DEF RemoveAttachment, Forms
<1>4. CASE Reset \/ Leave
  <2>1. form'.attachments = {} /\ form'.recipients = <<>>
    BY <1>4 DEF Reset, Leave, Mounted, EmptyForm
  <2>2. ToSet(<<>>) = {}
    BY DEF ToSet
  <2> QED
    BY <2>1, <2>2
<1>5. CASE UserStep
  <2>1. form' = form => Nested(form.attachments, form'.attachments) /\ Nested(ToSet(form.recipients), ToSet(form'.recipients))
    OBVIOUS
  <2> HIDE DEF Nested
  <2> QED
    BY <1>1, <1>2, <1>3, <1>4, <1>5, <2>1
       DEF UserStep, ChooseLeadFile, PickAttachments, RetryLoad, Submit, SubmitRefused, Nested
<1>6. CASE LoadData
  BY <1>0, <1>6 DEF LoadData, Forms
<1>7. CASE MergeLeads
  <2>1. form'.recipients = form.recipients \o Without(LeadsOf(lead).valid, ToSet(form.recipients))
        /\ form'.attachments = form.attachments
    BY <1>0, <1>7 DEF MergeLeads, Forms
  <2>2. Listing(LeadsOf(lead).valid)
    BY <1>7, LeadsList DEF MergeLeads, FormTyped, FormTypeOK
  <2> QED
    BY <1>0, <2>1, <2>2, ListJoins
<1>8. ASSUME NEW files \in picks, AttachPick(files) \/ PickFails(files)
      PROVE  form.attachments \subseteq form'.attachments /\ form'.recipients = form.recipients
  BY <1>0, <1>8 DEF AttachPick, PickFails, Forms
<1>9. CASE PageStep
  BY <1>6, <1>7, <1>8, <1>9 DEF PageStep, LoadFails, LeadFileFails, Scheduled, SubmitFails
<1>10. CASE ServerStep \/ UNCHANGED <<vars, page>>
  BY <1>10 DEF ServerStep, page
<1> QED
  BY <1>5, <1>9, <1>10 DEF FormNext

\* Reads of lead files and attachments that end in any order, between the inputs of
\* the user, only add (useComposeEmail.ts 241, 299); nothing that is in the form is
\* exchanged for something else.
THEOREM ReadsOnlyAdd == FormSpec => NothingLost
<1> DEFINE A == /\ \/ form.attachments \subseteq form'.attachments
                   \/ form'.attachments \subseteq form.attachments
                /\ \/ ToSet(form.recipients) \subseteq ToSet(form'.recipients)
                   \/ ToSet(form'.recipients) \subseteq ToSet(form.recipients)
<1>1. FormTyped /\ [FormNext]_<<vars, page>> => [A]_page
  BY Nests DEF Nested
<1> QED
  BY <1>1, FormTypedAlways, PTL DEF FormSpec, NothingLost

----------------------------------------------------------------------------
(* What was posted, and what is said of it *)

LEMMA TracedKept == FormInv /\ Traced /\ [FormNext]_<<vars, page>> => Traced'
<1> SUFFICES ASSUME FormInv, Traced, [FormNext]_<<vars, page>> PROVE Traced'
  OBVIOUS
<1>1. CASE [Next]_vars
  BY <1>1, TracedStep DEF FormInv, LookUpInv
<1>2. ASSUME NEW q \in Requests, Submit(q) PROVE Traced'
  <2>1. /\ q \notin posted /\ UNCHANGED <<phase, created, found, answer>>
        /\ \A p \in Requests \ {q} : req'[p] = req[p]
    BY <1>2 DEF Submit, FormInv, InTurn
  <2>2. created[q] = Never /\ phase[q] = "new" /\ answer[q] = "none"
    BY <2>1 DEF FormInv, InTurn, LookUpInv, Order, Traced
  <2>3. ASSUME NEW p \in Requests, phase[p] = "count" \/ answer[p] \in Named
        PROVE  p # q /\ found[p] # q /\ found[p] \in Requests
    BY <2>2, <2>3 DEF Traced, Named
  <2> QED
    BY <2>1, <2>2, <2>3 DEF Traced
<1>3. CASE ServerStep
  <2>1. [Next]_vars
    BY <1>3 DEF ServerStep, Next, FormInv, InTurn
  <2> QED
    BY <2>1, <1>1
<1> QED
  BY <1>1, <1>2, <1>3, PageOnly DEF FormNext, vars

\* A request of the page: its list is as the form kept it, and under the server's
\* limits its fields pass the schema.
Posting(r) ==
    /\ r.key = NoKey /\ r.knownSender /\ r.startTime \in Nat
    /\ Listing(r.recipients) /\ Len(r.recipients) > 0
    /\ r.wellFormed <=> r.fields /\ AttachmentsAccepted(r.attachments)
    /\ r.source \in {"fallback", "server"} /\ (r.source = "server" => r.fields)

\* What validate lets through under the server's limits, the schema takes.
LEMMA PayloadIsPosting ==
    ASSUME FormTyped, Validates
    PROVE  Posting(Payload)
<1>1. /\ Listing(form.recipients) /\ form.recipients \in Seq(Entries)
      /\ form.start \in Nat \cup {None} /\ form.delay \in Nat
      /\ form.limit \in Nat \cup {None} /\ config \in {"fallback", "server"}
  BY DEF FormTyped, FormTypeOK
<1>2. form.start \in Nat /\ Len(form.recipients) > 0
  BY <1>1 DEF Validates
<1>3. SchemaAccepts \in BOOLEAN
  BY DEF SchemaAccepts
<1>4. config = "server" => SchemaAccepts
  <2> SUFFICES ASSUME config = "server" PROVE SchemaAccepts
    OBVIOUS
  <2> DEFINE l == Limits["server"]
  <2>1. limits = l
    BY DEF limits
  <2>2. l.maxDelay \in Nat /\ l.maxRecipients \in Nat /\ l.maxPerHour \in Nat /\ Second \in Nat \ {0}
    BY FormAssumption
  <2>3. Len(form.recipients) \in 1 .. l.maxRecipients /\ form.mail \in l.mails
    BY <2>1 DEF Validates
  <2>4. form.delay \in 1 .. l.maxDelay
    BY <1>1, <2>1, <2>2 DEF Validates
  <2>5. form.limit # None => form.limit >= 1
    BY <1>1, <2>1, <2>2 DEF Validates
  <2> QED
    BY <2>3, <2>4, <2>5 DEF SchemaAccepts
<1> HIDE DEF SchemaAccepts
<1> QED
  BY <1>1, <1>2, <1>3, <1>4 DEF Payload, Posting

\* The server's parser finds in such a list what is in it.
LEMMA PostingParses ==
    ASSUME NEW r, Posting(r)
    PROVE  /\ ParseRecipients(r.recipients) \in Seq(Valid)
           /\ IsInjective(ParseRecipients(r.recipients))
           /\ ToSet(ParseRecipients(r.recipients)) = ToSet(r.recipients)
           /\ Count(r) = Len(r.recipients)
<1> DEFINE list == r.recipients  parsed == ParseRecipients(list)
<1>1. list \in Seq(Listed) /\ IsInjective(list) /\ list \in Seq(Entries)
  BY ListingFits DEF Posting, Listing
<1>2. \A e \in ToSet(list) : Normal(e) = e /\ e \in Valid
  BY <1>1 DEF ToSet, Listed
<1>3. /\ parsed \in Seq(Valid) /\ IsInjective(parsed)
      /\ ToSet(parsed) = {Normal(e) : e \in ToSet(list)} \cap Valid
  BY <1>1, ParseFinds
<1>4. ToSet(parsed) = ToSet(list)
  BY <1>2, <1>3
<1>5. Len(parsed) = Len(list)
  <2> HIDE DEF parsed, list
  <2> QED
    BY <1>1, <1>3, <1>4, OnceLength
<1> QED
  BY <1>3, <1>4, <1>5 DEF Count

\* What the page posted is a posting, refused for its form or its start alone, and
\* the success view is of one that was answered with a batch.
Postings ==
    /\ \A q \in posted : /\ Posting(req[q])
                         /\ answer[q] = "rejected" =>
                               ~req[q].wellFormed \/ req[q].startTime <= now - Skew
    /\ success # None => success \in posted /\ answer[success] \in Named

LEMMA PostingsStep == FormInv /\ FormTyped /\ Traced /\ Postings /\ [FormNext]_<<vars, page>> => Postings'
<1> SUFFICES ASSUME FormInv, FormTyped, Traced, Postings, [FormNext]_<<vars, page>> PROVE Postings'
  OBVIOUS
<1>0. /\ now \in Nat /\ Skew \in Nat /\ posted \subseteq Requests /\ awaiting \subseteq posted
      /\ answer \in [Requests -> Answers] /\ None \notin Requests
  BY ClockAssumption, FormAssumption DEF FormInv, LookUpInv, Order, InTurn, Traced
<1>1. ASSUME UNCHANGED <<vars, posted>>, success' = success \/ success' = None PROVE Postings'
  BY <1>1 DEF Postings, vars
<1>2. ASSUME NEW q \in Requests, Scheduled(q) PROVE Postings'
  BY <1>0, <1>2 DEF Scheduled, Answered, Postings, vars
<1>3. ASSUME NEW q \in Requests, Submit(q) PROVE Postings'
  <2>1. /\ q \notin posted /\ posted' = posted \cup {q} /\ UNCHANGED <<phase, answer, now, success>>
        /\ req'[q] = Payload /\ \A p \in Requests \ {q} : req'[p] = req[p]
        /\ success = None
    <3>1. DOMAIN req = Requests
      BY DEF FormInv, InTurn
    <3> HIDE DEF Payload
    <3> QED
      BY <1>3, <3>1 DEF Submit, Clickable
  <2>2. answer[q] = "none"
    BY <2>1 DEF FormInv, InTurn, Traced
  <2>3. Posting(Payload)
    BY <1>3, PayloadIsPosting DEF Submit
  <2> HIDE DEF Payload
  <2> QED
    BY <1>0, <2>1, <2>2, <2>3 DEF Postings
<1>4. CASE ServerStep
  <2>0. UNCHANGED page
    BY <1>4 DEF ServerStep
  <2>1. CASE Tick
    BY <1>0, <2>0, <2>1 DEF Tick, page, Postings, Posting
  <2>2. ASSUME NEW q \in posted, RequestStep(q) PROVE Postings'
    <3>1. Posting(req[q]) /\ Count(req[q]) > 0 /\ q \in Requests
      <4>1. Posting(req[q]) /\ q \in Requests
        BY <1>0 DEF Postings
      <4>2. Len(req[q].recipients) > 0 /\ Count(req[q]) = Len(req[q].recipients)
        BY <4>1, PostingParses DEF Posting
      <4> QED
        BY <4>1, <4>2
    <3>2. /\ req' = req /\ now' = now /\ \A p \in Requests \ {q} : answer'[p] = answer[p]
          /\ phase[q] # "end"
          /\ answer'[q] = "rejected" /\ answer[q] # "rejected" =>
                 ~req[q].wellFormed \/ req[q].startTime <= now - Skew
      <4>1. CASE Receive(q) \/ ResolveSender(q) \/ FindExisting(q) \/ FindNothing(q) \/ Create(q) \/ Dies(q)
        BY <1>0, <4>1 DEF Receive, ResolveSender, FindExisting, FindNothing, Create, Dies, Moves
      <4>2. CASE Reject(q)
        BY <1>0, <3>1, <4>2 DEF Reject, Acceptable, Answer, Moves, Posting
      <4>3. CASE NoSender(q)
        BY <3>1, <4>3 DEF NoSender, Posting
      <4>4. CASE Summarise(q) \/ Enqueue(q) \/ DbRejects(q)
        BY <1>0, <4>4 DEF Summarise, Enqueue, DbRejects, Moves
      <4> QED
        BY <2>2, <4>1, <4>2, <4>3, <4>4 DEF RequestStep
    <3>3. success # None => success # q
      BY <3>1, <3>2 DEF Postings, Traced, Named
    <3> QED
      BY <1>0, <2>0, <3>2, <3>3 DEF page, Postings
  <2> QED
    BY <1>4, <2>1, <2>2 DEF ServerStep
<1>5. CASE UserStep
  <2>1. success' = success \/ success' = None
    BY <1>5 DEF UserStep, SetField, AddRecipient, RemoveRecipient, ChooseLeadFile, PickAttachments,
                RemoveAttachment, RetryLoad, Submit, SubmitRefused, Reset, Leave, Mounted
  <2> QED
    BY <1>1, <1>3, <1>4, <1>5, <2>1, PageOnly DEF FormNext, UserStep
<1>6. CASE PageStep
  BY <1>1, <1>2, <1>6
     DEF PageStep, LoadData, LoadFails, MergeLeads, LeadFileFails, AttachPick, PickFails,
         SubmitFails, posting
<1> QED
  BY <1>1, <1>4, <1>5, <1>6 DEF FormNext, page

\* The invariant of the form, its requests and their answers.
Answering == FormInv /\ FormTyped /\ Traced /\ Postings

LEMMA AnsweringAlways == FormSpec => []Answering
<1>1. FormInit => Traced /\ Postings
  <2>1. FormInit => Traced
    BY TracedInit DEF FormInit
  <2>2. FormInit => Postings
    BY DEF FormInit, Postings
  <2> QED
    BY <2>1, <2>2
<1>2. FormInv /\ FormTyped /\ Traced /\ Postings /\ [FormNext]_<<vars, page>> => Traced' /\ Postings'
  BY TracedKept, PostingsStep
<1> QED
  BY <1>1, <1>2, FormAlways, FormTypedAlways, PTL DEF FormSpec, Answering

\* validate (useComposeEmail.ts 353) and createBatchSchema with the checks of
\* createBatch (routes/batches.ts 22, batchService.ts): a request posted under the
\* server's limits is refused for its attachments or its start alone.
THEOREM ChecksHold == FormSpec => []ChecksAgree
<1>1. Answering => ChecksAgree
  BY DEF Answering, Postings, Posting, ChecksAgree
<1> QED
  BY <1>1, AnsweringAlways, PTL

\* The batch of the success view is the one that was asked for: the key of a request
\* without one of its own fixes the mail, the start and the set of recipients
\* (batchService.ts idempotencyKeyFor), and the server's parser finds in a list of
\* the form each of its addresses once.
THEOREM ShownIsAsked == FormSpec => []ShownIsStored
<1>1. Answering => ShownIsStored
  <2> SUFFICES ASSUME Answering, success # None
               PROVE  LET asked == req[success]  batch == req[found[success]] IN
                      /\ found[success] \in Batches
                      /\ batch.mail = asked.mail /\ batch.startTime = asked.startTime
                      /\ ToSet(ParseRecipients(batch.recipients)) = ToSet(asked.recipients)
                      /\ Count(batch) = Len(asked.recipients)
    BY DEF ShownIsStored
  <2> DEFINE asked == req[success]  batch == req[found[success]]
  <2>1. success \in posted /\ success \in Requests /\ answer[success] \in Named /\ Posting(asked)
    BY DEF Answering, Postings, FormInv, InTurn
  <2>2. found[success] \in Requests /\ created[found[success]] # Never /\ SameKey(batch, asked)
    BY <2>1 DEF Answering, Traced
  <2>3. found[success] \in posted /\ Posting(batch)
    BY <2>2 DEF Answering, Postings, FormInv, InTurn, LookUpInv, Order
  <2> HIDE DEF asked, batch
  <2>4. /\ batch.mail = asked.mail /\ batch.startTime = asked.startTime
        /\ ToSet(ParseRecipients(batch.recipients)) = ToSet(ParseRecipients(asked.recipients))
    BY <2>1, <2>2, KeyMeans DEF Posting
  <2>5. ToSet(ParseRecipients(batch.recipients)) = ToSet(asked.recipients)
    BY <2>1, <2>4, PostingParses
  <2>6. Count(batch) = Len(asked.recipients)
    <3>1. /\ batch.recipients \in Seq(Listed) /\ IsInjective(batch.recipients)
          /\ asked.recipients \in Seq(Listed) /\ IsInjective(asked.recipients)
      BY <2>1, <2>3 DEF Posting, Listing
    <3>2. ToSet(batch.recipients) = ToSet(asked.recipients)
      BY <2>3, <2>5, PostingParses
    <3>3. Len(batch.recipients) = Len(asked.recipients)
      BY <3>1, <3>2, OnceLength
    <3> QED
      BY <2>3, <3>3, PostingParses
  <2>7. found[success] \in Batches
    BY <2>2 DEF Batches
  <2> QED
    BY <2>4, <2>5, <2>6, <2>7 DEF asked, batch
<1> QED
  BY <1>1, AnsweringAlways, PTL

----------------------------------------------------------------------------
(* The numbers shown for a list of leads *)

\* Where a list has values in V.
Places(list, V) == {k \in DOMAIN list : list[k] \in V}

\* A filter loses none of the other values: those in V are at as many places.
LEMMA WithoutCounts ==
    ASSUME NEW A, NEW list \in Seq(A), NEW out, NEW V, V \cap out = {}
    PROVE  Cardinality(Places(Without(list, out), V)) = Cardinality(Places(list, V))
<1>1. PICK g : Without(list, out) = g[DOMAIN list] /\ Filters(g, list, out)
  BY WithoutUnfolds
<1> DEFINE D == DOMAIN list
           In(s) == {k \in s : list[k] \in V}
           Kept(t) == {k \in DOMAIN t : t[k] \in V}
           P == {s \in SUBSET D : g[s] \in Seq(A) /\ Cardinality(Kept(g[s])) = Cardinality(In(s))}
           max == [s \in SUBSET D |-> Max(s)]
<1>0. IsFiniteSet(D) /\ \A s \in SUBSET D : IsFiniteSet(s)
  BY FS_Interval, FS_Subset
<1>2. {} \in P
  <2>1. g[{}] = <<>>
    BY <1>1 DEF Filters
  <2>2. Kept(<<>>) = {} /\ In({}) = {} /\ <<>> \in Seq(A)
    OBVIOUS
  <2>3. Cardinality(Kept(g[{}])) = Cardinality(In({}))
    BY <2>1, <2>2
  <2> QED
    BY <2>1, <2>2, <2>3
<1>3. ASSUME NEW s \in SUBSET D, s # {} PROVE max[s] \in s /\ (Rest(max, s) \in P => s \in P)
  <2>1. Max(s) \in s /\ max[s] = Max(s)
    BY <1>3, MaxOfSome
  <2> SUFFICES ASSUME s \ {Max(s)} \in P PROVE s \in P
    BY <2>1 DEF Rest
  <2> DEFINE t == s \ {Max(s)}
             acc == g[t]
             e == list[Max(s)]
  <2>2. acc \in Seq(A) /\ Cardinality(Kept(acc)) = Cardinality(In(t)) /\ e \in A
    BY <2>1
  <2>3. g[s] = IF e \in out THEN acc ELSE Append(acc, e)
    BY <1>1, <1>3 DEF Filters
  <2>4. IF e \in V THEN Cardinality(In(s)) = Cardinality(In(t)) + 1 ELSE In(s) = In(t)
    <3>1. CASE e \in V
      <4>1. In(s) = In(t) \cup {Max(s)} /\ Max(s) \notin In(t)
        BY <2>1, <3>1
      <4>2. IsFiniteSet(In(t))
        BY <1>0, <2>1
      <4> QED
        BY <3>1, <4>1, <4>2, FS_AddElement
    <3>2. CASE e \notin V
      BY <2>1, <3>2
    <3> QED
      BY <3>1, <3>2
  <2> HIDE DEF acc, e, t, In
  <2>5. IF e \in V THEN Cardinality(Kept(Append(acc, e))) = Cardinality(Kept(acc)) + 1
                   ELSE Kept(Append(acc, e)) = Kept(acc)
    <3> DEFINE n == Len(acc)  u == Append(acc, e)
    <3>1. /\ n \in Nat /\ DOMAIN acc = 1 .. n /\ DOMAIN u = 1 .. n + 1 /\ u[n + 1] = e
          /\ \A i \in 1 .. n : u[i] = acc[i]
      BY <2>2
    <3>2. 1 .. n + 1 = (1 .. n) \cup {n + 1} /\ n + 1 \notin 1 .. n
      BY <3>1
    <3> HIDE DEF n, u
    <3>3. CASE e \notin V
      BY <3>1, <3>2, <3>3 DEF u
    <3>4. CASE e \in V
      <4>1. Kept(u) = Kept(acc) \cup {n + 1} /\ n + 1 \notin Kept(acc)
        BY <3>1, <3>2, <3>4
      <4>2. IsFiniteSet(Kept(acc))
        BY <3>1, FS_Interval, FS_Subset
      <4> QED
        BY <3>4, <4>1, <4>2, FS_AddElement DEF u
    <3> QED
      BY <3>3, <3>4
  <2>6. g[s] \in Seq(A)
    BY <2>2, <2>3
  <2>7. e \in V => e \notin out
    OBVIOUS
  <2>8. Cardinality(Kept(g[s])) = Cardinality(In(s))
    <3> HIDE DEF Kept
    <3> QED
      BY <2>2, <2>3, <2>4, <2>5, <2>7
  <2> QED
    BY <2>6, <2>8
<1>4. SUBSET D \subseteq P
  <2> HIDE DEF D, P, max
  <2> QED
    BY <1>0, <1>2, <1>3, SetInduction
<1>5. D \in P
  BY <1>4
<1>6. Places(Without(list, out), V) = Kept(g[D]) /\ Places(list, V) = In(D)
  BY <1>1 DEF Places
<1> QED
  BY <1>5, <1>6

\* A list has a first place for each of its values: the places of values in V are
\* as many as these values and the places where one is repeated.
LEMMA RepeatsCounted ==
    ASSUME NEW A, NEW list \in Seq(A), NEW V
    PROVE  LET at      == {i \in DOMAIN list : list[i] \in V}
               repeats == {i \in DOMAIN list :
                   list[i] \in V /\ \E j \in 1 .. i - 1 : list[j] = list[i]}
           IN  /\ Cardinality(at) = Cardinality(ToSet(list) \cap V) + Cardinality(repeats)
               /\ Cardinality(at) \in Nat /\ Cardinality(repeats) \in Nat
<1> DEFINE D == DOMAIN list
           at == {i \in D : list[i] \in V}
           repeats == {i \in D : list[i] \in V /\ \E j \in 1 .. i - 1 : list[j] = list[i]}
           firsts == at \ repeats
           values == ToSet(list) \cap V
           f == [i \in firsts |-> list[i]]
<1>1. D = 1 .. Len(list) /\ Len(list) \in Nat /\ D \subseteq Nat /\ IsFiniteSet(D)
  BY FS_Interval
<1>2. IsFiniteSet(at) /\ IsFiniteSet(repeats) /\ repeats \subseteq at /\ at \cap repeats = repeats
  BY <1>1, FS_Subset
<1>3. Cardinality(firsts) = Cardinality(at) - Cardinality(repeats) /\ IsFiniteSet(firsts)
  BY <1>2, FS_Difference
<1>4. f \in [firsts -> values]
  BY DEF ToSet
<1>5. ASSUME NEW i \in firsts, NEW j \in firsts, list[i] = list[j] PROVE i = j
  <2>1. i \in D /\ j \in D /\ i \in Nat /\ j \in Nat
    BY <1>1
  <2>2. ~(i < j)
    <3>1. i < j => i \in 1 .. j - 1
      BY <1>1, <2>1
    <3> QED
      BY <1>5, <3>1
  <2>3. ~(j < i)
    <3>1. j < i => j \in 1 .. i - 1
      BY <1>1, <2>1
    <3> QED
      BY <1>5, <3>1
  <2> QED
    BY <2>1, <2>2, <2>3
<1>6. ASSUME NEW v \in values PROVE \E i \in firsts : list[i] = v
  <2> DEFINE T == {i \in D : list[i] = v}
  <2>1. T # {} /\ T \subseteq Nat
    BY <1>1 DEF ToSet
  <2>2. PICK m \in T : \A k \in T : m <= k
    BY <2>1, LeastOf
  <2>3. m \in at
    OBVIOUS
  <2>4. ASSUME NEW j \in 1 .. m - 1, list[j] = list[m] PROVE FALSE
    <3>1. j \in D /\ j \in Nat /\ m \in Nat /\ j < m
      BY <1>1
    <3> QED
      BY <2>2, <2>4, <3>1
  <2> QED
    BY <2>3, <2>4
<1> HIDE DEF firsts, values
<1>7. ExistsBijection(firsts, values)
  <2>1. f \in Bijection(firsts, values)
    BY <1>4, <1>5, <1>6 DEF Bijection, Injection, Surjection, IsInjective
  <2> QED
    BY <2>1 DEF ExistsBijection
<1>8. Cardinality(values) = Cardinality(firsts)
  BY <1>3, <1>7, FS_Bijection
<1>9. Cardinality(at) \in Nat /\ Cardinality(repeats) \in Nat
  BY <1>2, FS_CardinalityType
<1> QED
  BY <1>3, <1>8, <1>9 DEF values

\* normalizeEmails (recipientParser.ts), for a list of any length: it has each valid
\* address once, and calls duplicates the places where a valid one is repeated, for
\* its count of the others leaves out the blank ones as the list it began with does.
LEMMA LeadsCounted ==
    ASSUME NEW cells \in Seq(Entries)
    PROVE  LET said    == NormalizeEmails(cells)
               repeats == {i \in DOMAIN cells :
                   /\ Normal(cells[i]) \in Valid
                   /\ \E j \in 1 .. i - 1 : Normal(cells[j]) = Normal(cells[i])}
           IN /\ ToSet(said.valid) = {Normal(e) : e \in ToSet(cells)} \cap Valid
              /\ said.duplicatesRemoved = Cardinality(repeats)
<1> DEFINE said == NormalizeEmails(cells)
           list == Looked(cells)
           all == [i \in DOMAIN cells |-> Normal(cells[i])]
           D == DOMAIN list
           good == {k \in D : list[k] \in Valid}
           bad == {k \in D : list[k] \notin Valid}
           repeats == {i \in DOMAIN cells :
               /\ Normal(cells[i]) \in Valid
               /\ \E j \in 1 .. i - 1 : Normal(cells[j]) = Normal(cells[i])}
<1>1. /\ said.valid \in Seq(Listed) /\ IsInjective(said.valid)
      /\ ToSet(said.valid) = {Normal(e) : e \in ToSet(cells)} \cap Valid
      /\ said.invalid = Cardinality(bad)
      /\ said.duplicatesRemoved = Len(list) - said.invalid - Len(said.valid)
  BY NormalizeFinds
<1>2. list \in Seq(Entries)
  <2>1. list \in Seq({e \in Entries : Normal(e) = e})
    BY LookedAt
  <2> HIDE DEF list
  <2> QED
    BY <2>1
<1>3. all \in Seq(Entries) /\ DOMAIN all = DOMAIN cells /\ ToSet(all) = {Normal(e) : e \in ToSet(cells)}
  <2>1. DOMAIN cells = 1 .. Len(cells) /\ Len(cells) \in Nat /\ \A i \in DOMAIN cells : cells[i] \in Entries
    OBVIOUS
  <2>2. \A i \in DOMAIN cells : Normal(cells[i]) \in Entries
    BY <2>1, EntriesAssumption
  <2> QED
    BY <2>1, <2>2 DEF ToSet
<1>4. list = Without(all, {Blank})
  BY DEF Looked
<1> HIDE DEF said, list
<1>5. Len(list) = Cardinality(good) + Cardinality(bad)
  <2>1. D = 1 .. Len(list) /\ Len(list) \in Nat
    BY <1>2
  <2>2. IsFiniteSet(D) /\ Cardinality(D) = Len(list)
    <3>1. IsFiniteSet(1 .. Len(list)) /\ Cardinality(1 .. Len(list)) = Len(list)
      <4>1. ASSUME NEW n \in Nat PROVE IsFiniteSet(1 .. n) /\ Cardinality(1 .. n) = n
        BY FS_Interval
      <4> QED
        BY <2>1, <4>1
    <3> HIDE DEF D
    <3> QED
      BY <2>1, <3>1
  <2>3. IsFiniteSet(good) /\ IsFiniteSet(bad)
    BY <2>2, FS_Subset
  <2>4. good \cup bad = D /\ good \cap bad = {}
    OBVIOUS
  <2>5. Cardinality(good) \in Nat /\ Cardinality(bad) \in Nat
    BY <2>3, FS_CardinalityType
  <2> HIDE DEF good, bad, D
  <2>6. Cardinality(D) = Cardinality(good) + Cardinality(bad) - Cardinality({})
    BY <2>3, <2>4, FS_Union
  <2> QED
    BY <2>2, <2>5, <2>6, FS_EmptySet
<1>6. Cardinality(good) = Cardinality({i \in DOMAIN all : all[i] \in Valid})
  <2> DEFINE out == {Blank}
  <2>1. Valid \cap out = {}
    BY EntriesAssumption
  <2> HIDE DEF all, out
  <2>2. Cardinality(Places(Without(all, out), Valid)) = Cardinality(Places(all, Valid))
    BY <1>3, <2>1, WithoutCounts
  <2> QED
    BY <1>4, <2>2 DEF out, Places
<1>7. /\ Cardinality({i \in DOMAIN all : all[i] \in Valid})
            = Cardinality(ToSet(all) \cap Valid) + Cardinality(repeats)
      /\ Cardinality({i \in DOMAIN all : all[i] \in Valid}) \in Nat
      /\ Cardinality(repeats) \in Nat
  <2>1. repeats = {i \in DOMAIN all :
                     all[i] \in Valid /\ \E j \in 1 .. i - 1 : all[j] = all[i]}
    <3>1. \A i \in DOMAIN cells : 1 .. i - 1 \subseteq DOMAIN cells
      OBVIOUS
    <3> QED
      BY <3>1
  <2> HIDE DEF all, repeats
  <2> QED
    BY <1>3, <2>1, RepeatsCounted
<1>8. Len(said.valid) = Cardinality(ToSet(all) \cap Valid)
  <2>1. ToSet(said.valid) = ToSet(all) \cap Valid
    BY <1>1, <1>3
  <2> HIDE DEF all
  <2> QED
    BY <1>1, <2>1, OnceLength
<1>9. Len(said.valid) \in Nat /\ Cardinality(bad) \in Nat
  <2>1. IsFiniteSet(bad)
    BY <1>2, FS_Interval, FS_Subset
  <2> QED
    BY <1>1, <2>1, FS_CardinalityType
<1>10. said.duplicatesRemoved = Cardinality(repeats)
  <2> HIDE DEF all, repeats, good, bad
  <2> QED
    BY <1>1, <1>5, <1>6, <1>7, <1>8, <1>9
<1> QED
  BY <1>1, <1>10 DEF said

\* The same as the property of the runs states it, for lists of any bounded length.
THEOREM LeadsAddUp == FormSpec => []LeadCountsAddUp
<1>1. LeadCountsAddUp
  <2> SUFFICES ASSUME NEW cells \in SeqOf(Entries, MaxCells) PROVE cells \in Seq(Entries)
    BY LeadsCounted DEF LeadCountsAddUp
  <2>1. PICK m \in 0 .. MaxCells : cells \in [1 .. m -> Entries]
    BY DEF SeqOf
  <2> QED
    BY <2>1, FormAssumption
<1> QED
  BY <1>1, PTL
============================================================================
