---------------------------- MODULE ComposeForm ----------------------------
(***************************************************************************)
(* The compose page (frontend/hooks/useComposeEmail.ts and the components  *)
(* of frontend/components/compose) in front of POST /api/batches: one tab, *)
(* the asynchronous reads it starts (limits, lead files, attachments), the *)
(* submissions, and the requests they become in BatchCreation.  React runs *)
(* one event to its end before the next; each action is one event.  Error  *)
(* texts and counters that are only displayed are left out.                *)
(***************************************************************************)
EXTENDS BatchCreation, RecipientParser, FiniteSets, FiniteSetsExt

CONSTANTS
    User,      \* who is signed in
    Mails,     \* subject and body, as one value
    Blanked,   \* the mail without subject or body
    Files,     \* picks of attachments: each file is picked once
    FileOf,    \* name, size and type of each
    Limits,    \* the scheduler limits: FALLBACK_CONFIG and those of GET /config
    Starts, Delays, HourlyLimits, \* what the user may enter
    Second,    \* a second, in units of the delay
    None,      \* null, or an empty field
    MaxEdits,  \* bound: inputs of the user
    MaxCells   \* bound: entries of the lists LeadCountsAddUp looks at

ASSUME FormAssumption ==
    /\ Blanked \in Mails /\ None \notin Mails \cup LeadFiles \cup Requests
    /\ IsFiniteSet(Files)
    /\ FileOf \in [Files -> [name : STRING, size : Nat, type : STRING]]
    /\ \A source \in {"fallback", "server"} :
         LET l == Limits[source] IN
         /\ {l.maxFiles, l.maxFileSize, l.maxTotal, l.maxRecipients, l.maxDelay,
             l.maxPerHour, l.defaultDelay, l.defaultLimit} \subseteq Nat
         /\ l.types \subseteq STRING /\ l.mails \subseteq Mails \ {Blanked}
    /\ Starts \subseteq Nat /\ Delays \subseteq Nat /\ HourlyLimits \subseteq Nat
    /\ Second \in Nat \ {0} /\ MaxEdits \in Nat /\ MaxCells \in Nat

VARIABLES
    form,         \* the fields of the form: state of the hook
    config,       \* the limits in use
    loads,        \* getSchedulerConfig calls under way
    loadError,    \* the banner with its own Retry button is shown
    lead,         \* the lead file that is being read (isParsing), or None
    picks,        \* attachments that are being read, one set per pick
    isSubmitting, \* the submission that disables the button
    awaiting,     \* the requests the page still waits for
    submitError,  \* an error and its Retry button are shown
    success,      \* the request whose success view is shown, or None
    posted,       \* the requests the page has made
    edits,        \* inputs so far
    gaveUp,       \* (history) requests that were running when the page gave up on them
    ofMail,       \* (history) attachments taken for this mail
    late,         \* (history) attachments still being read when the form was emptied
    checked       \* (history) the total each attachment was allowed in, and what was
                  \* being read beside it when it was checked

settings == <<config, loads, loadError>>
posting == <<isSubmitting, awaiting, posted, gaveUp>>
history == <<ofMail, late, checked>>
page == <<form, config, loads, loadError, lead, picks, isSubmitting, awaiting,
          submitError, success, posted, edits, gaveUp, ofMail, late, checked>>

limits == Limits[config]
SizeOf(files) == MapThenSumSet(LAMBDA f : FileOf[f].size, files)
Unchecked == [f \in Files |-> [room |-> 0, beside |-> {}]]

\* defaultStartTime: the next full hour.
DefaultStart == now + 1

\* Mutant of EmptyForm: the delay is cleared instead of set to its default.
EmptyFormCleared(l) ==
    [recipients |-> <<>>, mail |-> Blanked, start |-> DefaultStart,
     delay |-> None, limit |-> l.defaultLimit, attachments |-> {}]

\* The form of the first rendering and of reset.
EmptyForm(l) ==
    [recipients |-> <<>>, mail |-> Blanked, start |-> DefaultStart,
     delay |-> l.defaultDelay, limit |-> l.defaultLimit, attachments |-> {}]

----------------------------------------------------------------------------
(* What the page and the server check *)

\* Mutant of CanSubmit: the button stays enabled while a submission runs.
CanSubmitAgain ==
    /\ form.recipients # <<>> /\ form.mail # Blanked /\ form.start # None
    /\ form.delay >= Second
    /\ lead = None
    /\ form.limit # None => form.limit >= 1

\* canSubmit of ComposePage, which the Schedule button obeys.
CanSubmit ==
    /\ form.recipients # <<>> /\ form.mail # Blanked /\ form.start # None
    /\ form.delay >= Second
    /\ lead = None /\ ~isSubmitting
    /\ form.limit # None => form.limit >= 1

\* Mutant of Validates: the delay is compared with the fallback's limit.
ValidatesFallback ==
    /\ Len(form.recipients) \in 1 .. limits.maxRecipients
    /\ form.mail \in limits.mails
    /\ form.start # None /\ form.start > now - Skew
    /\ form.delay >= Second /\ form.delay % Second = 0
    /\ form.delay <= Limits["fallback"].maxDelay
    /\ form.limit # None => form.limit \in 1 .. limits.maxPerHour

\* validate: everything but the attachments.
Validates ==
    /\ Len(form.recipients) \in 1 .. limits.maxRecipients
    /\ form.mail \in limits.mails
    /\ form.start # None /\ form.start > now - Skew
    /\ form.delay >= Second /\ form.delay % Second = 0 /\ form.delay <= limits.maxDelay
    /\ form.limit # None => form.limit \in 1 .. limits.maxPerHour

\* multer's limits and validateAttachments.
AttachmentsAccepted(files) ==
    LET l == Limits["server"] IN
    /\ Cardinality(files) <= l.maxFiles /\ SizeOf(files) <= l.maxTotal
    /\ \A f \in files : FileOf[f].size <= l.maxFileSize /\ FileOf[f].type \in l.types

\* createBatchSchema.  Its check that startTime is a date is left out: what the form
\* posts is the toISOString of one.
SchemaAccepts ==
    LET l == Limits["server"] IN
    /\ Len(form.recipients) \in 1 .. l.maxRecipients
    /\ form.mail \in l.mails
    /\ form.delay \in 1 .. l.maxDelay
    /\ form.limit # None => form.limit >= 1

\* The body of the request; the form never sends a key or a sender.
Payload ==
    [user |-> User, key |-> NoKey, mail |-> form.mail, recipients |-> form.recipients,
     startTime |-> form.start, delayMs |-> form.delay, attachments |-> form.attachments,
     source |-> config, fields |-> SchemaAccepts, knownSender |-> TRUE,
     wellFormed |-> SchemaAccepts /\ AttachmentsAccepted(form.attachments)]

NoPayload ==
    [user |-> User, key |-> NoKey, mail |-> Blanked, recipients |-> <<>>,
     startTime |-> 0, delayMs |-> 0, attachments |-> {},
     source |-> "fallback", fields |-> FALSE, knownSender |-> TRUE, wellFormed |-> FALSE]

----------------------------------------------------------------------------

FormTypeOK ==
    /\ form \in [recipients : Seq(Entries), mail : Mails, start : Nat \cup {None},
                 delay : Nat, limit : Nat \cup {None}, attachments : SUBSET Files]
    /\ config \in {"fallback", "server"}
    /\ loads \in Nat /\ loadError \in BOOLEAN
    /\ lead \in LeadFiles \cup {None} /\ picks \in SUBSET SUBSET Files
    /\ isSubmitting \in BOOLEAN /\ submitError \in BOOLEAN
    /\ awaiting \subseteq posted /\ posted \subseteq Requests /\ gaveUp \subseteq posted
    /\ success \in posted \cup {None} /\ {ofMail, late} \subseteq SUBSET Files
    /\ checked \in [Files -> [room : Nat, beside : SUBSET Files]]
    /\ edits \in 0 .. MaxEdits

\* The page as it is mounted: usable at once with the fallback limits, the
\* server's on their way.
Mounted ==
    /\ form' = EmptyForm(Limits["fallback"])
    /\ config' = "fallback" /\ loads' = 1 /\ loadError' = FALSE
    /\ lead' = None /\ picks' = {} /\ ofMail' = {} /\ late' = {} /\ checked' = Unchecked
    /\ isSubmitting' = FALSE /\ awaiting' = {} /\ submitError' = FALSE /\ success' = None

FormInit ==
    /\ req = [q \in Requests |-> NoPayload] /\ Init
    /\ form = EmptyForm(Limits["fallback"])
    /\ config = "fallback" /\ loads = 1 /\ loadError = FALSE
    /\ lead = None /\ picks = {} /\ ofMail = {} /\ late = {} /\ checked = Unchecked
    /\ isSubmitting = FALSE /\ awaiting = {} /\ submitError = FALSE /\ success = None
    /\ posted = {} /\ gaveUp = {} /\ edits = 0

\* An input of the user: the form is shown unless a batch was just scheduled.
Input ==
    /\ success = None
    /\ edits < MaxEdits /\ edits' = edits + 1
    /\ UNCHANGED <<vars, posting>>

SetField(field, value) ==
    /\ Input
    /\ form[field] # value
    /\ form' = [form EXCEPT ![field] = value]
    /\ submitError' = FALSE /\ success' = None
    /\ UNCHANGED <<settings, lead, picks, history>>

\* Mutant of AddRecipient: the address is kept as it was typed.
AddRecipientAsTyped(e) ==
    /\ Input
    /\ Normal(e) \in Valid /\ e \notin ToSet(form.recipients)
    /\ form' = [form EXCEPT !.recipients = Append(@, e)]
    /\ UNCHANGED <<settings, lead, picks, submitError, success, history>>

\* An address that is not valid only shows an error, a known one adds nothing.
AddRecipient(e) ==
    /\ Input
    /\ Normal(e) \in Valid /\ Normal(e) \notin ToSet(form.recipients)
    /\ form' = [form EXCEPT !.recipients = Append(@, Normal(e))]
    /\ UNCHANGED <<settings, lead, picks, submitError, success, history>>

\* The cross of a chip, or Backspace in the empty field for the last one.
RemoveRecipient(e) ==
    /\ Input
    /\ e \in ToSet(form.recipients)
    /\ form' = [form EXCEPT !.recipients = Without(@, {e})]
    /\ UNCHANGED <<settings, lead, picks, submitError, success, history>>

\* handleFile up to its await; the drop zone is disabled while a file is read.
ChooseLeadFile(f) ==
    /\ Input
    /\ lead = None
    /\ lead' = f /\ submitError' = FALSE /\ success' = None
    /\ UNCHANGED <<form, settings, picks, history>>

\* Its end: the addresses join those that are in the form by now.
MergeLeads ==
    /\ lead # None
    /\ form' = [form EXCEPT !.recipients =
                  @ \o Without(LeadsOf(lead).valid, ToSet(@))]
    /\ lead' = None
    /\ UNCHANGED <<vars, settings, picks, posting, submitError, success, edits, history>>

LeadFileFails ==
    /\ lead # None
    /\ lead' = None
    /\ UNCHANGED <<vars, form, settings, picks, posting, submitError, success, edits, history>>

\* Mutant of Taken: no look at the total.
TakenSingly(files) ==
    {f \in files : FileOf[f].type \in limits.types /\ FileOf[f].size <= limits.maxFileSize}

\* The files of a pick that the loop of addAttachments takes.  It judges each
\* alone against the total read before the loop, and too many files are an
\* error that is shown while they are taken.
Taken(files) ==
    {f \in files : /\ FileOf[f].type \in limits.types
                   /\ FileOf[f].size <= limits.maxFileSize
                   /\ SizeOf(form.attachments) + FileOf[f].size <= limits.maxTotal}

\* addAttachments up to the end of its reads, for which the form does not wait.
\* The button needs a free place in the list.
PickAttachments(files) ==
    /\ Input
    /\ Cardinality(form.attachments) < limits.maxFiles
    /\ files \cap (ofMail \cup late) = {}
    /\ picks' = IF Taken(files) = {} THEN picks ELSE picks \cup {Taken(files)}
    /\ ofMail' = ofMail \cup Taken(files)
    /\ checked' = [f \in Files |->
          IF f \in Taken(files)
          THEN [room |-> limits.maxTotal, beside |-> (Taken(files) \cup UNION picks) \ {f}]
          ELSE checked[f]]
    /\ UNCHANGED <<form, settings, lead, submitError, success, late>>

\* Mutant of AttachPick: the list the pick was judged by is written back.
AttachOnlyPick(files) ==
    /\ files \in picks
    /\ picks' = picks \ {files}
    /\ form' = [form EXCEPT !.attachments = files]
    /\ UNCHANGED <<vars, settings, lead, posting, submitError, success, edits, history>>

\* Its end: the files join those that are in the form by now.
AttachPick(files) ==
    /\ files \in picks
    /\ picks' = picks \ {files}
    /\ form' = [form EXCEPT !.attachments = @ \cup files]
    /\ UNCHANGED <<vars, settings, lead, posting, submitError, success, edits, history>>

\* A file that cannot be read rejects addAttachments: the whole pick is lost.
PickFails(files) ==
    /\ files \in picks
    /\ picks' = picks \ {files}
    /\ UNCHANGED <<vars, form, settings, lead, posting, submitError, success, edits, history>>

\* By name: every attachment that has it.
RemoveAttachment(name) ==
    /\ Input
    /\ \E f \in form.attachments : FileOf[f].name = name
    /\ form' = [form EXCEPT !.attachments = {f \in @ : FileOf[f].name # name}]
    /\ UNCHANGED <<settings, lead, picks, submitError, success, history>>

----------------------------------------------------------------------------
(* The limits, submissions and the two ways out of the page *)

\* A default that the user did not change follows the server's; a value typed
\* that equals the fallback's default is taken for one.
LoadData ==
    LET follow(value, default) ==
            IF form[value] = Limits["fallback"][default] THEN Limits["server"][default]
                                                         ELSE form[value]
    IN
    /\ loads > 0
    /\ loads' = loads - 1 /\ loadError' = FALSE /\ config' = "server"
    /\ form' = [form EXCEPT !.delay = follow("delay", "defaultDelay"),
                            !.limit = follow("limit", "defaultLimit"),
                            !.start = IF @ = None THEN DefaultStart ELSE @]
    /\ UNCHANGED <<vars, lead, picks, posting, submitError, success, edits, history>>

\* Also when limits of another attempt have been loaded.
LoadFails ==
    /\ loads > 0
    /\ loads' = loads - 1 /\ loadError' = TRUE
    /\ UNCHANGED <<vars, form, config, lead, picks, posting, submitError, success, edits, history>>

RetryLoad ==
    /\ Input
    /\ loadError
    /\ loads' = loads + 1
    /\ UNCHANGED <<form, config, loadError, lead, picks, submitError, success, history>>

\* The Schedule button, or Retry next to the error of a failed submission.
Clickable == success = None /\ (CanSubmit \/ submitError)

\* submit up to its await.
Submit(q) ==
    /\ Clickable /\ Validates
    /\ q \notin posted
    /\ posted' = posted \cup {q} /\ awaiting' = awaiting \cup {q}
    /\ req' = [req EXCEPT ![q] = Payload]
    /\ isSubmitting' = TRUE /\ submitError' = FALSE
    /\ UNCHANGED <<now, phase, cutoff, found, created, due, added, answer, until, saw,
                   form, settings, lead, picks, success, edits, gaveUp, history>>

\* The form is not valid: nothing is sent.
SubmitRefused ==
    /\ Clickable /\ ~Validates
    /\ submitError /\ submitError' = FALSE
    /\ UNCHANGED <<vars, form, settings, lead, picks, posting, success, edits, history>>

Answered(q) == phase[q] = "end" /\ answer[q] \in Named

\* The answer names a batch: the success view replaces the form.
Scheduled(q) ==
    /\ q \in awaiting /\ Answered(q)
    /\ awaiting' = awaiting \ {q}
    /\ success' = q /\ isSubmitting' = FALSE
    /\ UNCHANGED <<vars, form, settings, lead, picks, posted, submitError, edits, gaveUp, history>>

\* An answer that is an error, a connection that breaks, or fifteen seconds
\* without an answer: the page gives up, the request may go on.
SubmitFails(q) ==
    /\ q \in awaiting
    /\ awaiting' = awaiting \ {q}
    /\ submitError' = TRUE /\ isSubmitting' = FALSE
    /\ gaveUp' = IF phase[q] = "end" THEN gaveUp ELSE gaveUp \cup {q}
    /\ UNCHANGED <<vars, form, settings, lead, picks, posted, success, edits, history>>

\* Mutant of Reset: the attachments stay.
ResetFields ==
    /\ success # None
    /\ form' = [EmptyForm(limits) EXCEPT !.attachments = form.attachments]
    /\ submitError' = FALSE /\ success' = None /\ ofMail' = {} /\ late' = late \cup UNION picks
    /\ UNCHANGED <<vars, settings, lead, picks, posting, edits, checked>>

\* reset, "Compose another email": reads under way go on.
Reset ==
    /\ success # None
    /\ form' = EmptyForm(limits)
    /\ submitError' = FALSE /\ success' = None /\ ofMail' = {} /\ late' = late \cup UNION picks
    /\ UNCHANGED <<vars, settings, lead, picks, posting, edits, checked>>

\* The user leaves the page, by the link of the success view or at any time,
\* and comes back to a new one.  What was under way has no effect on it.
Leave ==
    /\ edits < MaxEdits /\ edits' = edits + 1
    /\ Mounted
    /\ gaveUp' = gaveUp \cup {q \in awaiting : phase[q] # "end"}
    /\ UNCHANGED <<vars, posted>>

UserStep ==
    \/ \E value \in Mails : SetField("mail", value)
    \/ \E value \in Starts \cup {None} : SetField("start", value)
    \/ \E value \in Delays : SetField("delay", value)
    \/ \E value \in HourlyLimits \cup {None} : SetField("limit", value)
    \/ \E e \in Entries : AddRecipient(e) \/ RemoveRecipient(e)
    \/ \E f \in LeadFiles : ChooseLeadFile(f)
    \/ \E files \in SUBSET Files \ {{}} : PickAttachments(files)
    \/ \E f \in Files : RemoveAttachment(FileOf[f].name)
    \/ \E q \in Requests : Submit(q)
    \/ RetryLoad \/ SubmitRefused \/ Reset \/ Leave

PageStep ==
    \/ LoadData \/ LoadFails
    \/ MergeLeads \/ LeadFileFails
    \/ \E files \in picks : AttachPick(files) \/ PickFails(files)
    \/ \E q \in Requests : Scheduled(q) \/ SubmitFails(q)

ServerStep ==
    /\ Tick \/ \E q \in posted : RequestStep(q)
    /\ UNCHANGED page

FormNext == UserStep \/ PageStep \/ ServerStep

FormSpec == FormInit /\ [][FormNext]_<<vars, page>>

----------------------------------------------------------------------------
(* Properties *)

\* However often Schedule and Retry are clicked, the page waits for one
\* submission at a time, and shows that it does.
OneInFlight == Cardinality(awaiting) <= 1 /\ (isSubmitting <=> awaiting # {})

\* A user who schedules one mail twice within the window gets two batches only
\* if the page gave up on, or was left before the end of, a request that was
\* still running: an answer, even an error after the commit, makes the repeat
\* find its batch.
CopiesOnlyAfterGivingUp ==
    \A b, c \in Batches :
        /\ b # c /\ SameKey(req[b], req[c])
        /\ created[b] <= created[c] /\ created[c] - created[b] <= Window
        => {b, c} \cap gaveUp # {}

\* What validate lets through under the server's own limits, the server's
\* schema does not refuse; only the attachments and the time can be wrong.
ChecksAgree ==
    \A q \in posted : answer[q] = "rejected" =>
        \/ req[q].source = "fallback"
        \/ ~AttachmentsAccepted(req[q].attachments)
        \/ req[q].fields /\ req[q].startTime <= now - Skew

\* The success view is about a batch with the mail, the start and exactly the
\* recipients that were posted, as many as the form had counted: the form's
\* parsers and the server's agree on which addresses are valid and equal.
ShownIsStored ==
    success # None =>
        LET asked == req[success]  batch == req[found[success]] IN
        /\ found[success] \in Batches
        /\ batch.mail = asked.mail /\ batch.startTime = asked.startTime
        /\ ToSet(ParseRecipients(batch.recipients)) = ToSet(asked.recipients)
        /\ Count(batch) = Len(asked.recipients)

\* The attachments of the form are within a total that one of them was checked
\* against, unless two of them were read beside each other: of one pick, or the one
\* picked while the other was still being read.  The check sees those already in
\* the form only; removals, late reads and limits that change do no harm to it.
TotalKept ==
    \/ form.attachments = {}
    \/ \E f \in form.attachments : SizeOf(form.attachments) <= checked[f].room
    \/ \E f \in form.attachments : form.attachments \cap checked[f].beside # {}

\* A step that adds attachments or recipients takes none away: the reads that
\* end together, or after the user's own changes, do not undo each other.
NothingLost ==
    [][/\ \/ form.attachments \subseteq form'.attachments
          \/ form'.attachments \subseteq form.attachments
       /\ \/ ToSet(form.recipients) \subseteq ToSet(form'.recipients)
          \/ ToSet(form'.recipients) \subseteq ToSet(form.recipients)]_page

\* After "Compose another email" the form has attachments of the mail before
\* only if they were still being read: those are appended to the new mail.
OnlyLateReadsLeak == form.attachments \subseteq ofMail \cup late

\* The numbers shown for a list of leads are those of its valid addresses and
\* of the repetitions of a valid address; blanks count as nothing.  It is about
\* the parser alone, and looked at in the states of an untouched form.
LeadCountsAddUp ==
    edits = 0 => \A cells \in SeqOf(Entries, MaxCells) :
        LET said    == NormalizeEmails(cells)
            repeats == {i \in DOMAIN cells :
                /\ Normal(cells[i]) \in Valid
                /\ \E j \in 1 .. i - 1 : Normal(cells[j]) = Normal(cells[i])}
        IN /\ ToSet(said.valid) = {Normal(e) : e \in ToSet(cells)} \cap Valid
           /\ said.duplicatesRemoved = Cardinality(repeats)
============================================================================
