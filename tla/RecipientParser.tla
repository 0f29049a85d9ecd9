--------------------------- MODULE RecipientParser -------------------------
(***************************************************************************)
(* frontend/lib/recipientParser.ts: what the compose form makes of an      *)
(* uploaded lead file.  A file is a record of its kind and its rows of     *)
(* cells; a text file is cut at line ends, commas and semicolons, so its   *)
(* rows only matter as the list of their cells.                            *)
(***************************************************************************)
EXTENDS Addresses, Integers, Sequences, SequencesExt

CONSTANTS
    Headers,  \* EMAIL_HEADERS, cells that name an e-mail column
    LeadFiles \* the files a user may choose

ASSUME LeadFilesAssumption ==
    /\ Headers \subseteq Entries \ Valid
    /\ \A f \in LeadFiles : /\ f.kind \in {"csv", "txt"} /\ f.tooBig \in BOOLEAN
                            /\ f.rows \in Seq(Seq(Entries))

\* A filter: the list without the values in out.
Without(list, out) ==
    LET take(acc, e) == IF e \in out THEN acc ELSE Append(acc, e)
    IN FoldLeft(take, <<>>, list)

NoLeads == [valid |-> <<>>, invalid |-> 0, duplicatesRemoved |-> 0, missingEmailColumn |-> FALSE]

\* Mutant of NormalizeEmails: blank entries are counted, as batchService does.
NormalizeCounting(input) ==
    LET take(acc, entry) ==
            LET email == Normal(entry) IN
            IF email \in Valid
            THEN IF email \in ToSet(acc.valid) THEN acc
                 ELSE [acc EXCEPT !.valid = Append(@, email)]
            ELSE IF email = Blank THEN acc ELSE [acc EXCEPT !.invalid = @ + 1]
        taken == FoldLeft(take, NoLeads, input)
    IN [taken EXCEPT !.duplicatesRemoved = Len(input) - taken.invalid - Len(taken.valid)]

\* Each valid address once, in the order of its first appearance; blanks are
\* not counted, and the duplicates are what is left of the others.
NormalizeEmails(input) ==
    LET emails == Without([i \in DOMAIN input |-> Normal(input[i])], {Blank})
        take(acc, email) ==
            IF email \notin Valid THEN [acc EXCEPT !.invalid = @ + 1]
            ELSE IF email \in ToSet(acc.valid) THEN acc
            ELSE [acc EXCEPT !.valid = Append(@, email)]
        taken == FoldLeft(take, NoLeads, emails)
    IN [taken EXCEPT !.duplicatesRemoved = Len(emails) - taken.invalid - Len(taken.valid)]

\* A column called e-mail is read, a single column without one entirely; several
\* columns without one are refused.
ParseCsv(cells) ==
    LET empty  == {r \in ToSet(cells) : \A c \in DOMAIN r : Normal(r[c]) = Blank}
        rows   == Without(cells, empty)
        header == [c \in DOMAIN Head(rows) |-> Normal(Head(rows)[c])]
        columns == {c \in DOMAIN header : header[c] \in Headers}
        column == CHOOSE c \in columns : \A d \in columns : c <= d
        cell(r) == IF column \in DOMAIN r THEN r[column] ELSE Blank
    IN CASE rows = <<>> -> NoLeads
         [] rows # <<>> /\ columns # {} ->
                NormalizeEmails([i \in 1 .. Len(rows) - 1 |-> cell(rows[i + 1])])
         [] rows # <<>> /\ columns = {} /\ Len(header) > 1 ->
                [NoLeads EXCEPT !.missingEmailColumn = TRUE]
         [] OTHER -> NormalizeEmails(FlattenSeq(rows))

ParseLeadText(f) ==
    IF f.kind = "csv" THEN ParseCsv(f.rows) ELSE NormalizeEmails(FlattenSeq(f.rows))

\* readLeadFile: too large or empty files are refused.
Readable(f) == ~f.tooBig /\ \E e \in ToSet(FlattenSeq(f.rows)) : Normal(e) # Blank

\* What a chosen file adds to the form: nothing when it is refused.
LeadsOf(f) == IF Readable(f) THEN ParseLeadText(f) ELSE NoLeads
============================================================================
