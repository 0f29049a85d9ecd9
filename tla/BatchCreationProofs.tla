------------------------- MODULE BatchCreationProofs -----------------------
(***************************************************************************)
(* What holds of BatchCreation for any requests, inputs, keys and window:  *)
(* that repeats collapse, which depends only on SameKey being the same in  *)
(* the look-up and afterwards, and that an answer is of the batch asked    *)
(* for and true of it, which depends on what the parser finds in a list.   *)
(***************************************************************************)
EXTENDS BatchCreation, FoldLemmas

\* Only a request past its look-up has a batch, and the look-up's cut-off lies
\* a window before the clock.
Order ==
    /\ now \in Nat
    /\ phase \in [Requests -> Phases]
    /\ cutoff \in [Requests -> Int]
    /\ created \in [Requests -> Nat \cup {Never}]
    /\ saw \in [Requests -> SUBSET Requests]
    /\ \A q \in Requests :
          /\ phase[q] \in {"lookup", "create"} => cutoff[q] + Window <= now
          /\ created[q] # Never => /\ phase[q] \in {"enqueue", "end"}
                                   /\ cutoff[q] + Window <= created[q]

\* A request that creates, or has created, saw only committed batches, and
\* those under its own key were older than its cut-off.
OldOnly ==
    \A q \in Requests : phase[q] = "create" \/ created[q] # Never =>
        \A b \in saw[q] : /\ created[b] # Never
                          /\ SameKey(req[b], req[q]) => created[b] < cutoff[q]

LookUpInv == Order /\ OldOnly

\* The cut-off, the clock and the phases keep their order.
LEMMA OrderStep == Order /\ [Next]_vars => Order'
<1> SUFFICES ASSUME Order, [Next]_vars PROVE Order'
  OBVIOUS
<1> USE ClockAssumption DEF Phases, Never
<1>1. CASE Tick \/ \E q \in Requests : \E n \in DOMAIN due[q] : Defer(q, n)
  BY <1>1 DEF Order, Tick, Defer
<1>2. ASSUME NEW q \in Requests, RequestStep(q) PROVE Order'
  <2>1. CASE Receive(q)
    BY <2>1 DEF Order, Receive, Moves
  <2>2. CASE Reject(q)
    BY <2>2 DEF Order, Reject, Moves, Answer
  <2>3. CASE ResolveSender(q)
    BY <2>3 DEF Order, ResolveSender, Moves
  <2>4. CASE NoSender(q)
    BY <2>4 DEF Order, NoSender, Moves, Answer
  <2>5. CASE FindExisting(q)
    BY <2>5 DEF Order, FindExisting, Moves, Batches
  <2>6. CASE FindNothing(q)
    BY <2>6 DEF Order, FindNothing, Moves, Batches
  <2>7. CASE Summarise(q)
    BY <2>7 DEF Order, Summarise, Moves
  <2>8. CASE Create(q)
    BY <2>8 DEF Order, Create, Commit, Moves
  <2>9. CASE Enqueue(q)
    BY <2>9 DEF Order, Enqueue, Moves
  <2>10. CASE DbRejects(q)
    BY <2>10 DEF Order, DbRejects, MaybeCommitted, Commit
  <2>11. CASE Dies(q)
    BY <2>11 DEF Order, Dies, MaybeCommitted, Commit
  <2> QED
    BY <1>2, <2>1, <2>2, <2>3, <2>4, <2>5, <2>6, <2>7, <2>8, <2>9, <2>10, <2>11
       DEF RequestStep
<1>3. CASE UNCHANGED vars
  BY <1>3 DEF Order, vars
<1> QED
  BY <1>1, <1>2, <1>3 DEF Next

\* A step that commits at most the batch of one request in its create, and lets
\* nobody new come to the create, keeps OldOnly.
LEMMA NoNewCreator ==
    ASSUME Order, OldOnly, UNCHANGED <<req, cutoff>>,
           \A q \in Requests : created[q] # Never => created'[q] = created[q],
           \A q \in Requests : phase'[q] = "create" \/ created'[q] # Never =>
               /\ phase[q] = "create" \/ created[q] # Never
               /\ saw'[q] = saw[q]
    PROVE  OldOnly'
BY DEF Order, OldOnly, Never

\* No step adds a batch to what a creating request has seen, or makes one of
\* those young enough to have been found.
LEMMA OldOnlyStep == Order /\ OldOnly /\ [Next]_vars => OldOnly'
<1> SUFFICES ASSUME Order, OldOnly, [Next]_vars PROVE OldOnly'
  OBVIOUS
<1> USE DEF Phases, Never
<1>1. CASE Tick \/ \E q \in Requests : \E n \in DOMAIN due[q] : Defer(q, n)
  BY <1>1, NoNewCreator DEF Order, Tick, Defer
<1>2. ASSUME NEW q \in Requests, RequestStep(q) PROVE OldOnly'
  <2>1. CASE Receive(q)
    BY <2>1, NoNewCreator DEF Order, Receive, Moves
  <2>2. CASE Reject(q)
    BY <2>2, NoNewCreator DEF Order, Reject, Moves, Answer
  <2>3. CASE ResolveSender(q)
    BY <2>3 DEF Order, OldOnly, ResolveSender, Moves
  <2>4. CASE NoSender(q)
    BY <2>4, NoNewCreator DEF Order, NoSender, Moves, Answer
  <2>5. CASE FindExisting(q)
    BY <2>5, NoNewCreator DEF Order, FindExisting, Moves
  <2>6. CASE FindNothing(q)
    BY <2>6 DEF Order, OldOnly, FindNothing, Moves, Batches, Matches
  <2>7. CASE Summarise(q)
    BY <2>7, NoNewCreator DEF Order, Summarise, Moves
  <2>8. CASE Create(q)
    BY <2>8, NoNewCreator DEF Order, Create, Commit, Moves
  <2>9. CASE Enqueue(q)
    BY <2>9, NoNewCreator DEF Order, Enqueue, Moves
  <2>10. CASE DbRejects(q)
    BY <2>10, NoNewCreator DEF Order, DbRejects, MaybeCommitted, Commit
  <2>11. CASE Dies(q)
    BY <2>11, NoNewCreator DEF Order, Dies, MaybeCommitted, Commit
  <2> QED
    BY <1>2, <2>1, <2>2, <2>3, <2>4, <2>5, <2>6, <2>7, <2>8, <2>9, <2>10, <2>11
       DEF RequestStep
<1>3. CASE UNCHANGED vars
  BY <1>3, NoNewCreator DEF Order, vars
<1> QED
  BY <1>1, <1>2, <1>3 DEF Next

\* A batch a creator has seen under its key is more than a window older.
LEMMA OldEnough == LookUpInv => CopiesOverlap
<1> SUFFICES ASSUME Order, OldOnly, NEW b \in Batches, NEW c \in Batches,
                    SameKey(req[b], req[c]), created[c] - created[b] <= Window,
                    b \in saw[c]
             PROVE  FALSE
  BY DEF LookUpInv, CopiesOverlap
<1>1. b \in Requests /\ c \in Requests /\ created[b] # Never /\ created[c] # Never
  BY DEF Batches
<1>2. created[b] < cutoff[c]
  BY <1>1 DEF OldOnly
<1>3. cutoff[c] + Window <= created[c]
  BY <1>1 DEF Order
<1>4. created[b] \in Int /\ created[c] \in Int /\ cutoff[c] \in Int
  BY <1>1 DEF Order, Never
<1> QED
  BY <1>2, <1>3, <1>4, ClockAssumption

\* Whatever the requests ask and however they interleave, fail and die, a user
\* has two batches under one key in one window only if the requests overlapped
\* between look-up and create (services/batchService.ts 182-198).
THEOREM RepeatsCollapse == Spec => []CopiesOverlap
<1>1. Init => LookUpInv
  BY DEF Init, LookUpInv, Order, OldOnly, Phases, Never
<1>2. LookUpInv /\ [Next]_vars => LookUpInv'
  BY OrderStep, OldOnlyStep DEF LookUpInv
<1> QED
  BY <1>1, <1>2, OldEnough, PTL DEF Spec

----------------------------------------------------------------------------
(* What the parser finds *)

\* The fold of ParseRecipients is what its step makes of a shorter list.
LEMMA ParseUnfolds ==
    ASSUME NEW raw \in Seq(Entries)
    PROVE  \E g : /\ ParseRecipients(raw) = g[DOMAIN raw]
                  /\ g = [s \in SUBSET DOMAIN raw |->
                            IF s = {} THEN <<>>
                            ELSE LET acc == g[s \ {Max(s)}]  e == Normal(raw[Max(s)]) IN
                                 IF e \notin Valid \/ e \in ToSet(acc) THEN acc
                                                                     ELSE Append(acc, e)]
<1> DEFINE D == DOMAIN raw
           Eq(g) == [s \in SUBSET D |->
                       IF s = {} THEN <<>>
                       ELSE LET acc == g[s \ {Max(s)}]  e == Normal(raw[Max(s)]) IN
                            IF e \notin Valid \/ e \in ToSet(acc) THEN acc ELSE Append(acc, e)]
           step == [a \in Seq(Valid) \X D |->
                      LET e == Normal(raw[a[2]]) IN
                      IF e \notin Valid \/ e \in ToSet(a[1]) THEN a[1] ELSE Append(a[1], e)]
           max == [s \in SUBSET D |-> Max(s)]
<1>1. \E g : g = Eq(g)
  <2>1. IsFiniteSet(D)
    BY FS_Interval
  <2>2. step \in [Seq(Valid) \X D -> Seq(Valid)]
    OBVIOUS
  <2>3. \A s \in SUBSET D : s # {} => max[s] \in s
    BY MaxOfSome
  <2>4. <<>> \in Seq(Valid)
    OBVIOUS
  <2> HIDE DEF step
  <2>5. PICK g : FoldsTo(g, D, max, Seq(Valid), <<>>, step)
    <3> DEFINE A == Seq(Valid)
    <3>1. step \in [A \X D -> A] /\ <<>> \in A
      BY <2>2, <2>4
    <3> HIDE DEF max, D, A
    <3>2. \E g : FoldsTo(g, D, max, A, <<>>, step)
      BY <2>1, <2>3, <3>1, FoldExists
    <3> QED
      BY <3>2 DEF A
  <2>6. ASSUME NEW s \in SUBSET D, s # {}
        PROVE  g[s] = Eq(g)[s]
    <3>1. g[s \ {Max(s)}] \in Seq(Valid) /\ max[s] \in D /\ max[s] = Max(s)
      BY <2>3, <2>5, <2>6 DEF FoldsTo
    <3>2. g[s] = step[<<g[s \ {Max(s)}], Max(s)>>]
      BY <2>5, <2>6, <3>1 DEF FoldsTo, Rest
    <3> QED
      BY <2>6, <3>1, <3>2 DEF step
  <2>7. \A s \in SUBSET D : g[s] = Eq(g)[s]
    BY <2>5, <2>6 DEF FoldsTo
  <2>8. g = Eq(g)
    BY <2>5, <2>7 DEF FoldsTo
  <2> QED
    BY <2>8
<1> DEFINE it == CHOOSE g : g = Eq(g)
<1>2. it = Eq(it)
  <2> HIDE DEF Eq
  <2> QED
    BY <1>1
<1>3. ParseRecipients(raw) = it[D]
  BY DEF ParseRecipients, FoldLeft, MapThenFoldSet
<1> QED
  BY <1>2, <1>3

\* parseRecipients (batchService.ts): the valid addresses among the entries, each
\* once.
LEMMA ParseFinds ==
    ASSUME NEW raw \in Seq(Entries)
    PROVE  /\ ParseRecipients(raw) \in Seq(Valid)
           /\ ToSet(ParseRecipients(raw)) = {Normal(e) : e \in ToSet(raw)} \cap Valid
           /\ IsInjective(ParseRecipients(raw))
<1>1. PICK g : /\ ParseRecipients(raw) = g[DOMAIN raw]
               /\ g = [s \in SUBSET DOMAIN raw |->
                         IF s = {} THEN <<>>
                         ELSE LET acc == g[s \ {Max(s)}]  e == Normal(raw[Max(s)]) IN
                              IF e \notin Valid \/ e \in ToSet(acc) THEN acc
                                                                  ELSE Append(acc, e)]
  BY ParseUnfolds
<1> DEFINE D == DOMAIN raw
           P == {s \in SUBSET D : /\ g[s] \in Seq(Valid)
                                  /\ ToSet(g[s]) = {Normal(raw[k]) : k \in s} \cap Valid
                                  /\ IsInjective(g[s])}
           max == [s \in SUBSET D |-> Max(s)]
<1>2. {} \in P
  BY <1>1 DEF ToSet, IsInjective
<1>3. ASSUME NEW s \in SUBSET D, s # {} PROVE max[s] \in s /\ (Rest(max, s) \in P => s \in P)
  <2>1. Max(s) \in s /\ max[s] = Max(s)
    BY <1>3, MaxOfSome
  <2> SUFFICES ASSUME s \ {Max(s)} \in P PROVE s \in P
    BY <2>1 DEF Rest
  <2> DEFINE acc == g[s \ {Max(s)}]
             e == Normal(raw[Max(s)])
             all == {Normal(raw[k]) : k \in s}
             others == {Normal(raw[k]) : k \in s \ {Max(s)}}
  <2>2. acc \in Seq(Valid) /\ ToSet(acc) = others \cap Valid /\ IsInjective(acc)
    OBVIOUS
  <2>3. g[s] = IF e \notin Valid \/ e \in ToSet(acc) THEN acc ELSE Append(acc, e)
    BY <1>1, <1>3
  <2>4. all = others \cup {e}
    BY <2>1
  <2> HIDE DEF acc, e
  <2>5. g[s] \in Seq(Valid) /\ ToSet(g[s]) = (others \cup {e}) \cap Valid /\ IsInjective(g[s])
    BY <2>2, <2>3, AppendAdds
  <2> QED
    BY <2>4, <2>5
<1>4. SUBSET D \subseteq P
  <2>1. IsFiniteSet(D)
    BY FS_Interval
  <2> HIDE DEF D, P, max
  <2> QED
    BY <1>2, <1>3, <2>1, SetInduction
<1>5. D \in P
  BY <1>4
<1>6. {Normal(raw[k]) : k \in D} = {Normal(e) : e \in ToSet(raw)}
  BY DEF ToSet
<1> QED
  BY <1>1, <1>5, <1>6

\* A parsed list holds every address once.
LEMMA ParsedTypes ==
    ASSUME NEW i \in Inputs
    PROVE  /\ ToSet(ParseRecipients(i.recipients))
                = {Normal(e) : e \in ToSet(i.recipients)} \cap Valid
           /\ ToSet(ParseRecipients(i.recipients)) \subseteq Entries
           /\ Count(i) \in Nat
           /\ LastScheduledAt(i) \in Nat
<1>1. i.recipients \in Seq(Entries) /\ i.startTime \in Nat /\ i.delayMs \in Nat
  BY InputsAssumption
<1>2. ParseRecipients(i.recipients) \in Seq(Valid)
  BY <1>1, ParseFinds
<1>3. Count(i) \in Nat
  BY <1>2 DEF Count
<1>4. ToSet(ParseRecipients(i.recipients)) = {Normal(e) : e \in ToSet(i.recipients)} \cap Valid
  BY <1>1, ParseFinds
<1>5. MaxOf(0, Count(i) - 1) \in Nat
  BY <1>3 DEF MaxOf
<1>6. MaxOf(0, Count(i) - 1) * i.delayMs \in Nat
  <2> DEFINE n == MaxOf(0, Count(i) - 1)  d == i.delayMs
  <2> HIDE DEF n, d
  <2>1. n \in Nat /\ d \in Nat
    BY <1>1, <1>5 DEF n, d
  <2>2. n * d \in Nat
    BY <2>1
  <2> QED
    BY <2>2 DEF n, d
<1>7. LastScheduledAt(i) \in Nat
  BY <1>1, <1>6 DEF LastScheduledAt
<1> QED
  BY <1>3, <1>4, <1>7, EntriesAssumption

\* A plan is a list of times, the last of which is lastScheduledAt and the latest.
LEMMA PlanIsPlan ==
    ASSUME NEW i \in Inputs
    PROVE  /\ Planned(i) \in Seq(Nat) /\ DOMAIN Planned(i) = 1 .. Count(i)
           /\ \A n \in 1 .. Count(i) : Planned(i)[n] \in Nat
           /\ Count(i) > 0 => /\ Planned(i)[Count(i)] = LastScheduledAt(i)
                              /\ \A t \in ToSet(Planned(i)) : t <= LastScheduledAt(i)
<1> DEFINE c == Count(i)  d == i.delayMs  s == i.startTime
<1>1. c \in Nat /\ d \in Nat /\ s \in Nat
  BY InputsAssumption, ParsedTypes
<1>2. c > 0 => LastScheduledAt(i) = s + (c - 1) * d
  BY <1>1 DEF LastScheduledAt, MaxOf
<1>3. Planned(i) = [n \in 1 .. c |-> s + (n - 1) * d]
  BY DEF Planned
<1> HIDE DEF c, d, s
<1>4. \A n \in 1 .. c : s + (n - 1) * d \in Nat
  <2> TAKE n \in 1 .. c
  <2>1. n - 1 \in Nat
    BY <1>1
  <2>2. (n - 1) * d \in Nat
    BY <1>1, <2>1
  <2> QED
    BY <1>1, <2>2
<1>5. \A n \in 1 .. c : s + (n - 1) * d <= s + (c - 1) * d
  <2> TAKE n \in 1 .. c
  <2> DEFINE k == n - 1  m == c - 1
  <2>1. k \in Nat /\ m \in Nat /\ m - k \in Nat
    BY <1>1
  <2> HIDE DEF k, m
  <2>2. (m - k) * d \in Nat /\ m * d = (m - k) * d + k * d /\ k * d \in Nat
    BY <1>1, <2>1
  <2>3. s + k * d <= s + m * d
    BY <1>1, <2>2
  <2> QED
    BY <2>3 DEF k, m
<1>6. /\ Planned(i) \in Seq(Nat) /\ DOMAIN Planned(i) = 1 .. c
      /\ \A n \in 1 .. c : Planned(i)[n] \in Nat
  BY <1>1, <1>3, <1>4
<1>7. ASSUME c > 0
      PROVE  /\ Planned(i)[c] = LastScheduledAt(i)
             /\ \A t \in ToSet(Planned(i)) : t <= LastScheduledAt(i)
  <2>1. c \in 1 .. c
    BY <1>1, <1>7
  <2>2. \A n \in 1 .. c : Planned(i)[n] = s + (n - 1) * d
    BY <1>3
  <2>3. Planned(i)[c] = LastScheduledAt(i)
    BY <1>2, <1>7, <2>1, <2>2
  <2>4. \A t \in ToSet(Planned(i)) : \E n \in 1 .. c : t = Planned(i)[n]
    BY <1>6 DEF ToSet
  <2> QED
    BY <1>2, <1>5, <1>7, <2>2, <2>3, <2>4
<1> QED
  BY <1>6, <1>7 DEF c

----------------------------------------------------------------------------
(* Types and answers *)

LEMMA BatchTypeStep == TypeOK /\ [Next]_vars => TypeOK'
<1> SUFFICES ASSUME TypeOK, [Next]_vars PROVE TypeOK'
  OBVIOUS
<1> USE ClockAssumption DEF Phases, Answers, Never
<1>1. CASE Tick
  BY <1>1 DEF TypeOK, Tick
<1>4. ASSUME NEW q \in Requests, NEW n \in DOMAIN due[q], Defer(q, n) PROVE TypeOK'
  <2>1. PICK shift \in Shifts : due' = [due EXCEPT ![q][n] = now + shift]
    BY <1>4 DEF Defer
  <2>2. due[q] \in Seq(Nat) /\ now + shift \in Nat
    BY ShiftsAssumption DEF TypeOK
  <2>3. [due[q] EXCEPT ![n] = now + shift] \in Seq(Nat)
    BY <2>2
  <2>4. due' \in [Requests -> Seq(Nat)]
    BY <2>1, <2>3 DEF TypeOK
  <2> QED
    BY <1>4, <2>4 DEF Defer, TypeOK
<1>2. ASSUME NEW q \in Requests, RequestStep(q) PROVE TypeOK'
  <2>1. CASE Receive(q)
    BY <2>1 DEF TypeOK, Receive, Moves
  <2>2. CASE Reject(q)
    BY <2>2 DEF TypeOK, Reject, Moves, Answer
  <2>3. CASE ResolveSender(q)
    BY <2>3 DEF TypeOK, ResolveSender, Moves
  <2>4. CASE NoSender(q)
    BY <2>4 DEF TypeOK, NoSender, Moves, Answer
  <2>5. CASE FindExisting(q)
    BY <2>5 DEF TypeOK, FindExisting, Moves, Matches, Batches
  <2>6. CASE FindNothing(q)
    BY <2>6 DEF TypeOK, FindNothing, Moves, Batches
  <2>7. CASE Summarise(q)
    <3>1. LastScheduledAt(req[found[q]]) \in Nat
      BY ParsedTypes DEF TypeOK
    <3> QED
      BY <2>7, <3>1 DEF TypeOK, Summarise, Moves
  <2>0. Planned(req[q]) \in Seq(Nat)
    BY PlanIsPlan DEF TypeOK
  <2>8. CASE Create(q)
    BY <2>0, <2>8 DEF TypeOK, Create, Commit, Moves
  <2>9. CASE Enqueue(q)
    <3>1. LastScheduledAt(req[q]) \in Nat /\ ToSet(ParseRecipients(req[q].recipients)) \subseteq Entries
      BY ParsedTypes DEF TypeOK
    <3>2. added' \in [Requests -> SUBSET Entries] /\ answer' \in [Requests -> Answers]
      BY <2>9, <3>1 DEF TypeOK, Enqueue
    <3>3. until' \in [Requests -> Nat \cup {Never}] /\ phase' \in [Requests -> Phases]
      BY <2>9, <3>1 DEF TypeOK, Enqueue, Moves
    <3> QED
      BY <2>9, <3>2, <3>3 DEF TypeOK, Enqueue
  <2>10. ASSUME MaybeCommitted(q)
         PROVE  created' \in [Requests -> Nat \cup {Never}] /\ due' \in [Requests -> Seq(Nat)]
    <3>1. CASE Commit(q)
      BY <2>0, <3>1 DEF TypeOK, Commit
    <3>2. CASE UNCHANGED <<created, due>>
      BY <3>2 DEF TypeOK
    <3> QED
      BY <2>10, <3>1, <3>2 DEF MaybeCommitted
  <2>11. CASE DbRejects(q)
    BY <2>11, <2>10 DEF TypeOK, DbRejects
  <2>12. CASE Dies(q)
    BY <2>12, <2>10 DEF TypeOK, Dies
  <2> QED
    BY <1>2, <2>1, <2>2, <2>3, <2>4, <2>5, <2>6, <2>7, <2>8, <2>9, <2>11, <2>12
       DEF RequestStep
<1>3. CASE UNCHANGED vars
  BY <1>3 DEF TypeOK, vars
<1> QED
  BY <1>1, <1>2, <1>3, <1>4 DEF Next

\* Requests, batches and answers are of their types in every state, whatever the
\* lists of recipients: what the parser returns is a list of addresses, and the
\* rows of a batch are at times (batchService.ts 182-287).
THEOREM BatchTypeCorrect == Spec => []TypeOK
<1>1. Init => TypeOK
  BY ClockAssumption DEF Init, TypeOK, Phases, Answers, Never
<1> QED
  BY <1>1, BatchTypeStep, PTL DEF Spec

\* What a request answers with: itself until it has found a batch, then one with
\* its key; and a request that has passed its checks has recipients.
Traced ==
    /\ found \in [Requests -> Requests] /\ answer \in [Requests -> Answers]
    /\ \A q \in Requests :
          /\ phase[q] \notin {"new", "end"} => Count(req[q]) > 0 /\ answer[q] = "none"
          /\ phase[q] \in {"new", "sender", "lookup", "create", "enqueue"} => found[q] = q
          /\ phase[q] = "enqueue" => created[q] # Never
          /\ phase[q] = "count" \/ answer[q] \in Named =>
                created[found[q]] # Never /\ SameKey(req[found[q]], req[q])
          /\ phase[q] = "new" => answer[q] = "none"
          /\ created[q] # Never => Count(req[q]) > 0

\* A step of one request whose batch, if it has one, and answer are accounted for.
LEMMA TracedByOne ==
    ASSUME Order, Traced, NEW q \in Requests, req' = req,
           found' \in [Requests -> Requests], answer' \in [Requests -> Answers],
           \A p \in Requests \ {q} : /\ phase'[p] = phase[p] /\ created'[p] = created[p]
                                     /\ found'[p] = found[p] /\ answer'[p] = answer[p],
           created[q] # Never => created'[q] # Never,
           phase'[q] \notin {"new", "end"} => Count(req[q]) > 0 /\ answer'[q] = "none",
           phase'[q] \in {"new", "sender", "lookup", "create", "enqueue"} => found'[q] = q,
           phase'[q] = "enqueue" => created'[q] # Never,
           phase'[q] = "count" \/ answer'[q] \in Named =>
                created'[found'[q]] # Never /\ SameKey(req[found'[q]], req[q]),
           phase'[q] # "new",
           created'[q] # Never => Count(req[q]) > 0
    PROVE  Traced'
BY DEF Traced

LEMMA TracedStep == Order /\ Traced /\ [Next]_vars => Traced'
<1> SUFFICES ASSUME Order, Traced, [Next]_vars PROVE Traced'
  OBVIOUS
<1>1. CASE Tick \/ UNCHANGED vars \/ \E q \in Requests : \E n \in DOMAIN due[q] : Defer(q, n)
  BY <1>1 DEF Traced, Tick, Defer, vars
<1>2. ASSUME NEW q \in Requests, RequestStep(q) PROVE Traced'
  <2>0. /\ created \in [Requests -> Nat \cup {Never}] /\ phase \in [Requests -> Phases]
        /\ now # Never
    BY DEF Order, Never
  <2> USE DEF Phases, Answers, Named
  <2>1. CASE Receive(q)
    BY <2>0, <2>1, TracedByOne DEF Receive, Moves, Acceptable, Traced
  <2>2. CASE Reject(q)
    BY <2>0, <2>2, TracedByOne DEF Reject, Moves, Answer, Traced
  <2>3. CASE ResolveSender(q)
    BY <2>0, <2>3, TracedByOne DEF ResolveSender, Moves, Traced
  <2>4. CASE NoSender(q)
    BY <2>0, <2>4, TracedByOne DEF NoSender, Moves, Answer, Traced
  <2>5. CASE FindExisting(q)
    BY <2>0, <2>5, TracedByOne DEF FindExisting, Moves, Matches, Batches, Traced
  <2>6. CASE FindNothing(q)
    BY <2>0, <2>6, TracedByOne DEF FindNothing, Moves, Traced
  <2>7. CASE Summarise(q)
    BY <2>0, <2>7, TracedByOne DEF Summarise, Moves, Traced
  <2>8. CASE Create(q)
    BY <2>0, <2>8, TracedByOne DEF Create, Commit, Moves, Traced
  <2>9. CASE Enqueue(q)
    <3>1. SameKey(req[q], req[q])
      BY DEF SameKey
    <3> QED
      BY <2>0, <2>9, <3>1, TracedByOne DEF Enqueue, Moves, Traced
  <2>10. CASE DbRejects(q)
    BY <2>0, <2>10, TracedByOne DEF DbRejects, MaybeCommitted, Commit, Traced
  <2>11. CASE Dies(q)
    BY <2>0, <2>11, TracedByOne DEF Dies, MaybeCommitted, Commit, Traced
  <2> QED
    BY <1>2, <2>1, <2>2, <2>3, <2>4, <2>5, <2>6, <2>7, <2>8, <2>9, <2>10, <2>11
       DEF RequestStep
<1> QED
  BY <1>1, <1>2 DEF Next

LEMMA TracedInit == Init => Order /\ Traced
  BY DEF Init, Order, Traced, Phases, Answers, Named, Never

\* Requests under one key ask for one mail, unless the client chose the key.
LEMMA KeyMeans ==
    ASSUME NEW i, NEW j, SameKey(i, j), j.key = NoKey
    PROVE  /\ i.user = j.user /\ i.mail = j.mail /\ i.startTime = j.startTime
           /\ ToSet(ParseRecipients(i.recipients)) = ToSet(ParseRecipients(j.recipients))
<1> DEFINE s(k) == ToSet(ParseRecipients(k.recipients))
<1> HIDE DEF s
<1>1. KeyFor(j) = <<j.user, j.mail, s(j), j.startTime>>
  BY DEF KeyFor, s
<1>2. KeyFor(i) = <<i.key>> \/ KeyFor(i) = <<i.user, i.mail, s(i), i.startTime>>
  BY DEF KeyFor, s
<1>3. KeyFor(i) # <<i.key>>
  <2>1. Len(<<i.key>>) = 1 /\ Len(<<j.user, j.mail, s(j), j.startTime>>) = 4
    OBVIOUS
  <2> QED
    BY <1>1, <2>1 DEF SameKey
<1>4. <<i.user, i.mail, s(i), i.startTime>> = <<j.user, j.mail, s(j), j.startTime>>
  BY <1>1, <1>2, <1>3 DEF SameKey
<1> QED
  BY <1>4 DEF s

\* A client is answered with a batch of its own user and, without a key of its own,
\* with the mail, the start and the recipients it asked for: the hash over the
\* sorted list (batchService.ts 89) tells two sets of addresses apart, however they
\* were typed and repeated.
THEOREM AnswersMatch == Spec => []AnswerMatches
<1>1. TypeOK /\ Traced => AnswerMatches
  <2> SUFFICES ASSUME TypeOK, Traced, NEW q \in Requests, answer[q] \in Named
               PROVE  LET i == req[q]  b == req[found[q]] IN
                      /\ found[q] \in Batches /\ b.user = i.user
                      /\ i.key = NoKey =>
                           /\ b.mail = i.mail /\ b.startTime = i.startTime
                           /\ {Normal(e) : e \in ToSet(b.recipients)} \cap Valid
                                = {Normal(e) : e \in ToSet(i.recipients)} \cap Valid
    BY DEF AnswerMatches
  <2> DEFINE i == req[q]  b == req[found[q]]
  <2>1. found[q] \in Batches /\ SameKey(b, i) /\ i \in Inputs /\ b \in Inputs
    BY DEF Traced, TypeOK, Batches
  <2> HIDE DEF i, b
  <2>2. b.user = i.user
    BY <2>1 DEF SameKey
  <2>3. ASSUME i.key = NoKey
        PROVE  /\ b.mail = i.mail /\ b.startTime = i.startTime
               /\ {Normal(e) : e \in ToSet(b.recipients)} \cap Valid
                    = {Normal(e) : e \in ToSet(i.recipients)} \cap Valid
    BY <2>1, <2>3, KeyMeans, ParsedTypes
  <2> QED
    BY <2>1, <2>2, <2>3 DEF i, b
<1> QED
  BY <1>1, TracedInit, OrderStep, TracedStep, BatchTypeCorrect, PTL DEF Spec

\* What is said with an answer.
Said ==
    \A q \in Requests :
        /\ answer[q] \in Named => until[q] = LastScheduledAt(req[found[q]])
        /\ answer[q] = "scheduled" => added[q] = ToSet(ParseRecipients(req[q].recipients))

LEMMA SaidStep == TypeOK /\ Traced /\ Said /\ [Next]_vars => Said'
<1> SUFFICES ASSUME TypeOK, Traced, Said, [Next]_vars PROVE Said'
  OBVIOUS
<1> USE DEF Phases, Answers, Named
<1>1. CASE Tick \/ UNCHANGED vars \/ \E q \in Requests : \E n \in DOMAIN due[q] : Defer(q, n)
  BY <1>1 DEF Said, Tick, Defer, vars
<1>2. ASSUME NEW q \in Requests, RequestStep(q) PROVE Said'
  <2>1. CASE Receive(q) \/ ResolveSender(q) \/ Create(q) \/ Dies(q)
    BY <2>1 DEF Said, Receive, ResolveSender, Create, Dies
  <2>2. CASE FindExisting(q) \/ FindNothing(q)
    BY <2>2 DEF Said, TypeOK, Traced, FindExisting, FindNothing, Moves
  <2>3. CASE Reject(q) \/ NoSender(q) \/ DbRejects(q)
    BY <2>3 DEF Said, TypeOK, Reject, NoSender, Answer, DbRejects
  <2>4. CASE Summarise(q)
    BY <2>4 DEF Said, TypeOK, Summarise
  <2>5. CASE Enqueue(q)
    <3>1. found[q] = q /\ found' = found /\ req' = req
      BY <2>5 DEF Traced, Enqueue, Moves
    <3>2. until' = [until EXCEPT ![q] = LastScheduledAt(req[q])]
      BY <2>5 DEF Enqueue
    <3>3. answer'[q] = "scheduled" => added'[q] = ToSet(ParseRecipients(req[q].recipients))
      BY <2>5 DEF TypeOK, Enqueue
    <3>4. \A p \in Requests \ {q} : answer'[p] = answer[p] /\ added'[p] = added[p] /\ until'[p] = until[p]
      BY <2>5 DEF TypeOK, Enqueue
    <3> QED
      BY <3>1, <3>2, <3>3, <3>4 DEF Said, TypeOK
  <2> QED
    BY <1>2, <2>1, <2>2, <2>3, <2>4, <2>5 DEF RequestStep
<1> QED
  BY <1>1, <1>2 DEF Next

\* The rows of a batch are those planned, at the times planned or later.
OnlyLater ==
    \A b \in Requests : created[b] # Never =>
        /\ DOMAIN due[b] = 1 .. Count(req[b])
        /\ \A n \in 1 .. Count(req[b]) : Planned(req[b])[n] <= due[b][n]

LEMMA OnlyLaterStep == TypeOK /\ OnlyLater /\ [Next]_vars => OnlyLater'
<1> SUFFICES ASSUME TypeOK, OnlyLater, [Next]_vars PROVE OnlyLater'
  OBVIOUS
<1>1. ASSUME UNCHANGED <<req, created, due>>  PROVE OnlyLater'
  BY <1>1 DEF OnlyLater
<1>2. ASSUME NEW q \in Requests, Commit(q), req' = req  PROVE OnlyLater'
  <2>1. /\ req[q] \in Inputs /\ due'[q] = Planned(req[q])
        /\ \A b \in Requests \ {q} : due'[b] = due[b] /\ created'[b] = created[b]
    BY <1>2 DEF Commit, TypeOK
  <2>2. DOMAIN due'[q] = 1 .. Count(req[q]) /\ due'[q] \in Seq(Nat)
    BY <2>1, PlanIsPlan
  <2>3. \A n \in 1 .. Count(req[q]) : Planned(req[q])[n] <= due'[q][n]
    <3>1. \A n \in 1 .. Count(req[q]) : Planned(req[q])[n] \in Nat
      BY <2>1, PlanIsPlan
    <3>2. \A k \in Nat : k <= k
      OBVIOUS
    <3> QED
      BY <2>1, <3>1, <3>2
  <2> QED
    BY <1>2, <2>1, <2>2, <2>3 DEF OnlyLater
<1>3. ASSUME NEW q \in Requests, NEW n \in DOMAIN due[q], Defer(q, n)  PROVE OnlyLater'
  <2>1. PICK shift \in Shifts : due' = [due EXCEPT ![q][n] = now + shift]
    BY <1>3 DEF Defer
  <2>2. /\ due[q][n] <= now + shift /\ due[q][n] \in Nat /\ now + shift \in Nat
    BY <1>3, ShiftsAssumption DEF Defer, TypeOK
  <2>3. /\ req' = req /\ created' = created
        /\ \A b \in Requests \ {q} : due'[b] = due[b]
        /\ DOMAIN due'[q] = DOMAIN due[q]
        /\ \A m \in DOMAIN due[q] : due'[q][m] = IF m = n THEN now + shift ELSE due[q][m]
    BY <1>3, <2>1 DEF Defer, TypeOK
  <2>4. ASSUME created[q] # Never, NEW m \in 1 .. Count(req[q])
        PROVE  Planned(req[q])[m] <= due'[q][m]
    <3>1. Planned(req[q])[m] <= due[q][m] /\ m \in DOMAIN due[q]
      BY <2>4 DEF OnlyLater
    <3>2. Planned(req[q])[m] \in Nat
      BY <2>4, PlanIsPlan DEF TypeOK
    <3> QED
      BY <2>2, <2>3, <3>1, <3>2
  <2> QED
    BY <2>3, <2>4 DEF OnlyLater
<1>4. ASSUME NEW q \in Requests, RequestStep(q)  PROVE OnlyLater'
  <2>1. req' = req
    BY <1>4 DEF RequestStep, Receive, Reject, ResolveSender, NoSender, FindExisting, FindNothing, Summarise,
       Create, Enqueue, DbRejects, Dies, Answer
  <2>2. Commit(q) \/ UNCHANGED <<created, due>>
    BY <1>4 DEF RequestStep, Receive, Reject, ResolveSender, NoSender, FindExisting, FindNothing, Summarise,
       Create, Enqueue, DbRejects, Dies, Answer, MaybeCommitted
  <2> QED
    BY <1>1, <1>2, <2>1, <2>2
<1>5. CASE Tick \/ UNCHANGED vars
  BY <1>1, <1>5 DEF Tick, vars
<1> QED
  BY <1>3, <1>4, <1>5 DEF Next

\* lastScheduledAt is the time of the last row of the batch named as long as none was
\* deferred (emailWorker.ts 83-86), and never later than it; a new batch is called
\* scheduled only when every valid recipient went to the queue (batchService.ts
\* 112-126 and createBatch).  For lists of any length and any deferrals.
THEOREM AnswersAreTrue == Spec => []AnswerIsTrue
<1>1. TypeOK /\ Traced /\ Said /\ OnlyLater => AnswerIsTrue
  <2> SUFFICES ASSUME TypeOK, Traced, Said, OnlyLater, NEW q \in Requests, answer[q] \in Named
               PROVE  LET batch == found[q]  rows == due[batch] IN
                      /\ \E n \in DOMAIN rows : until[q] <= rows[n]
                      /\ rows = Planned(req[batch]) => until[q] \in ToSet(rows)
                                                      /\ \A t \in ToSet(rows) : t <= until[q]
                      /\ answer[q] = "scheduled" =>
                           added[q] = {Normal(e) : e \in ToSet(req[q].recipients)} \cap Valid
    BY DEF AnswerIsTrue
  <2> DEFINE b == found[q]
  <2>1. b \in Requests /\ req[b] \in Inputs /\ req[q] \in Inputs
    BY DEF TypeOK
  <2>2. created[b] # Never /\ Count(req[b]) > 0 /\ Count(req[b]) \in Nat
    BY <2>1, ParsedTypes DEF Traced
  <2>3. until[q] = LastScheduledAt(req[b])
    BY DEF Said
  <2> HIDE DEF b
  <2>4. /\ DOMAIN Planned(req[b]) = 1 .. Count(req[b])
        /\ Planned(req[b])[Count(req[b])] = until[q]
        /\ \A t \in ToSet(Planned(req[b])) : t <= until[q]
    BY <2>1, <2>2, <2>3, PlanIsPlan
  <2>5. Count(req[b]) \in 1 .. Count(req[b])
    BY <2>2
  <2>6. DOMAIN due[b] = 1 .. Count(req[b]) /\ until[q] <= due[b][Count(req[b])]
    BY <2>1, <2>2, <2>4, <2>5 DEF OnlyLater
  <2>7. until[q] \in ToSet(Planned(req[b]))
    BY <2>4, <2>5 DEF ToSet
  <2>8. answer[q] = "scheduled" => added[q] = {Normal(e) : e \in ToSet(req[q].recipients)} \cap Valid
    BY <2>1, ParsedTypes DEF Said
  <2> QED
    BY <2>4, <2>5, <2>6, <2>7, <2>8 DEF b
<1>2. Init => Said /\ OnlyLater
  BY DEF Init, Said, OnlyLater, Named
<1> QED
  BY <1>1, <1>2, TracedInit, OrderStep, TracedStep, SaidStep, OnlyLaterStep, BatchTypeCorrect, PTL DEF Spec
============================================================================
