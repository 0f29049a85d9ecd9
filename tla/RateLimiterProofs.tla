------------------------- MODULE RateLimiterProofs -------------------------
(***************************************************************************)
(* The caps of the rate limiter hold, a slot counts in every scope, jobs   *)
(* turned away wait for the next hour and their stagger keeps them apart,  *)
(* for any number of jobs, senders and batches, any caps, any lengths of   *)
(* the hour, of the timeout and of the keys' life that satisfy             *)
(* TimesAssumption, and any number of commands that outlive their caller.  *)
(***************************************************************************)
EXTENDS RateLimiter, FoldLemmas

\* Integer division cuts time into hours: every moment lies in its hour.
LEMMA HourBounds ==
    ASSUME NEW t \in Nat
    PROVE  HourOf(t) \in Nat /\ HourOf(t) * HourLen <= t /\ t < HourOf(t) * HourLen + HourLen
BY TimesAssumption DEF HourOf

\* The hours up to the horizon are the hours of the moments up to it.
LEMMA HourInHours ==
    ASSUME NEW t \in 0 .. Horizon
    PROVE  HourOf(t) \in Hours
BY TimesAssumption, SMTT(60) DEF HourOf, Hours

\* No counter exceeds its cap, and a counter that counts lives past its hour.
KeysOutliveHour ==
    \A sc \in Scopes, h \in Hours :
        /\ count[sc][h] <= Cap[sc]
        /\ count[sc][h] > 0 => h * HourLen + Ttl <= expires[sc][h]

\* A pending check took its bucket in the past.
AskedInPast == \A j \in Jobs : phase[j] = "asked" => since[j] <= now

\* A command that outlived its caller is for an hour that has begun.
LateForBegunHour == \A j \in Jobs, h \in Hours : <<j, h>> \in late => h * HourLen <= now

\* As long as a caller may still be waiting, every slot handed out is counted.
GrantsCounted ==
    \A sc \in Scopes, h \in Hours :
        now < h * HourLen + HourLen + Timeout => grants[sc][h] <= count[sc][h]

\* The inductive invariant.  CapsHold alone is not inductive: that the next
\* grant still fits follows from the counters, and only while their keys live.
CapsInv == /\ TypeOK /\ KeysOutliveHour /\ AskedInPast /\ LateForBegunHour
           /\ GrantsCounted /\ CapsHold

----------------------------------------------------------------------------
(* Types *)

\* RESERVE_SCRIPT keeps the counters and the keys' deadlines natural numbers.
LEMMA ReserveTypes ==
    ASSUME TypeOK, NEW j \in Jobs, NEW h \in Hours, Reserve(j, h)
    PROVE  count' \in [Scopes -> [Hours -> Nat]] /\ expires' \in [Scopes -> [Hours -> Nat]]
<1>1. \A sc \in Scopes : Value(sc, h) \in Nat
  BY DEF TypeOK, Value
<1>2. now + Ttl \in Nat
  BY TimesAssumption DEF TypeOK
<1> QED
  BY <1>1, <1>2 DEF TypeOK, Reserve

\* Every step of the limiter and of the deferral keeps the types.
LEMMA LimiterTypeStep == TypeOK /\ [Next]_vars => TypeOK'
<1> SUFFICES ASSUME TypeOK, [Next]_vars PROVE TypeOK'
  OBVIOUS
<1>1. CASE UNCHANGED vars
  BY <1>1 DEF TypeOK, vars, limits
<1>2. CASE Tick
  BY <1>2, TimesAssumption DEF TypeOK, Tick, limits
<1>3. ASSUME NEW j \in Jobs, Ask(j) \/ StartDefer(j)
      PROVE  TypeOK'
  BY <1>3 DEF TypeOK, Ask, StartDefer, Moves, limits
<1>4. ASSUME NEW j \in Jobs, Finish(j)
      PROVE  TypeOK'
  BY <1>4, TimesAssumption DEF TypeOK, Finish, Moves, limits
<1>5. ASSUME NEW j \in Jobs, SendFails(j)
      PROVE  TypeOK'
  BY <1>5, TimesAssumption DEF TypeOK, SendFails, Fails, limits
<1>6. ASSUME NEW j \in Jobs, DeferShort(j)
      PROVE  TypeOK'
  <2>1. now + RetryDelay \in Nat
    BY TimesAssumption DEF TypeOK
  <2> QED
    BY <1>6, <2>1, TimesAssumption DEF TypeOK, DeferShort, Moves, limits
<1>7. ASSUME NEW j \in Jobs, BecomeDue(j)
      PROVE  TypeOK'
  BY <1>7, TimesAssumption DEF TypeOK, BecomeDue, Moves, limits
<1>8. ASSUME NEW j \in Jobs, Defer(j)
      PROVE  TypeOK'
  <2> DEFINE b == BatchOf[j]
             h == HourOf(since[j])
             index == resched[b][h] + 1
  <2>1. b \in Batches /\ h \in Hours
    BY JobsAssumption, HourInHours DEF TypeOK
  <2>2. index \in Nat \ {0}
    BY <2>1 DEF TypeOK
  <2>3. NextHour(since[j]) + (index - 1) * BatchDelay \in Nat
    <3>1. NextHour(since[j]) \in Nat
      BY HourBounds, TimesAssumption DEF TypeOK, NextHour
    <3>2. (index - 1) * BatchDelay \in Nat
      BY <2>2, TimesAssumption
    <3> QED
      BY <3>1, <3>2
  <2>4. resched' = [resched EXCEPT ![b][h] = index]
    BY <1>8 DEF Defer
  <2>5. resched' \in [Batches -> [Hours -> Nat]]
    BY <2>1, <2>2, <2>4 DEF TypeOK
  <2>6. sched' = [sched EXCEPT ![j] = NextHour(since[j]) + (index - 1) * BatchDelay]
    BY <1>8 DEF Defer
  <2>7. sched' \in [Jobs -> Nat]
    BY <2>3, <2>6 DEF TypeOK
  <2>8. turnedIn' \in [Jobs -> Hours \cup {-1}]
    BY <1>8, <2>1 DEF TypeOK, Defer
  <2> QED
    BY <1>8, <2>5, <2>7, <2>8, TimesAssumption DEF TypeOK, Defer, Moves, limits
<1>9. ASSUME NEW j \in Jobs, DeferFails(j)
      PROVE  TypeOK'
  <2> DEFINE b == BatchOf[j]
             h == HourOf(since[j])
  <2>1. b \in Batches /\ h \in Hours
    BY JobsAssumption, HourInHours DEF TypeOK
  <2>2. resched' \in [Batches -> [Hours -> Nat]]
    <3>1. resched' = resched \/ resched' = [resched EXCEPT ![b][h] = resched[b][h] + 1]
      BY <1>9 DEF DeferFails
    <3>2. resched[b][h] + 1 \in Nat
      BY <2>1 DEF TypeOK
    <3> HIDE DEF b, h
    <3> QED
      BY <2>1, <3>1, <3>2 DEF TypeOK
  <2>3. blockedIn' \in [Jobs -> Hours \cup {-1}]
    BY <1>9 DEF TypeOK, DeferFails
  <2> QED
    BY <1>9, <2>2, <2>3, TimesAssumption DEF TypeOK, DeferFails, Fails, limits
<1>10. ASSUME NEW j \in Jobs, Block(j)
       PROVE  TypeOK'
  <2>1. HourOf(since[j]) \in Hours
    BY HourInHours DEF TypeOK
  <2> QED
    BY <1>10, <2>1, TimesAssumption DEF TypeOK, Block, Moves, limits
<1>11. ASSUME NEW j \in Jobs, Grant(j)
       PROVE  TypeOK'
  <2> DEFINE h == HourOf(since[j])
  <2>1. h \in Hours
    BY HourInHours DEF TypeOK
  <2>2. /\ count' \in [Scopes -> [Hours -> Nat]]
        /\ expires' \in [Scopes -> [Hours -> Nat]]
    BY <1>11, <2>1, ReserveTypes DEF Grant
  <2>3. grants' \in [Scopes -> [Hours -> Nat]]
    BY <1>11, <2>1 DEF TypeOK, Grant
  <2> QED
    BY <1>11, <2>2, <2>3, TimesAssumption DEF TypeOK, Grant, Moves
<1>12. ASSUME NEW j \in Jobs, FailClosed(j)
       PROVE  TypeOK'
  <2>1. HourOf(since[j]) \in Hours
    BY HourInHours DEF TypeOK
  <2>2. late' \subseteq Jobs \X Hours
    BY <1>12, <2>1 DEF TypeOK, FailClosed
  <2> QED
    BY <1>12, <2>2, TimesAssumption DEF TypeOK, FailClosed, Moves
<1>13. ASSUME NEW j \in Jobs, NEW h \in Hours, LateEval(j, h)
       PROVE  TypeOK'
  <2>1. /\ count' \in [Scopes -> [Hours -> Nat]]
        /\ expires' \in [Scopes -> [Hours -> Nat]]
    BY <1>13, ReserveTypes DEF TypeOK, LateEval
  <2> QED
    BY <1>13, <2>1 DEF TypeOK, LateEval
<1> QED
  BY <1>1, <1>2, <1>3, <1>4, <1>5, <1>6, <1>7, <1>8, <1>9, <1>10, <1>11, <1>12, <1>13 DEF Next

\* Every state of the limiter has the types of its variables.
THEOREM LimiterTypeCorrect == Spec => []TypeOK
<1>1. Init => TypeOK
  BY TimesAssumption, HourInHours DEF Init, TypeOK, Hours
<1> QED
  BY <1>1, LimiterTypeStep, PTL DEF Spec

----------------------------------------------------------------------------
(* The caps *)

\* While a caller may be waiting for a slot of an hour, the counters of that
\* hour are still there to be read.
LEMMA KeyAlive ==
    ASSUME TypeOK, KeysOutliveHour, NEW sc \in Scopes, NEW h \in Hours,
           now < h * HourLen + HourLen + Timeout
    PROVE  Value(sc, h) = count[sc][h]
<1>1. h * HourLen \in Nat
  BY TimesAssumption DEF Hours
<1>2. /\ now \in Nat /\ count[sc][h] \in Nat /\ expires[sc][h] \in Nat
      /\ HourLen \in Nat /\ Timeout \in Nat /\ Ttl \in Nat /\ HourLen + Timeout <= Ttl
  BY TimesAssumption DEF TypeOK
<1>3. CASE count[sc][h] > 0
  <2>1. h * HourLen + Ttl <= expires[sc][h]
    BY <1>3 DEF KeysOutliveHour
  <2> QED
    BY <1>1, <1>2, <2>1 DEF Value
<1>4. CASE count[sc][h] = 0
  BY <1>4 DEF Value
<1> QED
  BY <1>2, <1>3, <1>4

\* A reservation for an hour that has begun raises only counters that have
\* room, and sets a deadline after the hour.
LEMMA ReserveKeepsKeys ==
    ASSUME TypeOK, KeysOutliveHour, NEW j \in Jobs, NEW h \in Hours,
           h * HourLen <= now, HasRoom(j, h), Reserve(j, h)
    PROVE  KeysOutliveHour'
<1> SUFFICES ASSUME NEW sc \in Scopes, NEW i \in Hours
             PROVE  /\ count'[sc][i] <= Cap[sc]
                    /\ count'[sc][i] > 0 => i * HourLen + Ttl <= expires'[sc][i]
  BY DEF KeysOutliveHour
<1>1. CASE sc \in ScopesOf(j) /\ i = h
  <2>1. count'[sc][i] = Value(sc, h) + 1 /\ expires'[sc][i] = now + Ttl
    BY <1>1 DEF Reserve
  <2>2. Value(sc, h) + 1 <= Cap[sc]
    BY <1>1 DEF HasRoom
  <2>3. h * HourLen \in Nat /\ now \in Nat /\ Ttl \in Nat
    BY TimesAssumption DEF Hours, TypeOK
  <2> QED
    BY <1>1, <2>1, <2>2, <2>3
<1>2. CASE ~(sc \in ScopesOf(j) /\ i = h)
  <2>1. count'[sc][i] = count[sc][i] /\ expires'[sc][i] = expires[sc][i]
    BY <1>2 DEF Reserve
  <2> QED
    BY <2>1 DEF KeysOutliveHour
<1> QED
  BY <1>1, <1>2

\* A reservation never lowers a counter that a waiting caller's slot counts on.
LEMMA ReserveRaises ==
    ASSUME TypeOK, KeysOutliveHour, NEW j \in Jobs, NEW h \in Hours, Reserve(j, h),
           NEW sc \in Scopes, NEW i \in Hours, now < i * HourLen + HourLen + Timeout
    PROVE  count'[sc][i] = IF sc \in ScopesOf(j) /\ i = h THEN count[sc][i] + 1
                                                         ELSE count[sc][i]
BY KeyAlive DEF Reserve

\* A step that moves neither the counters, nor the abandoned commands, nor the
\* clock keeps the invariant when no check becomes pending by it.
LEMMA QuietStep ==
    ASSUME CapsInv, UNCHANGED <<now, limits>>,
           \A j \in Jobs : phase'[j] = "asked" => since'[j] <= now
    PROVE  (KeysOutliveHour /\ AskedInPast /\ LateForBegunHour /\ GrantsCounted /\ CapsHold)'
BY DEF CapsInv, KeysOutliveHour, AskedInPast, LateForBegunHour, GrantsCounted, CapsHold,
       limits

\* Every step keeps the invariant: a slot is handed out only by a script that
\* ran before its caller gave up, when the counters of its hour still lived.
LEMMA LimiterStep == CapsInv /\ [Next]_vars => CapsInv'
<1> SUFFICES ASSUME CapsInv, [Next]_vars PROVE CapsInv'
  OBVIOUS
<1> USE DEF CapsInv
<1>0. TypeOK'
  BY LimiterTypeStep
<1>1. CASE UNCHANGED vars
  <2>1. \A j \in Jobs : phase'[j] = "asked" => since'[j] <= now
    BY <1>1 DEF vars, AskedInPast
  <2> QED
    BY <1>0, <1>1, <2>1, QuietStep DEF vars
<1>2. CASE Tick
  <2>1. now \in Nat /\ now' = now + 1 /\ UNCHANGED <<phase, since, limits>>
    BY <1>2, TimesAssumption DEF Tick, TypeOK
  <2>2. AskedInPast'
    BY <2>1, TimesAssumption DEF AskedInPast, TypeOK
  <2>3. LateForBegunHour'
    <3> SUFFICES ASSUME NEW j \in Jobs, NEW h \in Hours, <<j, h>> \in late
                 PROVE  h * HourLen <= now + 1
      BY <2>1 DEF LateForBegunHour, limits
    <3>1. h * HourLen \in Nat /\ h * HourLen <= now
      BY TimesAssumption DEF LateForBegunHour, Hours
    <3> QED
      BY <2>1, <3>1
  <2>4. GrantsCounted'
    <3> SUFFICES ASSUME NEW sc \in Scopes, NEW h \in Hours,
                        now + 1 < h * HourLen + HourLen + Timeout
                 PROVE  grants[sc][h] <= count[sc][h]
      BY <2>1 DEF GrantsCounted, limits
    <3>1. h * HourLen \in Nat /\ HourLen \in Nat /\ Timeout \in Nat
      BY TimesAssumption DEF Hours
    <3> QED
      BY <2>1, <3>1 DEF GrantsCounted
  <2> QED
    BY <1>0, <2>1, <2>2, <2>3, <2>4 DEF KeysOutliveHour, CapsHold, limits
<1>3. ASSUME NEW k \in Jobs,
             \/ Finish(k) \/ SendFails(k) \/ Block(k) \/ Defer(k) \/ DeferFails(k)
             \/ DeferShort(k) \/ BecomeDue(k) \/ StartDefer(k) \/ Ask(k)
      PROVE  CapsInv'
  <2>1. UNCHANGED <<now, limits>>
    BY <1>3 DEF Finish, SendFails, Block, Defer, DeferFails, DeferShort, BecomeDue,
                StartDefer, Ask, limits
  <2>2. CASE Ask(k)
    <3>1. \A j \in Jobs : phase'[j] = "asked" => since'[j] <= now
      BY <2>2, TimesAssumption DEF Ask, Moves, AskedInPast, TypeOK
    <3> QED
      BY <1>0, <2>1, <3>1, QuietStep
  <2>3. CASE ~Ask(k)
    <3>1. phase'[k] # "asked" /\ \A j \in Jobs \ {k} : phase'[j] = phase[j] /\ since'[j] = since[j]
      BY <1>3, <2>3 DEF Finish, SendFails, Block, Defer, DeferFails, DeferShort, BecomeDue,
                        StartDefer, Moves, Fails, TypeOK
    <3>2. \A j \in Jobs : phase'[j] = "asked" => since'[j] <= now
      BY <3>1 DEF AskedInPast
    <3> QED
      BY <1>0, <2>1, <3>2, QuietStep
  <2> QED
    BY <2>2, <2>3
<1>4. ASSUME NEW k \in Jobs, Grant(k)
      PROVE  CapsInv'
  <2> DEFINE b == HourOf(since[k])
  <2>1. b \in Hours
    BY HourInHours DEF TypeOK
  <2>2. b * HourLen <= since[k] /\ since[k] < b * HourLen + HourLen /\ b \in Nat
    BY HourBounds, TimesAssumption DEF TypeOK
  <2>3. /\ since[k] <= now /\ now <= since[k] + Timeout
        /\ now \in Nat /\ since[k] \in Nat /\ Timeout \in Nat /\ HourLen \in Nat
    BY <1>4, TimesAssumption DEF Grant, Moves, AskedInPast, TypeOK
  <2>4. b * HourLen \in Nat
    BY <2>2, <2>3
  <2>5. b * HourLen <= now /\ now < b * HourLen + HourLen + Timeout
    BY <2>2, <2>3, <2>4
  <2>6. /\ HasRoom(k, b) /\ Reserve(k, b)
        /\ grants' = [sc \in Scopes |-> [h \in Hours |->
                         IF sc \in ScopesOf(k) /\ h = b THEN grants[sc][h] + 1
                                                        ELSE grants[sc][h]]]
        /\ now' = now /\ late' = late
    BY <1>4 DEF Grant
  <2> HIDE DEF b
  <2>7. KeysOutliveHour'
    BY <2>1, <2>5, <2>6, ReserveKeepsKeys
  <2>8. AskedInPast'
    BY <1>4 DEF Grant, Moves, AskedInPast, TypeOK
  <2>9. LateForBegunHour'
    BY <2>6 DEF LateForBegunHour
  <2>10. GrantsCounted'
    <3> SUFFICES ASSUME NEW sc \in Scopes, NEW i \in Hours,
                        now < i * HourLen + HourLen + Timeout
                 PROVE  grants'[sc][i] <= count'[sc][i]
      BY <2>6 DEF GrantsCounted
    <3>1. count'[sc][i] = IF sc \in ScopesOf(k) /\ i = b THEN count[sc][i] + 1 ELSE count[sc][i]
      BY <2>1, <2>6, ReserveRaises
    <3>2. grants[sc][i] <= count[sc][i] /\ grants[sc][i] \in Nat /\ count[sc][i] \in Nat
      BY DEF GrantsCounted, TypeOK
    <3> QED
      BY <2>6, <3>1, <3>2
  <2>11. CapsHold'
    <3> SUFFICES ASSUME NEW sc \in Scopes, NEW i \in Hours
                 PROVE  grants'[sc][i] <= Cap[sc]
      BY DEF CapsHold
    <3>1. CASE i = b
      <4>1. grants'[sc][i] <= count'[sc][i]
        BY <2>5, <2>6, <2>10, <3>1 DEF GrantsCounted
      <4>2. count'[sc][i] <= Cap[sc]
        BY <2>7 DEF KeysOutliveHour
      <4>3. grants'[sc][i] \in Nat /\ count'[sc][i] \in Nat /\ Cap[sc] \in Nat
        BY <1>0, JobsAssumption DEF TypeOK
      <4> QED
        BY <4>1, <4>2, <4>3
    <3>2. CASE i # b
      BY <2>6, <3>2 DEF CapsHold
    <3> QED
      BY <3>1, <3>2
  <2> QED
    BY <1>0, <2>7, <2>8, <2>9, <2>10, <2>11
<1>5. ASSUME NEW k \in Jobs, FailClosed(k)
      PROVE  CapsInv'
  <2>1. UNCHANGED <<now, count, expires, grants>>
    BY <1>5 DEF FailClosed
  <2>2. KeysOutliveHour' /\ GrantsCounted' /\ CapsHold'
    BY <2>1 DEF KeysOutliveHour, GrantsCounted, CapsHold
  <2>3. AskedInPast'
    BY <1>5 DEF FailClosed, Moves, AskedInPast, TypeOK
  <2>4. LateForBegunHour'
    <3>1. HourOf(since[k]) * HourLen <= since[k] /\ HourOf(since[k]) \in Nat
      BY HourBounds, TimesAssumption DEF TypeOK
    <3>2. since[k] <= now /\ since[k] \in Nat /\ now \in Nat
      BY <1>5, TimesAssumption DEF FailClosed, Moves, AskedInPast, TypeOK
    <3>3. HourOf(since[k]) * HourLen <= now
      BY <3>1, <3>2, TimesAssumption
    <3>4. late' \subseteq late \cup {<<k, HourOf(since[k])>>}
      BY <1>5 DEF FailClosed
    <3> QED
      BY <2>1, <3>3, <3>4 DEF LateForBegunHour
  <2> QED
    BY <1>0, <2>2, <2>3, <2>4
<1>6. ASSUME NEW k \in Jobs, NEW b \in Hours, LateEval(k, b)
      PROVE  CapsInv'
  <2>1. /\ UNCHANGED <<now, phase, since, grants>> /\ late' \subseteq late
        /\ b * HourLen <= now
    BY <1>6 DEF LateEval, LateForBegunHour
  <2>2. AskedInPast' /\ LateForBegunHour' /\ CapsHold'
    BY <2>1 DEF AskedInPast, LateForBegunHour, CapsHold
  <2>3. CASE HasRoom(k, b)
    <3>1. Reserve(k, b)
      BY <1>6, <2>3 DEF LateEval
    <3>2. KeysOutliveHour'
      BY <2>1, <2>3, <3>1, ReserveKeepsKeys
    <3>3. GrantsCounted'
      <4> SUFFICES ASSUME NEW sc \in Scopes, NEW i \in Hours,
                          now < i * HourLen + HourLen + Timeout
                   PROVE  grants[sc][i] <= count'[sc][i]
        BY <2>1 DEF GrantsCounted
      <4>1. count'[sc][i] = IF sc \in ScopesOf(k) /\ i = b THEN count[sc][i] + 1 ELSE count[sc][i]
        BY <3>1, ReserveRaises
      <4>2. grants[sc][i] <= count[sc][i] /\ grants[sc][i] \in Nat /\ count[sc][i] \in Nat
        BY DEF GrantsCounted, TypeOK
      <4> QED
        BY <4>1, <4>2
    <3> QED
      BY <1>0, <2>2, <3>2, <3>3
  <2>4. CASE ~HasRoom(k, b)
    BY <1>0, <1>6, <2>1, <2>2, <2>4 DEF LateEval, KeysOutliveHour, GrantsCounted
  <2> QED
    BY <2>3, <2>4
<1> QED
  BY <1>1, <1>2, <1>3, <1>4, <1>5, <1>6 DEF Next

\* The invariant holds of fresh counters.
LEMMA CapsInit == Init => CapsInv
<1> SUFFICES ASSUME Init PROVE CapsInv
  OBVIOUS
<1>1. TypeOK
  BY TimesAssumption DEF Init, TypeOK, Hours
<1>2. \A sc \in Scopes : Cap[sc] \in Nat
  BY JobsAssumption
<1>3. KeysOutliveHour /\ CapsHold /\ GrantsCounted
  BY <1>2 DEF Init, KeysOutliveHour, CapsHold, GrantsCounted
<1>4. AskedInPast /\ LateForBegunHour
  BY DEF Init, AskedInPast, LateForBegunHour
<1> QED
  BY <1>1, <1>3, <1>4 DEF CapsInv

\* No hour hands out more slots than its global, its sender's or its batch's
\* cap, for all jobs, caps and clocks: the limiter never blows through a cap,
\* whatever times out and however late abandoned scripts run.
THEOREM CapsAreKept == Spec => []CapsHold
<1>1. Init => CapsInv
  BY CapsInit
<1>2. CapsInv => CapsHold
  BY DEF CapsInv
<1> QED
  BY <1>1, <1>2, LimiterStep, PTL DEF Spec

----------------------------------------------------------------------------
(* Cap deferrals *)

\* What BlockedOncePerHour rests on: a job that may ask is past the hour that
\* turned it away, and a job put off for it sleeps to the next hour at least.
PastBlockedHour ==
    \A j \in Jobs :
        /\ phase[j] \in {"due", "asked", "granted", "unavailable"}
              => (blockedIn[j] + 1) * HourLen <= now
        /\ phase[j] = "capped" => blockedIn[j] * HourLen <= now
        /\ phase[j] = "deferring" => blockedIn[j] * HourLen <= since[j]
        /\ phase[j] = "delayed"
              => \/ (blockedIn[j] + 1) * HourLen <= now
                 \/ (blockedIn[j] + 1) * HourLen <= sched[j]

\* A later hour starts no earlier; the hour that starts by t is at most t's.
LEMMA HourOrder ==
    ASSUME NEW t \in Nat, NEW b \in Nat \cup {-1}
    PROVE  /\ b * HourLen <= t => b <= HourOf(t)
           /\ b <= HourOf(t) => b * HourLen <= t
<1>1. /\ HourOf(t) \in Nat /\ HourLen \in Nat \ {0}
      /\ HourOf(t) * HourLen <= t /\ t < (HourOf(t) + 1) * HourLen
  <2>1. (HourOf(t) + 1) * HourLen = HourOf(t) * HourLen + HourLen
    BY HourBounds, TimesAssumption
  <2> QED
    BY <2>1, HourBounds, TimesAssumption
<1>2. \A n \in Nat, m \in Nat \cup {-1}, d \in Nat \ {0} : m <= n => m * d <= n * d
  OBVIOUS
<1> HIDE DEF HourOf
<1>3. CASE b <= HourOf(t)
  <2>1. b * HourLen <= HourOf(t) * HourLen
    BY <1>1, <1>2, <1>3
  <2> QED
    BY <1>1, <1>3, <2>1
<1>4. CASE HourOf(t) + 1 <= b
  <2>1. (HourOf(t) + 1) * HourLen <= b * HourLen
    BY <1>1, <1>2, <1>4
  <2> QED
    BY <1>1, <1>4, <2>1
<1> QED
  BY <1>1, <1>3, <1>4

\* Every step keeps jobs past the hours that turned them away.
LEMMA BlockedStep == CapsInv /\ PastBlockedHour /\ [Next]_vars => PastBlockedHour'
<1> SUFFICES ASSUME TypeOK, AskedInPast, PastBlockedHour, [Next]_vars PROVE PastBlockedHour'
  BY DEF CapsInv
<1>0. /\ now \in Nat /\ HourLen \in Nat \ {0}
      /\ \A j \in Jobs : /\ since[j] \in Nat /\ sched[j] \in Nat
                         /\ blockedIn[j] \in Nat \cup {-1}
                         /\ blockedIn[j] * HourLen \in Int
                         /\ (blockedIn[j] + 1) * HourLen = blockedIn[j] * HourLen + HourLen
  BY TimesAssumption DEF TypeOK, Hours
<1>1. CASE UNCHANGED vars
  BY <1>1 DEF vars, PastBlockedHour
<1>2. CASE Tick
  BY <1>0, <1>2 DEF Tick, PastBlockedHour
<1>3. ASSUME NEW j \in Jobs, NEW h \in Hours, LateEval(j, h)
      PROVE  PastBlockedHour'
  BY <1>3 DEF LateEval, PastBlockedHour
<1>4. ASSUME NEW k \in Jobs, Ask(k) \/ Grant(k) \/ FailClosed(k) \/ Finish(k) \/ SendFails(k)
      PROVE  PastBlockedHour'
  BY <1>0, <1>4 DEF Ask, Grant, FailClosed, Finish, SendFails, Moves, Fails, PastBlockedHour,
                    TypeOK, limits
<1>5. ASSUME NEW k \in Jobs, Block(k)
      PROVE  PastBlockedHour'
  <2> DEFINE b == HourOf(since[k])
  <2>1. b * HourLen <= since[k] /\ b \in Nat
    BY <1>0, HourBounds
  <2>2. since[k] <= now
    BY <1>5 DEF Block, Moves, AskedInPast
  <2>3. b * HourLen <= now
    BY <1>0, <2>1, <2>2
  <2>4. /\ now' = now /\ sched' = sched /\ blockedIn' = [blockedIn EXCEPT ![k] = b]
        /\ phase' = [phase EXCEPT ![k] = "capped"] /\ since' = [since EXCEPT ![k] = 0]
    BY <1>5 DEF Block, Moves
  <2> HIDE DEF b
  <2> QED
    BY <2>3, <2>4 DEF PastBlockedHour, TypeOK
<1>6. ASSUME NEW k \in Jobs, StartDefer(k)
      PROVE  PastBlockedHour'
  BY <1>0, <1>6 DEF StartDefer, Moves, PastBlockedHour, TypeOK
<1>7. ASSUME NEW k \in Jobs, DeferFails(k)
      PROVE  PastBlockedHour'
  BY <1>0, <1>7 DEF DeferFails, Fails, PastBlockedHour, TypeOK
<1>8. ASSUME NEW k \in Jobs, DeferShort(k)
      PROVE  PastBlockedHour'
  BY <1>0, <1>8 DEF DeferShort, Moves, PastBlockedHour, TypeOK
<1>9. ASSUME NEW k \in Jobs, BecomeDue(k)
      PROVE  PastBlockedHour'
  <2>1. /\ phase[k] = "delayed" /\ now >= sched[k]
        /\ now' = now /\ blockedIn' = blockedIn
        /\ phase' = [phase EXCEPT ![k] = "due"] /\ since' = [since EXCEPT ![k] = 0]
        /\ sched' = [sched EXCEPT ![k] = 0]
    BY <1>9 DEF BecomeDue, Moves
  <2>2. (blockedIn[k] + 1) * HourLen <= now
    BY <1>0, <2>1 DEF PastBlockedHour
  <2> QED
    BY <2>1, <2>2 DEF PastBlockedHour, TypeOK
<1>10. ASSUME NEW k \in Jobs, Defer(k)
       PROVE  PastBlockedHour'
  <2> DEFINE b     == BatchOf[k]
             h     == HourOf(since[k])
             index == resched[b][h] + 1
             until == NextHour(since[k]) + (index - 1) * BatchDelay
  <2>0. sched' = [sched EXCEPT ![k] = until]
    BY <1>10 DEF Defer
  <2>1. /\ phase[k] = "deferring" /\ now' = now /\ blockedIn' = blockedIn
        /\ phase' = [phase EXCEPT ![k] = "delayed"] /\ since' = [since EXCEPT ![k] = 0]
    BY <1>10 DEF Defer, Moves
  <2>2. until \in Nat /\ NextHour(since[k]) \in Nat /\ until >= NextHour(since[k])
    <3>1. b \in Batches /\ h \in Hours
      BY JobsAssumption, HourInHours DEF TypeOK
    <3>2. resched[b][h] \in Nat
      BY <3>1 DEF TypeOK
    <3>3. NextHour(since[k]) \in Nat
      BY <1>0, HourBounds DEF NextHour
    <3>4. (index - 1) * BatchDelay \in Nat
      BY <3>2, TimesAssumption
    <3> QED
      BY <3>3, <3>4
  <2>3. (blockedIn[k] + 1) * HourLen <= NextHour(since[k])
    <3>1. blockedIn[k] * HourLen <= since[k]
      BY <2>1 DEF PastBlockedHour
    <3>2. blockedIn[k] <= h
      BY <1>0, <3>1, HourOrder
    <3>3. NextHour(since[k]) = (h + 1) * HourLen /\ h \in Nat
      BY <1>0, HourBounds DEF NextHour
    <3> HIDE DEF h
    <3>4. \A n \in Nat, m \in Nat, d \in Nat \ {0} : m <= n => m * d <= n * d
      OBVIOUS
    <3>5. blockedIn[k] + 1 <= h + 1 /\ blockedIn[k] + 1 \in Nat /\ h + 1 \in Nat
      BY <1>0, <3>2, <3>3
    <3> QED
      BY <1>0, <3>3, <3>4, <3>5
  <2> HIDE DEF until
  <2>4. (blockedIn[k] + 1) * HourLen <= until
    <3>1. (blockedIn[k] + 1) * HourLen \in Int
      BY <1>0
    <3> QED
      BY <2>2, <2>3, <3>1
  <2> QED
    BY <2>0, <2>1, <2>4 DEF PastBlockedHour, TypeOK
<1> QED
  BY <1>1, <1>2, <1>3, <1>4, <1>5, <1>6, <1>7, <1>8, <1>9, <1>10 DEF Next

\* A job that a cap turned away asks again only in a later hour, for all
\* constants, although the clock may pass any number of hours between the
\* check, the deferral and the retry.
THEOREM BlockedJobsWait == Spec => BlockedOncePerHour
<1>1. Init => CapsInv /\ PastBlockedHour
  BY CapsInit, TimesAssumption DEF Init, PastBlockedHour
<1>2. CapsInv /\ PastBlockedHour /\ [Next]_vars => CapsInv' /\ PastBlockedHour'
  BY LimiterStep, BlockedStep
<1>3. TypeOK /\ PastBlockedHour
        => \A j \in Jobs : phase[j] = "due" /\ phase'[j] = "asked" => blockedIn[j] < HourOf(now)
  <2> SUFFICES ASSUME TypeOK, PastBlockedHour, NEW j \in Jobs, phase[j] = "due"
               PROVE  blockedIn[j] < HourOf(now)
    OBVIOUS
  <2>1. (blockedIn[j] + 1) * HourLen <= now
    BY DEF PastBlockedHour
  <2>2. now \in Nat /\ blockedIn[j] + 1 \in Nat /\ blockedIn[j] \in Int
    BY TimesAssumption DEF TypeOK, Hours
  <2>3. blockedIn[j] + 1 <= HourOf(now) /\ HourOf(now) \in Nat
    BY <2>1, <2>2, HourOrder, HourBounds
  <2> QED
    BY <2>2, <2>3
<1>4. CapsInv => TypeOK
  BY DEF CapsInv
<1> QED
  BY <1>1, <1>2, <1>3, <1>4, PTL DEF Spec, BlockedOncePerHour

----------------------------------------------------------------------------
(* The stagger of deferred jobs *)

\* The place in the stagger after n jobs of a batch turned away in hour h.
Place(n, h) == (h + 1) * HourLen + n * BatchDelay

\* Only a job that waits has a place, and each place lies before the next one.
InLine ==
    /\ \A j \in Jobs : phase[j] # "delayed" => turnedIn[j] = -1
    /\ \A j \in Jobs : turnedIn[j] # -1 =>
          sched[j] + BatchDelay <= Place(resched[BatchOf[j]][turnedIn[j]], turnedIn[j])

LEMMA PlacesApart ==
    ASSUME NEW n \in Nat, NEW h \in Hours
    PROVE  Place(n, h) \in Nat /\ Place(n + 1, h) = Place(n, h) + BatchDelay
<1>1. (n + 1) * BatchDelay = n * BatchDelay + BatchDelay /\ n * BatchDelay \in Nat
  BY TimesAssumption
<1>2. (h + 1) * HourLen \in Nat
  BY TimesAssumption DEF Hours
<1> QED
  BY <1>1, <1>2, TimesAssumption DEF Place

LEMMA PlaceTypes ==
    ASSUME TypeOK
    PROVE  /\ BatchDelay \in Nat /\ -1 \notin Hours
           /\ \A j \in Jobs : /\ sched[j] \in Nat /\ turnedIn[j] \in Hours \cup {-1}
                              /\ BatchOf[j] \in Batches /\ HourOf(since[j]) \in Hours
           /\ \A b \in Batches, h \in Hours : resched[b][h] \in Nat
<1>1. BatchDelay \in Nat /\ -1 \notin Hours
  BY TimesAssumption DEF Hours
<1>2. \A j \in Jobs : /\ sched[j] \in Nat /\ turnedIn[j] \in Hours \cup {-1}
                      /\ BatchOf[j] \in Batches /\ since[j] \in 0 .. Horizon
  BY JobsAssumption DEF TypeOK
<1>3. \A b \in Batches, h \in Hours : resched[b][h] \in Nat
  BY DEF TypeOK
<1> QED
  BY <1>1, <1>2, <1>3, HourInHours

\* A step that gives nobody a place keeps the line, if no counter goes back.
LEMMA LineStays ==
    ASSUME TypeOK, InLine, StaggerSpaced,
           \A j \in Jobs : phase'[j] # "delayed" => turnedIn'[j] = -1,
           \A j \in Jobs : turnedIn'[j] # -1 =>
               turnedIn'[j] = turnedIn[j] /\ sched'[j] = sched[j] /\ phase[j] = "delayed",
           \A b \in Batches, h \in Hours : resched'[b][h] \in {resched[b][h], resched[b][h] + 1}
    PROVE  InLine' /\ StaggerSpaced'
<1>1. ASSUME NEW j \in Jobs, turnedIn'[j] # -1
      PROVE  sched'[j] + BatchDelay <= Place(resched'[BatchOf[j]][turnedIn'[j]], turnedIn'[j])
  <2> DEFINE b == BatchOf[j]
             h == turnedIn[j]
             n == resched[b][h]
  <2>1. b \in Batches /\ h \in Hours /\ n \in Nat /\ sched[j] \in Nat /\ BatchDelay \in Nat
    BY <1>1, PlaceTypes
  <2>2. resched'[b][h] \in {n, n + 1} /\ sched[j] + BatchDelay <= Place(n, h)
    BY <1>1, <2>1 DEF InLine
  <2> HIDE DEF b, h, n
  <2>3. Place(n, h) \in Nat /\ Place(n + 1, h) = Place(n, h) + BatchDelay
    BY <2>1, PlacesApart
  <2>4. sched[j] + BatchDelay <= Place(resched'[b][h], h)
    BY <2>1, <2>2, <2>3
  <2> QED
    BY <1>1, <2>4 DEF b, h
<1>2. StaggerSpaced'
  BY DEF StaggerSpaced
<1> QED
  BY <1>1, <1>2 DEF InLine

\* A deferral takes the next place, after everybody who waits in the line.
LEMMA DeferTakesNext ==
    ASSUME TypeOK, InLine, StaggerSpaced, NEW j \in Jobs, Defer(j)
    PROVE  InLine' /\ StaggerSpaced'
<1> DEFINE b == BatchOf[j]
           h == HourOf(since[j])
           n == resched[b][h]
<1>1. b \in Batches /\ h \in Hours /\ n \in Nat /\ BatchDelay \in Nat /\ h # -1
  BY PlaceTypes
<1>2. Place(n, h) \in Nat /\ Place(n + 1, h) = Place(n, h) + BatchDelay
  BY <1>1, PlacesApart
<1>3. /\ sched' = [sched EXCEPT ![j] = NextHour(since[j]) + ((n + 1) - 1) * BatchDelay]
      /\ phase' = [phase EXCEPT ![j] = "delayed"] /\ turnedIn' = [turnedIn EXCEPT ![j] = h]
      /\ resched' = [resched EXCEPT ![b][h] = n + 1]
  <2>1. sched' = [sched EXCEPT ![j] = NextHour(since[j]) + ((n + 1) - 1) * BatchDelay]
    BY DEF Defer
  <2>2. phase' = [phase EXCEPT ![j] = "delayed"] /\ turnedIn' = [turnedIn EXCEPT ![j] = h]
    BY DEF Defer, Moves
  <2>3. resched' = [resched EXCEPT ![b][h] = n + 1]
    BY Zenon DEF Defer
  <2> QED
    BY <2>1, <2>2, <2>3
<1>4. sched'[j] = Place(n, h)
  <2>1. (n + 1) - 1 = n
    BY <1>1
  <2> QED
    BY <1>3, <2>1 DEF Place, NextHour, TypeOK
<1>5. phase'[j] = "delayed" /\ turnedIn'[j] = h
  BY <1>3 DEF TypeOK
<1>6. \A k \in Jobs \ {j} : /\ sched'[k] = sched[k] /\ phase'[k] = phase[k]
                            /\ turnedIn'[k] = turnedIn[k]
  BY <1>3 DEF TypeOK
<1>7. /\ resched'[b][h] = n + 1
      /\ \A c \in Batches, i \in Hours : c # b \/ i # h => resched'[c][i] = resched[c][i]
  BY <1>1, <1>3 DEF TypeOK
<1> HIDE DEF h, n
\* Whoever waits in this line is a place before the newcomer.
<1>8. ASSUME NEW k \in Jobs, k # j, BatchOf[k] = b, turnedIn[k] = h
      PROVE  sched[k] + BatchDelay <= Place(n, h)
  BY <1>1, <1>8 DEF InLine, b, h, n
<1>9. InLine'
  <2>1. ASSUME NEW k \in Jobs, turnedIn'[k] # -1
        PROVE  sched'[k] + BatchDelay <= Place(resched'[BatchOf[k]][turnedIn'[k]], turnedIn'[k])
    <3>1. CASE k = j
      BY <1>1, <1>2, <1>4, <1>5, <1>7, <3>1
    <3>2. CASE k # j /\ BatchOf[k] = b /\ turnedIn[k] = h
      <4>1. sched'[k] = sched[k] /\ sched[k] \in Nat /\ sched[k] + BatchDelay <= Place(n, h)
        BY <1>6, <1>8, <3>2, PlaceTypes
      <4> QED
        BY <1>1, <1>2, <1>6, <1>7, <3>2, <4>1
    <3>3. CASE k # j /\ (BatchOf[k] # b \/ turnedIn[k] # h)
      <4>1. turnedIn'[k] = turnedIn[k] /\ sched'[k] = sched[k] /\ turnedIn[k] \in Hours
            /\ BatchOf[k] \in Batches
        BY <1>6, <2>1, <3>3, PlaceTypes
      <4>2. sched[k] + BatchDelay <= Place(resched[BatchOf[k]][turnedIn[k]], turnedIn[k])
        BY <2>1, <4>1 DEF InLine
      <4> QED
        BY <1>7, <3>3, <4>1, <4>2
    <3> QED
      BY <3>1, <3>2, <3>3
  <2>2. \A k \in Jobs : phase'[k] # "delayed" => turnedIn'[k] = -1
    BY <1>5, <1>6 DEF InLine
  <2> QED
    BY <2>1, <2>2 DEF InLine
<1>10. ASSUME NEW k \in Jobs, NEW i \in Jobs, k # i, BatchOf[k] = BatchOf[i],
              phase'[k] = "delayed", phase'[i] = "delayed",
              turnedIn'[k] = turnedIn'[i], turnedIn'[k] # -1
       PROVE  sched'[k] >= sched'[i] + BatchDelay \/ sched'[i] >= sched'[k] + BatchDelay
  <2>1. CASE k = j
    BY <1>1, <1>2, <1>4, <1>5, <1>6, <1>8, <1>10, <2>1, PlaceTypes DEF b
  <2>2. CASE i = j
    BY <1>1, <1>2, <1>4, <1>5, <1>6, <1>8, <1>10, <2>2, PlaceTypes DEF b
  <2>3. CASE k # j /\ i # j
    BY <1>6, <1>10, <2>3 DEF StaggerSpaced
  <2> QED
    BY <2>1, <2>2, <2>3
<1> QED
  BY <1>9, <1>10 DEF StaggerSpaced

LEMMA StaggerStep ==
    TypeOK /\ InLine /\ StaggerSpaced /\ [Next]_vars => InLine' /\ StaggerSpaced'
<1> SUFFICES ASSUME TypeOK, InLine, StaggerSpaced, [Next]_vars PROVE InLine' /\ StaggerSpaced'
  OBVIOUS
<1>1. ASSUME UNCHANGED <<sched, turnedIn>>,
             \A b \in Batches, h \in Hours : resched'[b][h] \in {resched[b][h], resched[b][h] + 1},
             \A j \in Jobs : phase'[j] = phase[j] \/ (phase[j] # "delayed" /\ phase'[j] # "delayed")
      PROVE  InLine' /\ StaggerSpaced'
  <2>1. \A j \in Jobs : /\ phase'[j] # "delayed" => turnedIn'[j] = -1
                        /\ turnedIn'[j] # -1 => phase[j] = "delayed"
    BY <1>1 DEF InLine
  <2> QED
    BY <1>1, <2>1, LineStays
<1>2. ASSUME UNCHANGED resched
      PROVE  \A b \in Batches, h \in Hours : resched'[b][h] \in {resched[b][h], resched[b][h] + 1}
  BY <1>2
<1>3. ASSUME NEW j \in Jobs,
             \/ Ask(j) \/ Grant(j) \/ Block(j) \/ FailClosed(j)
             \/ Finish(j) \/ SendFails(j) \/ StartDefer(j)
      PROVE  InLine' /\ StaggerSpaced'
  BY <1>1, <1>2, <1>3 DEF Ask, Grant, Block, FailClosed, Finish, SendFails, StartDefer, Moves, Fails, TypeOK
<1>4. ASSUME NEW j \in Jobs, NEW h \in Hours, LateEval(j, h) PROVE InLine' /\ StaggerSpaced'
  BY <1>1, <1>2, <1>4 DEF LateEval
<1>5. CASE Tick \/ UNCHANGED vars
  BY <1>1, <1>2, <1>5 DEF Tick, vars
<1>6. ASSUME NEW j \in Jobs, DeferFails(j) PROVE InLine' /\ StaggerSpaced'
  <2>1. ASSUME NEW b \in Batches, NEW h \in Hours
        PROVE  resched'[b][h] \in {resched[b][h], resched[b][h] + 1}
    <3> DEFINE c == BatchOf[j]
               i == HourOf(since[j])
    <3>1. resched' \in {resched, [resched EXCEPT ![c][i] = resched[c][i] + 1]}
      BY <1>6 DEF DeferFails
    <3>2. c \in Batches /\ i \in Hours
      BY PlaceTypes
    <3> HIDE DEF c, i
    <3>3. ASSUME resched' = [resched EXCEPT ![c][i] = resched[c][i] + 1]
          PROVE  resched'[b][h] \in {resched[b][h], resched[b][h] + 1}
      <4>1. CASE b = c /\ h = i
        BY <3>2, <3>3, <4>1 DEF TypeOK
      <4>2. CASE ~(b = c /\ h = i)
        BY <3>2, <3>3, <4>2 DEF TypeOK
      <4> QED
        BY <4>1, <4>2
    <3> QED
      BY <3>1, <3>3
  <2>2. /\ UNCHANGED <<sched, turnedIn>>
        /\ \A k \in Jobs : phase'[k] = phase[k] \/ (phase[k] # "delayed" /\ phase'[k] # "delayed")
    BY <1>6 DEF DeferFails, Fails, TypeOK
  <2> QED
    BY <1>1, <2>1, <2>2
<1>7. ASSUME NEW j \in Jobs, DeferShort(j) \/ BecomeDue(j) PROVE InLine' /\ StaggerSpaced'
  <2>1. \A k \in Jobs : phase'[k] # "delayed" => turnedIn'[k] = -1
    BY <1>7 DEF DeferShort, BecomeDue, Moves, InLine, TypeOK
  <2>2. \A k \in Jobs : turnedIn'[k] # -1 =>
           turnedIn'[k] = turnedIn[k] /\ sched'[k] = sched[k] /\ phase[k] = "delayed"
    BY <1>7 DEF DeferShort, BecomeDue, Moves, InLine, TypeOK
  <2>3. UNCHANGED resched
    BY <1>7 DEF DeferShort, BecomeDue
  <2> QED
    BY <1>2, <2>1, <2>2, <2>3, LineStays
<1>8. ASSUME NEW j \in Jobs, Defer(j) PROVE InLine' /\ StaggerSpaced'
  BY <1>8, DeferTakesNext
<1> QED
  BY <1>3, <1>4, <1>5, <1>6, <1>7, <1>8 DEF Next

\* Jobs of a batch that were put off in the same hour are scheduled batch.delayMs
\* apart, however many they are and however their deferrals interleave or fail
\* half way (emailWorker.ts 47-67).
THEOREM StaggerIsSpaced == Spec => []StaggerSpaced
<1>1. Init => InLine /\ StaggerSpaced
  BY DEF Init, InLine, StaggerSpaced
<1> QED
  BY <1>1, LimiterTypeCorrect, StaggerStep, PTL DEF Spec

----------------------------------------------------------------------------
(* All or nothing *)

\* The counters of hour h of the senders, or of the batches, as a function.
CountsOf(S, h) == [sc \in S |-> count[sc][h]]

\* In an hour that is not over the counters of either kind add up.
Balanced ==
    \A S \in {Senders, Batches}, h \in Hours :
        now < h * HourLen + HourLen => Total(CountsOf(S, h), S) = count[Global][h]

\* The sum that AllOrNothing takes is one over a function.
LEMMA SumOverIsTotal ==
    ASSUME TypeOK, NEW S \in {Senders, Batches}, IsFiniteSet(S), NEW h \in Hours
    PROVE  SumOver(S, h) = Total([sc \in S |-> Value(sc, h)], S)
<1> DEFINE f == [sc \in S |-> Value(sc, h)]
           Eq(g) == [s \in SUBSET S |-> IF s = {} THEN 0
                                        ELSE Value(Some(s), h) + g[s \ {Some(s)}]]
           it == CHOOSE g : g = Eq(g)
<1>1. f \in [S -> Nat]
  BY DEF TypeOK, Value, Scopes
<1>2. SumOver(S, h) = it[S]
  BY DEF SumOver, MapThenFoldSet, Some
<1>3. \A g : Eq(g) = Summed(g, f, S)
  <2>1. \A s \in SUBSET S : s # {} => Some(s) \in S
    BY DEF Some
  <2> QED
    BY <2>1 DEF Summed
<1> HIDE DEF f, Eq
<1>4. it = Eq(it)
  <2>1. \E g : g = Eq(g)
    BY <1>1, <1>3, AddsExists DEF Adds
  <2> QED
    BY <2>1
<1> HIDE DEF it
<1>5. Adds(it, f, S)
  BY <1>3, <1>4 DEF Adds
<1>6. PICK k : Total(f, S) = k[S] /\ Adds(k, f, S)
  BY <1>1, TotalAdds
<1>7. k[S] = it[S]
  BY <1>1, <1>5, <1>6, AddsFollow
<1> QED
  BY <1>2, <1>6, <1>7 DEF f

\* A reservation raises one sender, one batch and the global counter by one.
LEMMA ReserveBalanced ==
    ASSUME CapsInv, Balanced, IsFiniteSet(Senders), IsFiniteSet(Batches),
           NEW j \in Jobs, NEW k \in Hours, Reserve(j, k), now' = now
    PROVE  Balanced'
<1> SUFFICES ASSUME NEW S \in {Senders, Batches}, NEW h \in Hours,
                    now < h * HourLen + HourLen
             PROVE  Total(CountsOf(S, h)', S) = count'[Global][h]
  BY DEF Balanced, CountsOf
<1>1. IsFiniteSet(S) /\ S \subseteq Scopes /\ Global \notin S /\ Global \in Scopes
  BY JobsAssumption DEF Scopes
<1>2. PICK x \in S : \A sc \in S : sc \in ScopesOf(j) <=> sc = x
  BY JobsAssumption DEF ScopesOf
<1>3. \A sc \in Scopes : count'[sc][h] = IF sc \in ScopesOf(j) /\ h = k THEN count[sc][h] + 1
                                                                      ELSE count[sc][h]
  <2>1. now < h * HourLen + HourLen + Timeout
    BY TimesAssumption DEF CapsInv, TypeOK, Hours
  <2> QED
    BY <2>1, ReserveRaises DEF CapsInv
<1>4. \A sc \in Scopes : count[sc][h] \in Nat
  BY DEF CapsInv, TypeOK
<1> DEFINE f == CountsOf(S, h)  g == CountsOf(S, h)'
<1>5. f \in [S -> Nat] /\ g \in [S -> Nat]
  BY <1>1, <1>3, <1>4 DEF CountsOf
<1>6. /\ \A y \in S \ {x} : g[y] = f[y]
      /\ g[x] = IF h = k THEN f[x] + 1 ELSE f[x]
  BY <1>1, <1>2, <1>3 DEF CountsOf
<1>7. Total(f, S) = count[Global][h]
  BY DEF Balanced
<1>8. count'[Global][h] = IF h = k THEN count[Global][h] + 1 ELSE count[Global][h]
  BY <1>1, <1>3 DEF ScopesOf
<1> HIDE DEF f, g
<1>9. Total(f, S) \in Nat /\ Total(g, S) = Total(f, S) + g[x] - f[x]
  BY <1>1, <1>2, <1>5, <1>6, TotalFollows
<1>10. Total(g, S) = count'[Global][h]
  BY <1>5, <1>6, <1>7, <1>8, <1>9
<1> QED
  BY <1>10 DEF g

LEMMA BalancedStep ==
    ASSUME IsFiniteSet(Senders), IsFiniteSet(Batches)
    PROVE  CapsInv /\ Balanced /\ [Next]_vars => Balanced'
<1> SUFFICES ASSUME CapsInv, Balanced, [Next]_vars PROVE Balanced'
  OBVIOUS
<1>1. ASSUME count' = count, now' \in {now, now + 1} PROVE Balanced'
  <2> SUFFICES ASSUME NEW S \in {Senders, Batches}, NEW h \in Hours,
                      now' < h * HourLen + HourLen
               PROVE  Total(CountsOf(S, h)', S) = count'[Global][h]
    BY DEF Balanced, CountsOf
  <2>1. now < h * HourLen + HourLen
    BY <1>1, TimesAssumption DEF CapsInv, TypeOK, Hours
  <2>2. CountsOf(S, h)' = CountsOf(S, h)
    BY <1>1 DEF CountsOf
  <2> QED
    BY <1>1, <2>1, <2>2 DEF Balanced
<1>2. ASSUME NEW j \in Jobs, Grant(j) PROVE Balanced'
  <2>1. HourOf(since[j]) \in Hours
    BY HourInHours DEF CapsInv, TypeOK
  <2> QED
    BY <1>2, <2>1, ReserveBalanced DEF Grant
<1>3. ASSUME NEW j \in Jobs, NEW h \in Hours, LateEval(j, h) PROVE Balanced'
  BY <1>1, <1>3, ReserveBalanced DEF LateEval
<1>4. ASSUME NEW j \in Jobs,
             \/ Ask(j) \/ Block(j) \/ FailClosed(j) \/ Finish(j) \/ SendFails(j)
             \/ StartDefer(j) \/ Defer(j) \/ DeferFails(j) \/ DeferShort(j) \/ BecomeDue(j)
      PROVE  Balanced'
  BY <1>1, <1>4 DEF Ask, Block, FailClosed, Finish, SendFails, StartDefer, Defer, DeferFails,
                    DeferShort, BecomeDue, limits
<1>5. CASE Tick \/ UNCHANGED vars
  BY <1>1, <1>5 DEF Tick, vars, limits
<1> QED
  BY <1>2, <1>3, <1>4, <1>5 DEF Next

LEMMA BalancedInit ==
    ASSUME IsFiniteSet(Senders), IsFiniteSet(Batches)
    PROVE  Init => Balanced
<1> SUFFICES ASSUME Init, NEW S \in {Senders, Batches}, NEW h \in Hours
             PROVE  Total(CountsOf(S, h), S) = 0 /\ count[Global][h] = 0
  BY DEF Balanced
<1> DEFINE f == CountsOf(S, h)
<1>1. f = [sc \in S |-> 0] /\ count[Global][h] = 0
  BY DEF Init, CountsOf, Scopes
<1> HIDE DEF f
<1>2. PICK g : Total(f, S) = g[S] /\ Adds(g, f, S)
  BY <1>1, TotalAdds
<1> DEFINE P == {s \in SUBSET S : g[s] = 0}
           some == [s \in SUBSET S |-> Some(s)]
<1>3. {} \in P
  BY <1>2 DEF Adds, Summed
<1>4. ASSUME NEW s \in SUBSET S, s # {}
      PROVE  some[s] \in s /\ (Rest(some, s) \in P => s \in P)
  BY <1>1, <1>2, <1>4 DEF Adds, Summed, Some, Rest
<1>5. SUBSET S \subseteq P
  <2> HIDE DEF P, some
  <2> QED
    BY <1>3, <1>4, SetInduction
<1>6. S \in P
  BY <1>5
<1> QED
  BY <1>1, <1>2, <1>6 DEF f

\* What the reservation script reserves it reserves in all three scopes
\* (services/rateLimiter.ts), for any finite numbers of senders and batches.
THEOREM SlotsInAllScopes ==
    ASSUME IsFiniteSet(Senders), IsFiniteSet(Batches)
    PROVE  Spec => []AllOrNothing
<1>1. CapsInv /\ Balanced => AllOrNothing
  <2> SUFFICES ASSUME CapsInv, Balanced, NEW S \in {Senders, Batches}
               PROVE  SumOver(S, HourOf(now)) = Value(Global, HourOf(now))
    BY DEF AllOrNothing
  <2> DEFINE h == HourOf(now)
  <2>1. h \in Hours /\ now < h * HourLen + HourLen /\ now < h * HourLen + HourLen + Timeout
    <3>1. now \in 0 .. Horizon /\ now \in Nat
      BY TimesAssumption DEF CapsInv, TypeOK
    <3>2. HourOf(now) \in Nat /\ now < HourOf(now) * HourLen + HourLen
      BY <3>1, HourBounds
    <3> QED
      BY <3>1, <3>2, HourInHours, TimesAssumption
  <2> HIDE DEF h
  <2>2. \A sc \in Scopes : Value(sc, h) = count[sc][h]
    BY <2>1, KeyAlive DEF CapsInv
  <2>3. [sc \in S |-> Value(sc, h)] = CountsOf(S, h)
    BY <2>2 DEF CountsOf, Scopes
  <2>4. SumOver(S, h) = Total(CountsOf(S, h), S)
    BY <2>1, <2>3, SumOverIsTotal DEF CapsInv
  <2>5. SumOver(S, h) = Value(Global, h)
    BY <2>1, <2>2, <2>4 DEF Balanced, Scopes
  <2> QED
    BY <2>5 DEF h
<1> QED
  BY <1>1, CapsInit, LimiterStep, BalancedInit, BalancedStep, PTL DEF Spec
============================================================================
