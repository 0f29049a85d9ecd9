------------------------ MODULE WorkerLifecycleProofs ----------------------
(***************************************************************************)
(* What holds of WorkerLifecycle for any number of processes, any expiry   *)
(* and any length of a connection's queue: the types, what /health can be  *)
(* believed for, and that a shutdown takes no job with it.                 *)
(***************************************************************************)
EXTENDS WorkerLifecycle, TLAPS

Mains == {"off", "loading", "reconciling", "done"}
Stops == {"no", "closing", "deleting", "gone"}
Cmds == [cmd : {"set", "del"}, at : Off .. Horizon]

\* The types, and how far the clock may be behind what has been read from it.
Types ==
    /\ clock \in 0 .. Horizon /\ redisUp \in BOOLEAN /\ aways \in 0 .. MaxAways
    /\ key = NoKey \/ key \in [at : 0 .. clock, until : Int]
    /\ key # NoKey => clock < key.until /\ key.at + Ttl <= key.until /\ key.until <= clock + Ttl
    /\ main \in [Procs -> Mains] /\ stop \in [Procs -> Stops]
    /\ beat \in [Procs -> Off .. Horizon + 1]
    /\ sweep \in [Procs -> BOOLEAN] /\ pass \in [Procs -> BOOLEAN] /\ open \in [Procs -> BOOLEAN]
    /\ active \in [Procs -> BOOLEAN]
    /\ commands \in [Procs -> Seq(Cmds)]
    /\ early \in SUBSET Procs /\ wiped \in SUBSET Procs
    /\ landed \in [Procs -> {Long} \cup 0 .. clock]
    /\ unclean \in {Long} \cup 0 .. clock

\* A heartbeat in a connection was issued by now; a DEL is there only while
\* the process waits for its answer.
Connections ==
    \A p \in Procs : \A i \in DOMAIN commands[p] :
        /\ commands[p][i].cmd = "set" => commands[p][i].at \in 0 .. clock
        /\ commands[p][i].cmd = "del" => stop[p] = "deleting"

\* MaxQueue bounds the timer's heartbeats; the first one and the DEL come on top.
QueueBounded ==
    \A p \in Procs :
        Len(commands[p]) <= MaxQueue + (IF main[p] \in {"off", "loading"} THEN 0 ELSE 1)
                                     + (IF stop[p] = "deleting" THEN 1 ELSE 0)

LifeInv == Types /\ Connections /\ QueueBounded

LEMMA TailOfCommands ==
    ASSUME NEW s \in Seq(Cmds), s # <<>>
    PROVE  /\ Tail(s) \in Seq(Cmds) /\ Len(Tail(s)) = Len(s) - 1
           /\ Head(s) = s[1] /\ 1 \in DOMAIN s /\ s[1] \in Cmds
           /\ \A i \in DOMAIN Tail(s) : i + 1 \in DOMAIN s /\ Tail(s)[i] = s[i + 1]
  OBVIOUS

LEMMA AppendCommand ==
    ASSUME NEW s \in Seq(Cmds), NEW c \in Cmds
    PROVE  /\ Append(s, c) \in Seq(Cmds) /\ Len(Append(s, c)) = Len(s) + 1
           /\ \A i \in DOMAIN Append(s, c) :
                \/ i \in DOMAIN s /\ Append(s, c)[i] = s[i]
                \/ i = Len(s) + 1 /\ Append(s, c)[i] = c
<1>1. Append(s, c) \in Seq(Cmds) /\ Len(Append(s, c)) = Len(s) + 1
  OBVIOUS
<1>2. ASSUME NEW i \in DOMAIN Append(s, c)
      PROVE  \/ i \in DOMAIN s /\ Append(s, c)[i] = s[i]
             \/ i = Len(s) + 1 /\ Append(s, c)[i] = c
  <2>1. i \in 1 .. Len(s) + 1
    BY <1>2
  <2>2. CASE i <= Len(s)
    BY <2>1, <2>2
  <2>3. CASE i = Len(s) + 1
    BY <2>3
  <2> QED
    BY <2>1, <2>2, <2>3
<1> QED
  BY <1>1, <1>2

LEMMA Bounds ==
    /\ Ttl \in Nat \ {0} /\ Horizon \in Nat \ {0}
    /\ MaxQueue \in Nat \ {0} /\ MaxAways \in Nat \ {0}
  BY LifecycleAssumption

LEMMA TypesStep == LifeInv /\ [Next]_vars => Types'
<1> SUFFICES ASSUME LifeInv, [Next]_vars PROVE Types'
  OBVIOUS
<1> USE Bounds DEF LifeInv, Mains, Stops
<1>1. CASE Tick
  <2>1. clock \in Nat /\ clock' = clock + 1 /\ clock' \in 0 .. Horizon
    BY <1>1 DEF Types, Tick
  <2>2. \A time \in {Long} \cup 0 .. clock : Lately(time) \in {Long} \cup 0 .. clock'
    BY <2>1 DEF Lately, Long
  <2>3. /\ landed' \in [Procs -> {Long} \cup 0 .. clock']
        /\ unclean' \in {Long} \cup 0 .. clock'
    BY <1>1, <2>2 DEF Types, Tick
  <2>4. /\ key' = NoKey \/ key' \in [at : 0 .. clock', until : Int]
        /\ key' # NoKey => /\ clock' < key'.until /\ key'.at + Ttl <= key'.until
                           /\ key'.until <= clock' + Ttl
    BY <1>1, <2>1 DEF Types, Tick, NoKey, Off
  <2>5. wiped' \in SUBSET Procs
    BY <1>1 DEF Types, Tick
  <2>6. UNCHANGED <<redisUp, aways, main, stop, beat, sweep, pass, open, active, commands, early>>
    BY <1>1 DEF Tick, procVars
  <2> QED
    BY <2>1, <2>3, <2>4, <2>5, <2>6 DEF Types
<1>2. CASE RedisGoes
  <2>1. aways' \in 0 .. MaxAways
    <3>1. aways' = aways + 1 /\ aways < MaxAways
      BY <1>2 DEF RedisGoes
    <3> QED
      BY <3>1 DEF Types
  <2>3. redisUp' \in BOOLEAN
    BY <1>2 DEF RedisGoes
  <2>2. UNCHANGED <<clock, key, main, stop, beat, sweep, pass, open, active, commands,
                    early, landed, wiped, unclean>>
    BY <1>2 DEF RedisGoes, procVars, seen
  <2> QED
    BY <2>1, <2>2, <2>3 DEF Types
<1>3. CASE RedisReturns
  BY <1>3 DEF Types, RedisReturns, procVars, seen
<1>4. ASSUME NEW p \in Procs, Step(p) PROVE Types'
  <2>1. CASE Start(p)
    BY <2>1 DEF Types, Start, seen
  <2>2. CASE LoadSenders(p)
    <3>1. Set(clock) \in Cmds
      BY DEF Types, Set, Cmds, Off
    <3>2. Append(commands[p], Set(clock)) \in Seq(Cmds)
      BY <3>1, AppendCommand DEF Types
    <3> QED
      BY <2>2, <3>2 DEF Types, LoadSenders, seen, Off
  <2>3. CASE Reconciled(p)
    BY <2>3 DEF Types, Reconciled, seen
  <2>4. CASE Fails(p)
    BY <2>4 DEF Types, Fails, Ends, Off
  <2>5. CASE Beat(p)
    <3>1. Set(clock) \in Cmds
      BY DEF Types, Set, Cmds, Off
    <3>2. Append(commands[p], Set(clock)) \in Seq(Cmds)
      BY <3>1, AppendCommand DEF Types
    <3> QED
      BY <2>5, <3>2 DEF Types, Beat, seen, Off
  <2>6. CASE TakeJob(p)
    BY <2>6 DEF Types, TakeJob, seen
  <2>7. CASE JobEnds(p)
    BY <2>7 DEF Types, JobEnds, seen
  <2>12. CASE PassStarts(p) \/ PassEnds(p)
    BY <2>12 DEF Types, PassStarts, PassEnds, seen
  <2>8. CASE Signal(p)
    BY <2>8 DEF Types, Signal, Off
  <2>9. CASE Closed(p)
    <3>1. Del \in Cmds
      BY DEF Types, Del, Cmds, Off
    <3>2. Append(commands[p], Del) \in Seq(Cmds)
      BY <3>1, AppendCommand DEF Types
    <3> QED
      BY <2>9, <3>2 DEF Types, Closed, seen
  <2>10. CASE Exit(p)
    BY <2>10 DEF Types, Exit, Ends, Off
  <2>11. CASE Land(p)
    <3> DEFINE c == Head(commands[p])
    <3>1. /\ Tail(commands[p]) \in Seq(Cmds) /\ c \in Cmds
          /\ c.cmd = "set" => c.at \in 0 .. clock
      BY <2>11, TailOfCommands DEF Types, Connections, Land
    <3> HIDE DEF c
    <3>3. commands' = [commands EXCEPT ![p] = Tail(@)]
      BY <2>11 DEF Land
    <3>4. commands' \in [Procs -> Seq(Cmds)]
      BY <3>1, <3>3 DEF Types
    <3>5. CASE c.cmd = "set"
      <4>1. /\ key' = [at |-> c.at, until |-> clock + Ttl] /\ clock' = clock
            /\ landed' = [landed EXCEPT ![p] = c.at]
            /\ wiped' = (wiped \cup {q \in Procs : landed[q] > c.at}) \ {p}
        BY <2>11, <3>5 DEF Land, c
      <4>2. /\ key' \in [at : 0 .. clock', until : Int]
            /\ clock' < key'.until /\ key'.at + Ttl <= key'.until /\ key'.until <= clock' + Ttl
        BY <3>1, <3>5, <4>1 DEF Types
      <4>3. wiped' \in SUBSET Procs /\ landed' \in [Procs -> {Long} \cup 0 .. clock']
        BY <3>1, <3>5, <4>1 DEF Types
      <4> QED
        BY <2>11, <3>4, <4>2, <4>3 DEF Types, Land
    <3>6. CASE c.cmd # "set"
      <4>1. /\ key' = NoKey /\ landed' = landed
            /\ wiped' = {q \in Procs \ {p} : landed[q] # Long}
        BY <2>11, <3>6 DEF Land, c
      <4> QED
        BY <2>11, <3>4, <4>1 DEF Types, Land
    <3> QED
      BY <3>5, <3>6
  <2> QED
    BY <1>4, <2>1, <2>2, <2>3, <2>4, <2>5, <2>6, <2>7, <2>8, <2>9, <2>10, <2>11, <2>12 DEF Step
<1>5. CASE UNCHANGED vars
  BY <1>5 DEF Types, vars, procVars, seen
<1> QED
  BY <1>1, <1>2, <1>3, <1>4, <1>5 DEF Next

\* What a step of a process does to its connection: nothing, a heartbeat or a
\* DEL more, the first command less, or all of them gone.
ConnectionMoves(p) ==
    \/ UNCHANGED commands
    \/ commands' = [commands EXCEPT ![p] = Append(@, Set(clock))]
    \/ commands' = [commands EXCEPT ![p] = Append(@, Del)] /\ stop'[p] = "deleting"
    \/ commands[p] # <<>> /\ commands' = [commands EXCEPT ![p] = Tail(@)]
    \/ commands' = [commands EXCEPT ![p] = <<>>]

LEMMA ConnectionCases ==
    ASSUME Types, NEW p \in Procs, Step(p)
    PROVE  /\ ConnectionMoves(p) /\ clock' = clock
           /\ \A q \in Procs \ {p} : stop'[q] = stop[q] /\ main'[q] = main[q]
           /\ stop[p] = "deleting" => stop'[p] = "deleting" \/ commands'[p] = <<>>
<1> USE DEF Types, ConnectionMoves, Alive
<1>1. CASE Start(p)
  BY <1>1 DEF Start
<1>2. CASE LoadSenders(p)
  BY <1>2 DEF LoadSenders
<1>3. CASE Reconciled(p)
  BY <1>3 DEF Reconciled
<1>4. CASE Fails(p)
  BY <1>4 DEF Fails, Ends
<1>5. CASE Beat(p)
  BY <1>5 DEF Beat
<1>6. CASE TakeJob(p) \/ JobEnds(p) \/ PassStarts(p) \/ PassEnds(p)
  BY <1>6 DEF TakeJob, JobEnds, PassStarts, PassEnds
<1>7. CASE Signal(p)
  BY <1>7 DEF Signal
<1>8. CASE Closed(p)
  BY <1>8 DEF Closed
<1>9. CASE Exit(p)
  BY <1>9 DEF Exit, Ends
<1>10. CASE Land(p)
  BY <1>10 DEF Land
<1> QED
  BY <1>1, <1>2, <1>3, <1>4, <1>5, <1>6, <1>7, <1>8, <1>9, <1>10 DEF Step

LEMMA ConnectionsStep == LifeInv /\ [Next]_vars => Connections'
<1> SUFFICES ASSUME LifeInv, [Next]_vars PROVE Connections'
  OBVIOUS
<1> USE Bounds DEF LifeInv
<1>1. CASE Tick \/ RedisGoes \/ RedisReturns \/ UNCHANGED vars
  <2>1. clock \in Nat /\ (clock' = clock \/ clock' = clock + 1)
    BY <1>1 DEF Types, Tick, RedisGoes, RedisReturns, vars
  <2>2. UNCHANGED <<commands, stop>>
    BY <1>1 DEF Tick, RedisGoes, RedisReturns, vars, procVars
  <2> QED
    BY <2>1, <2>2 DEF Connections
<1>2. ASSUME NEW p \in Procs, Step(p) PROVE Connections'
  <2>1. /\ ConnectionMoves(p) /\ clock' = clock
        /\ \A q \in Procs \ {p} : stop'[q] = stop[q]
        /\ stop[p] = "deleting" => stop'[p] = "deleting" \/ commands'[p] = <<>>
    BY <1>2, ConnectionCases
  <2>2. \A q \in Procs \ {p} : commands'[q] = commands[q]
    BY <2>1 DEF ConnectionMoves, Types
  <2>3. commands[p] \in Seq(Cmds) /\ clock \in 0 .. Horizon
    BY DEF Types
  <2>4. ASSUME NEW i \in DOMAIN commands'[p]
        PROVE  /\ commands'[p][i].cmd = "set" => commands'[p][i].at \in 0 .. clock
               /\ commands'[p][i].cmd = "del" => stop'[p] = "deleting"
    <3>1. CASE UNCHANGED commands
      BY <2>1, <2>4, <3>1 DEF Connections
    <3>2. CASE commands' = [commands EXCEPT ![p] = Append(@, Set(clock))]
      <4>1. Set(clock) \in Cmds /\ commands'[p] = Append(commands[p], Set(clock))
        BY <2>3, <3>2 DEF Set, Cmds, Off, Types
      <4>2. CASE i \in DOMAIN commands[p] /\ commands'[p][i] = commands[p][i]
        BY <2>1, <2>4, <4>2 DEF Connections
      <4>3. CASE commands'[p][i] = Set(clock)
        BY <2>3, <4>3 DEF Set
      <4> QED
        BY <2>3, <2>4, <4>1, <4>2, <4>3, AppendCommand
    <3>3. CASE commands' = [commands EXCEPT ![p] = Append(@, Del)] /\ stop'[p] = "deleting"
      <4>1. Del \in Cmds /\ commands'[p] = Append(commands[p], Del)
        BY <3>3 DEF Del, Cmds, Off, Types
      <4>2. CASE i \in DOMAIN commands[p] /\ commands'[p][i] = commands[p][i]
        BY <3>3, <2>4, <4>2 DEF Connections
      <4>3. CASE commands'[p][i] = Del
        BY <3>3, <4>3 DEF Del
      <4> QED
        BY <2>3, <2>4, <4>1, <4>2, <4>3, AppendCommand
    <3>4. CASE commands[p] # <<>> /\ commands' = [commands EXCEPT ![p] = Tail(@)]
      <4>1. commands'[p] = Tail(commands[p])
        BY <3>4 DEF Types
      <4>2. i + 1 \in DOMAIN commands[p] /\ commands'[p][i] = commands[p][i + 1]
        BY <2>3, <2>4, <3>4, <4>1, TailOfCommands
      <4> QED
        BY <2>1, <2>4, <4>2 DEF Connections
    <3>5. CASE commands' = [commands EXCEPT ![p] = <<>>]
      BY <2>4, <3>5 DEF Types
    <3> QED
      BY <2>1, <3>1, <3>2, <3>3, <3>4, <3>5 DEF ConnectionMoves
  <2> QED
    BY <2>1, <2>2, <2>4 DEF Connections
<1> QED
  BY <1>1, <1>2 DEF Next

LEMMA QueueStep == LifeInv /\ [Next]_vars => QueueBounded'
<1> SUFFICES ASSUME LifeInv, [Next]_vars PROVE QueueBounded'
  OBVIOUS
<1> USE Bounds DEF LifeInv
<1> DEFINE Room(p) == MaxQueue + (IF main[p] \in {"off", "loading"} THEN 0 ELSE 1)
                               + (IF stop[p] = "deleting" THEN 1 ELSE 0)
<1>1. CASE Tick \/ RedisGoes \/ RedisReturns \/ UNCHANGED vars
  BY <1>1 DEF QueueBounded, Tick, RedisGoes, RedisReturns, vars, procVars
<1>2. ASSUME NEW p \in Procs, Step(p) PROVE QueueBounded'
  <2>1. \A q \in Procs \ {p} : commands'[q] = commands[q] /\ stop'[q] = stop[q] /\ main'[q] = main[q]
    BY <1>2, ConnectionCases DEF ConnectionMoves, Types
  <2>2. /\ commands[p] \in Seq(Cmds) /\ Len(commands[p]) \in Nat
        /\ Len(commands[p]) <= Room(p) /\ Set(clock) \in Cmds /\ Del \in Cmds
    <3>1. commands[p] \in Seq(Cmds) /\ Len(commands[p]) \in Nat
      BY DEF Types
    <3>2. Len(commands[p]) <= Room(p)
      BY DEF QueueBounded
    <3>3. Set(clock) \in Cmds /\ Del \in Cmds
      BY DEF Types, Set, Del, Cmds, Off
    <3> QED
      BY <3>1, <3>2, <3>3
  <2>3. Len(commands'[p]) <= Room(p)'
    <3>1. CASE LoadSenders(p)
      <4>1. Len(commands'[p]) = Len(commands[p]) + 1
        BY <2>2, <3>1, AppendCommand DEF LoadSenders, Types
      <4> QED
        BY <2>2, <3>1, <4>1 DEF LoadSenders, Types
    <3>2. CASE Beat(p)
      <4>1. Len(commands'[p]) = Len(commands[p]) + 1
        BY <2>2, <3>2, AppendCommand DEF Beat, Types
      <4> QED
        BY <2>2, <3>2, <4>1 DEF Beat, Types
    <3>3. CASE Closed(p)
      <4>1. Len(commands'[p]) = Len(commands[p]) + 1
        BY <2>2, <3>3, AppendCommand DEF Closed, Types
      <4> QED
        BY <2>2, <3>3, <4>1 DEF Closed, Types
    <3>4. CASE Fails(p) \/ Exit(p)
      <4>1. commands'[p] = <<>>
        BY <3>4 DEF Fails, Exit, Ends, Types
      <4> QED
        BY <4>1
    <3>5. CASE Land(p)
      <4>1. Len(commands'[p]) = Len(commands[p]) - 1
        BY <2>2, <3>5, TailOfCommands DEF Land, Types
      <4> QED
        BY <2>2, <3>5, <4>1 DEF Land
    <3>6. CASE Start(p) \/ Reconciled(p) \/ PassStarts(p) \/ PassEnds(p) \/ TakeJob(p) \/ JobEnds(p)
      BY <2>2, <3>6 DEF Start, Reconciled, PassStarts, PassEnds, TakeJob, JobEnds, Types
    <3>7. CASE Signal(p)
      BY <2>2, <3>7 DEF Signal, Types
    <3> QED
      BY <1>2, <3>1, <3>2, <3>3, <3>4, <3>5, <3>6, <3>7 DEF Step
  <2> QED
    BY <2>1, <2>3 DEF QueueBounded
<1> QED
  BY <1>1, <1>2 DEF Next

LEMMA LifeInit == Init => LifeInv
  BY Bounds DEF Init, LifeInv, Types, Connections, QueueBounded, Mains, Stops, NoKey, Off, Long

LEMMA LifeAlways == Spec => []LifeInv
<1>1. LifeInv /\ [Next]_vars => LifeInv'
  BY TypesStep, ConnectionsStep, QueueStep DEF LifeInv
<1> QED
  BY LifeInit, <1>1, PTL DEF Spec

\* The types of WorkerLifecycle, with the length a connection's queue can reach:
\* the first heartbeat and the DEL of startHeartbeat and shutdown come on top of
\* what the timer is allowed.
THEOREM LifecycleTypes == Spec => []TypeOK
<1>1. LifeInv => TypeOK
  <2> SUFFICES ASSUME LifeInv PROVE TypeOK
    OBVIOUS
  <2>1. key \in [at : Off .. Horizon, until : Off .. Horizon + Ttl]
    BY Bounds DEF LifeInv, Types, NoKey, Off
  <2>2. ASSUME NEW p \in Procs PROVE Len(commands[p]) <= MaxQueue + 2
    <3>1. commands[p] \in Seq(Cmds) /\ Len(commands[p]) \in Nat
      BY DEF LifeInv, Types
    <3>2. Len(commands[p]) <= MaxQueue + (IF main[p] \in {"off", "loading"} THEN 0 ELSE 1)
                                       + (IF stop[p] = "deleting" THEN 1 ELSE 0)
      BY DEF LifeInv, QueueBounded
    <3> QED
      BY <3>1, <3>2, Bounds
  <2>3. landed \in [Procs -> {Long} \cup 0 .. Horizon] /\ unclean \in {Long} \cup 0 .. Horizon
    BY Bounds DEF LifeInv, Types
  <2> QED
    BY <2>1, <2>2, <2>3 DEF LifeInv, Types, TypeOK, Mains, Stops, Cmds
<1> QED
  BY LifeAlways, <1>1, PTL

----------------------------------------------------------------------------
(* What /health can be believed for *)

\* The last heartbeat of a process that runs, unless another has wiped it out,
\* is in the key, or something newer is.
Kept ==
    \A p \in Procs : landed[p] # Long /\ p \notin wiped /\ stop[p] # "deleting" =>
        \/ key # NoKey /\ landed[p] <= key.at
        \/ clock - landed[p] >= Ttl

LEMMA KeptStep == LifeInv /\ Kept /\ [Next]_vars => Kept'
<1> SUFFICES ASSUME LifeInv, Kept, [Next]_vars PROVE Kept'
  OBVIOUS
<1> USE Bounds DEF LifeInv
<1>1. CASE Tick
  <2> SUFFICES ASSUME NEW p \in Procs, landed'[p] # Long, p \notin wiped', stop'[p] # "deleting"
               PROVE  \/ key' # NoKey /\ landed'[p] <= key'.at
                      \/ clock' - landed'[p] >= Ttl
    BY <1>1 DEF Kept, Tick
  <2>1. /\ clock \in Nat /\ clock' = clock + 1 /\ stop' = stop
        /\ landed'[p] = Lately(landed[p]) /\ landed[p] \in {Long} \cup 0 .. clock
    BY <1>1 DEF Types, Tick, procVars
  <2>2. landed'[p] = landed[p] /\ clock + 1 - landed[p] < Ttl /\ landed[p] \in 0 .. clock
    BY <2>1 DEF Lately
  <2>3. p \notin wiped
    BY <1>1, <2>2 DEF Tick, Types
  <2>4. key # NoKey /\ landed[p] <= key.at
    BY <2>1, <2>2, <2>3 DEF Kept, Types
  <2>5. key.at \in 0 .. clock /\ key.until \in Int /\ key.at + Ttl <= key.until
    BY <2>4 DEF Types
  <2>6. key' = key
    BY <1>1, <2>1, <2>2, <2>4, <2>5 DEF Tick
  <2> QED
    BY <2>2, <2>4, <2>6
<1>2. CASE RedisGoes \/ RedisReturns \/ UNCHANGED vars
  BY <1>2 DEF Kept, RedisGoes, RedisReturns, vars, procVars, seen
<1>3. ASSUME NEW p \in Procs, Step(p) PROVE Kept'
  <2>1. CASE Land(p)
    <3> DEFINE c == Head(commands[p])
    <3>1. /\ c.cmd = "set" => c.at \in 0 .. clock
          /\ c.cmd = "del" => stop[p] = "deleting"
          /\ c.cmd \in {"set", "del"}
      BY <2>1, TailOfCommands DEF Types, Connections, Land, Cmds
    <3>2. clock' = clock /\ stop' = stop
      BY <2>1 DEF Land
    <3>3. CASE c.cmd = "set"
      <4>1. /\ key' = [at |-> c.at, until |-> clock + Ttl] /\ key' # NoKey
            /\ landed' = [landed EXCEPT ![p] = c.at]
            /\ wiped' = (wiped \cup {q \in Procs : landed[q] > c.at}) \ {p}
        BY <2>1, <3>1, <3>3 DEF Land, NoKey, Off
      <4> HIDE DEF c
      <4>2. ASSUME NEW q \in Procs, q \notin wiped' PROVE landed'[q] <= key'.at
        <5>1. CASE q = p
          BY <3>1, <3>3, <4>1, <5>1 DEF Types
        <5>2. CASE q # p
          <6>1. landed'[q] = landed[q] /\ ~(landed[q] > c.at) /\ landed[q] \in Int
            BY <4>1, <4>2, <5>2 DEF Types, Long
          <6> QED
            BY <3>1, <3>3, <4>1, <6>1
        <5> QED
          BY <5>1, <5>2
      <4> QED
        BY <4>1, <4>2 DEF Kept
    <3>4. CASE c.cmd # "set"
      <4>1. landed' = landed /\ wiped' = {q \in Procs \ {p} : landed[q] # Long} /\ stop[p] = "deleting"
        BY <2>1, <3>1, <3>4 DEF Land
      <4> QED
        BY <3>2, <4>1 DEF Kept
    <3> QED
      BY <3>3, <3>4
  <2>2. CASE Fails(p) \/ Exit(p)
    BY <2>2 DEF Kept, Types, Fails, Exit, Ends
  <2>3. CASE Start(p) \/ LoadSenders(p) \/ Reconciled(p) \/ Beat(p)
            \/ PassStarts(p) \/ PassEnds(p) \/ TakeJob(p) \/ JobEnds(p)
    BY <2>3 DEF Kept, Start, LoadSenders, Reconciled, Beat, PassStarts, PassEnds, TakeJob, JobEnds, seen
  <2>4. CASE Signal(p) \/ Closed(p)
    <3>1. UNCHANGED <<clock, key, landed, wiped>>
      BY <2>4 DEF Signal, Closed, seen
    <3>2. \A q \in Procs : stop'[q] # "deleting" => stop[q] # "deleting"
      BY <2>4 DEF Signal, Closed, Types
    <3> QED
      BY <3>1, <3>2 DEF Kept
  <2> QED
    BY <1>3, <2>1, <2>2, <2>3, <2>4 DEF Step
<1> QED
  BY <1>1, <1>2, <1>3 DEF Next

\* /health calls a worker stale that has sent a heartbeat within ninety seconds
\* only for the reasons named in StaleMeansSilent: checkWorker reads the key,
\* which other processes delete or write late.
THEOREM StaleIsExplained == Spec => []StaleMeansSilent
<1>1. Init => Kept
  BY DEF Init, Kept
<1>2. LifeInv /\ Kept => StaleMeansSilent
  <2> SUFFICES ASSUME LifeInv, Kept, NEW p \in Procs, Alive(p), redisUp,
                      clock - landed[p] < Ttl, ~CheckWorker,
                      p \notin wiped, stop[p] # "deleting"
               PROVE  FALSE
    BY DEF StaleMeansSilent
  <2>1. clock \in Nat /\ landed[p] \in {Long} \cup 0 .. clock
    BY DEF LifeInv, Types
  <2>2. landed[p] # Long
    BY <2>1, Bounds DEF Long
  <2>3. key # NoKey /\ landed[p] <= key.at
    BY <2>1, <2>2, Bounds DEF Kept
  <2>4. key.at \in 0 .. clock
    BY <2>3 DEF LifeInv, Types
  <2> QED
    BY <2>1, <2>2, <2>3, <2>4, Bounds DEF CheckWorker
<1> QED
  BY LifeAlways, KeptStep, <1>1, <1>2, PTL DEF Spec

----------------------------------------------------------------------------
(* How a process stops *)

\* What shutdown has turned off stays off, and its workers end their jobs before
\* the DEL, in a process that had started up.
OrderlyStop ==
    \A p \in Procs \ early : stop[p] \in {"closing", "deleting"} =>
        /\ main[p] = "done" /\ beat[p] = Off
        /\ ~sweep[p] /\ ~open[p]
        /\ stop[p] = "deleting" => ~active[p]

LEMMA OrderlyStep == LifeInv /\ OrderlyStop /\ [Next]_vars => OrderlyStop'
<1> SUFFICES ASSUME LifeInv, OrderlyStop, [Next]_vars PROVE OrderlyStop'
  OBVIOUS
<1> USE DEF LifeInv
<1>1. CASE Tick \/ RedisGoes \/ RedisReturns \/ UNCHANGED vars
  BY <1>1 DEF OrderlyStop, Tick, RedisGoes, RedisReturns, vars, procVars, seen
<1>2. ASSUME NEW p \in Procs, Step(p) PROVE OrderlyStop'
  <2>1. CASE Start(p) \/ LoadSenders(p) \/ Reconciled(p) \/ Beat(p)
    <3>1. stop' = stop /\ early' = early /\ open'[p] \in BOOLEAN
      BY <2>1 DEF Start, LoadSenders, Reconciled, Beat, seen, Types
    <3>2. p \in early \/ stop[p] \notin {"closing", "deleting"}
      BY <2>1 DEF Start, LoadSenders, Reconciled, Beat, OrderlyStop
    <3>3. \A q \in Procs \ {p} : /\ main'[q] = main[q] /\ beat'[q] = beat[q]
                                 /\ sweep'[q] = sweep[q] /\ open'[q] = open[q]
                                 /\ active'[q] = active[q]
      BY <2>1 DEF Start, LoadSenders, Reconciled, Beat, Types
    <3> QED
      BY <3>1, <3>2, <3>3 DEF OrderlyStop
  <2>2. CASE TakeJob(p)
    BY <2>2 DEF TakeJob, OrderlyStop, Types, seen
  <2>3. CASE JobEnds(p)
    BY <2>3 DEF JobEnds, OrderlyStop, Types, seen
  <2>8. CASE PassStarts(p) \/ PassEnds(p)
    BY <2>8 DEF PassStarts, PassEnds, OrderlyStop, seen
  <2>4. CASE Signal(p)
    <3>1. \A q \in Procs \ {p} : /\ stop'[q] = stop[q] /\ main'[q] = main[q] /\ beat'[q] = beat[q]
                                 /\ sweep'[q] = sweep[q] /\ open'[q] = open[q]
                                 /\ active'[q] = active[q] /\ (q \in early => q \in early')
      BY <2>4 DEF Signal, Types
    <3>2. /\ stop'[p] = "closing" /\ main'[p] = main[p] /\ beat'[p] = Off
          /\ ~sweep'[p] /\ ~open'[p] /\ (p \notin early' => main[p] = "done")
      BY <2>4 DEF Signal, Types
    <3> QED
      BY <3>1, <3>2 DEF OrderlyStop
  <2>5. CASE Closed(p)
    BY <2>5 DEF Closed, OrderlyStop, Types, Stops, seen
  <2>6. CASE Fails(p) \/ Exit(p)
    <3>1. /\ stop'[p] = "gone"
          /\ \A q \in Procs \ {p} : /\ stop'[q] = stop[q] /\ main'[q] = main[q] /\ beat'[q] = beat[q]
                                    /\ sweep'[q] = sweep[q] /\ open'[q] = open[q]
                                    /\ active'[q] = active[q] /\ (q \in early => q \in early')
      BY <2>6 DEF Fails, Exit, Ends, Types
    <3> QED
      BY <3>1 DEF OrderlyStop
  <2>7. CASE Land(p)
    BY <2>7 DEF Land, OrderlyStop
  <2> QED
    BY <1>2, <2>1, <2>2, <2>3, <2>4, <2>5, <2>6, <2>7, <2>8 DEF Step
<1> QED
  BY <1>1, <1>2 DEF Next

LEMMA OrderlyInit == Init => OrderlyStop
  BY DEF Init, OrderlyStop

\* From its signal on a worker process starts no pass of the reconciliation and does
\* not exit with a job in hand, unless the signal came while main was still starting
\* up.  Nothing keeps it from exiting while a pass is under way.
THEOREM ShutdownIsOrderly == Spec => JobsEndFirst
<1>1. LifeInv /\ OrderlyStop /\ [Next]_vars
      => [\A p \in Procs \ early : /\ Exit(p) => ~active[p]
                                   /\ PassStarts(p) => stop[p] = "no"]_vars
  BY DEF OrderlyStop, Exit, PassStarts, Alive, LifeInv, Types, Stops
<1> QED
  BY LifeAlways, OrderlyStep, OrderlyInit, <1>1, PTL DEF Spec, JobsEndFirst

LEMMA CommandsTyped ==
    ASSUME Types, NEW p \in Procs
    PROVE  commands[p] \in Seq(Cmds) /\ Set(clock) \in Cmds /\ Del \in Cmds /\ Del.cmd = "del"
<1>1. commands[p] \in Seq(Cmds)
  BY DEF Types
<1>2. Set(clock) \in Cmds
  BY Bounds DEF Types, Set, Cmds, Off
<1>3. Del \in Cmds /\ Del.cmd = "del"
  BY Bounds DEF Del, Cmds, Off
<1> QED
  BY <1>1, <1>2, <1>3

\* What a shutdown has still to wait for: the close of the workers with the DEL
\* that follows it, the job in hand, and the replies to the commands sent.
StepsLeft(p) ==
    (IF stop[p] = "closing" THEN 2 ELSE 0) + (IF active[p] THEN 1 ELSE 0) + Len(commands[p])

\* Nothing that happens gives a shutdown more to wait for, and each step of its
\* own leaves less: no heartbeat or job of the process joins the queue.
StopShrinks ==
    [][\A p \in Procs \ early : stop[p] \in {"closing", "deleting"} =>
         \/ stop'[p] = "gone"
         \/ /\ StepsLeft(p)' <= StepsLeft(p)
            /\ ShutdownGoesOn(p) => StepsLeft(p)' < StepsLeft(p)]_vars

\* What one process does to what another's shutdown waits for: nothing.
LEMMA OthersWait ==
    ASSUME NEW p \in Procs, NEW q \in Procs \ {p}, Step(q), Types
    PROVE  stop'[p] = stop[p] /\ active'[p] = active[p] /\ commands'[p] = commands[p]
BY DEF Types, Step, Start, LoadSenders, Reconciled, Fails, Ends, Beat, PassStarts, PassEnds,
       TakeJob, JobEnds, Signal, Closed, Exit, Land

\* The steps of a process that is shutting down.
LEMMA OwnStepsShrink ==
    ASSUME LifeInv, OrderlyStop, NEW p \in Procs \ early, stop[p] \in {"closing", "deleting"}, Step(p),
           ~PassEnds(p)
    PROVE  stop'[p] = "gone" \/ StepsLeft(p)' < StepsLeft(p)
<1> USE DEF LifeInv, Types, StepsLeft
<1>1. main[p] = "done" /\ beat[p] = Off /\ ~sweep[p] /\ ~open[p] /\ (stop[p] = "deleting" => ~active[p])
  BY DEF OrderlyStop
<1>2. commands[p] \in Seq(Cmds) /\ Len(commands[p]) \in Nat /\ Del \in Cmds
  BY CommandsTyped
<1>3. ~Start(p) /\ ~LoadSenders(p) /\ ~Reconciled(p) /\ ~Beat(p) /\ ~TakeJob(p) /\ ~Signal(p) /\ ~PassStarts(p)
  BY <1>1 DEF Start, LoadSenders, Reconciled, Beat, PassStarts, TakeJob, Signal
<1>4. CASE Fails(p) \/ Exit(p)
  BY <1>4 DEF Fails, Exit, Ends
<1>5. CASE JobEnds(p)
  BY <1>2, <1>5 DEF JobEnds
<1>6. CASE Closed(p)
  <2>1. stop[p] = "closing" /\ stop'[p] = "deleting" /\ ~active[p] /\ active' = active
    BY <1>1, <1>6 DEF Closed
  <2>2. commands'[p] = Append(commands[p], Del) /\ Len(commands'[p]) = Len(commands[p]) + 1
    BY <1>2, <1>6, AppendCommand DEF Closed
  <2> QED
    BY <1>2, <2>1, <2>2
<1>7. CASE Land(p)
  <2>1. commands[p] # <<>> /\ commands'[p] = Tail(commands[p]) /\ stop' = stop /\ active' = active
    BY <1>7 DEF Land
  <2>2. Len(commands'[p]) = Len(commands[p]) - 1
    BY <1>2, <2>1, TailOfCommands
  <2> QED
    BY <1>2, <2>1, <2>2
<1> QED
  BY <1>3, <1>4, <1>5, <1>6, <1>7 DEF Step

\* The argument behind StopEnds, without its fairness: what a shutdown waits for
\* runs out, unless its signal came while main was still starting up.
THEOREM ShutdownRunsOut == Spec => StopShrinks
<1>1. LifeInv /\ OrderlyStop /\ [Next]_vars
      => [\A p \in Procs \ early : stop[p] \in {"closing", "deleting"} =>
            \/ stop'[p] = "gone"
            \/ /\ StepsLeft(p)' <= StepsLeft(p)
               /\ ShutdownGoesOn(p) => StepsLeft(p)' < StepsLeft(p)]_vars
  <2> SUFFICES ASSUME LifeInv, OrderlyStop, Next, NEW p \in Procs \ early, stop[p] \in {"closing", "deleting"}
               PROVE  \/ stop'[p] = "gone"
                      \/ /\ StepsLeft(p)' <= StepsLeft(p)
                         /\ ShutdownGoesOn(p) => StepsLeft(p)' < StepsLeft(p)
    OBVIOUS
  <2>1. StepsLeft(p) \in Nat
    <3>1. p \in Procs /\ commands[p] \in Seq(Cmds)
      BY CommandsTyped DEF LifeInv
    <3>2. Len(commands[p]) \in Nat
      BY <3>1
    <3> QED
      BY <3>2 DEF StepsLeft, LifeInv, Types
  <2>2. ShutdownGoesOn(p) => Step(p)
    BY DEF ShutdownGoesOn, Step
  <2>5. CASE PassEnds(p)
    <3>1. pass'[p] # pass[p] /\ UNCHANGED <<stop, active, commands>>
      BY <2>5 DEF PassEnds, LifeInv, Types
    <3>2. StepsLeft(p)' = StepsLeft(p)
      BY <3>1 DEF StepsLeft
    <3>3. ShutdownGoesOn(p) => Exit(p)
      BY <3>1 DEF ShutdownGoesOn, JobEnds, Land, Closed
    <3>4. Exit(p) => stop'[p] = "gone"
      BY DEF Exit, Ends, LifeInv, Types
    <3> QED
      BY <2>1, <3>2, <3>3, <3>4
  <2>3. CASE Step(p) /\ ~PassEnds(p)
    <3>1. stop'[p] = "gone" \/ StepsLeft(p)' < StepsLeft(p)
      BY <2>3, OwnStepsShrink
    <3>2. StepsLeft(p)' < StepsLeft(p) => StepsLeft(p)' <= StepsLeft(p)
      <4>1. Types' /\ p \in Procs /\ commands'[p] \in Seq(Cmds)
        BY TypesStep DEF Types
      <4>2. Len(commands'[p]) \in Nat
        BY <4>1
      <4>3. StepsLeft(p)' \in Nat
        BY <4>1, <4>2 DEF StepsLeft, Types
      <4> QED
        BY <2>1, <4>3
    <3> QED
      BY <3>1, <3>2
  <2>4. CASE ~Step(p)
    <3>1. stop'[p] = stop[p] /\ active'[p] = active[p] /\ commands'[p] = commands[p]
      <4>1. CASE Tick \/ RedisGoes \/ RedisReturns
        BY <4>1 DEF Tick, RedisGoes, RedisReturns, procVars
      <4>2. ASSUME NEW q \in Procs, Step(q)  PROVE stop'[p] = stop[p] /\ active'[p] = active[p] /\ commands'[p] = commands[p]
        BY <2>4, <4>2, OthersWait DEF LifeInv
      <4> QED
        BY <4>1, <4>2 DEF Next
    <3>2. StepsLeft(p)' = StepsLeft(p)
      BY <3>1 DEF StepsLeft
    <3> QED
      BY <2>1, <2>2, <2>4, <3>2
  <2> QED
    BY <2>3, <2>4, <2>5
<1> QED
  BY LifeAlways, OrderlyStep, OrderlyInit, <1>1, PTL DEF Spec, StopShrinks

\* The DEL is the last command of a process that had started up.
DelIsLast ==
    \A p \in Procs \ early : stop[p] = "deleting" /\ commands[p] # <<>> =>
        commands[p][Len(commands[p])].cmd = "del"

\* A key that is there belongs to a process that has still to delete it or that
\* may leave it behind, or was written before such a process ended.
WillDelete(p) ==
    Alive(p) /\ (stop[p] # "deleting" \/ p \in early \/ commands[p] # <<>>)
Accounted ==
    key # NoKey => \/ \E p \in Procs : WillDelete(p)
                   \/ key.at <= unclean
                   \/ clock - key.at >= Ttl

LEMMA DelStep == LifeInv /\ OrderlyStop /\ DelIsLast /\ [Next]_vars => DelIsLast'
<1> SUFFICES ASSUME LifeInv, OrderlyStop, DelIsLast, [Next]_vars PROVE DelIsLast'
  OBVIOUS
<1> USE DEF LifeInv
<1>1. CASE Tick \/ RedisGoes \/ RedisReturns \/ UNCHANGED vars
  BY <1>1 DEF DelIsLast, Tick, RedisGoes, RedisReturns, vars, procVars, seen
<1>2. ASSUME NEW p \in Procs, Step(p) PROVE DelIsLast'
  <2>1. CASE LoadSenders(p) \/ Beat(p)
    <3>1. p \in early \/ stop[p] # "deleting"
      BY <2>1 DEF LoadSenders, Beat, OrderlyStop
    <3>2. /\ stop' = stop /\ early' = early
          /\ \A q \in Procs \ {p} : commands'[q] = commands[q]
      BY <2>1 DEF LoadSenders, Beat, seen, Types
    <3> QED
      BY <3>1, <3>2 DEF DelIsLast
  <2>2. CASE Closed(p)
    <3>1. /\ commands' = [commands EXCEPT ![p] = Append(@, Del)] /\ early' = early
          /\ stop' = [stop EXCEPT ![p] = "deleting"]
      BY <2>2 DEF Closed, seen
    <3>2. commands[p] \in Seq(Cmds) /\ Del \in Cmds /\ Del.cmd = "del"
      BY CommandsTyped
    <3>3. commands'[p][Len(commands'[p])] = Del
      BY <3>1, <3>2 DEF Types
    <3> QED
      BY <3>1, <3>2, <3>3 DEF DelIsLast, Types
  <2>3. CASE Land(p)
    <3>1. /\ commands' = [commands EXCEPT ![p] = Tail(@)] /\ commands[p] # <<>>
          /\ early' = early /\ stop' = stop
      BY <2>3 DEF Land
    <3>2. commands[p] \in Seq(Cmds) /\ commands'[p] = Tail(commands[p])
      BY <3>1 DEF Types
    <3>3. commands'[p] # <<>> => commands'[p][Len(commands'[p])] = commands[p][Len(commands[p])]
      BY <3>1, <3>2
    <3> QED
      BY <3>1, <3>3 DEF DelIsLast, Types
  <2>4. CASE Fails(p) \/ Exit(p)
    <3>1. /\ commands'[p] = <<>>
          /\ \A q \in Procs \ {p} : /\ commands'[q] = commands[q] /\ stop'[q] = stop[q]
                                    /\ q \in early => q \in early'
      BY <2>4 DEF Fails, Exit, Ends, Types
    <3> QED
      BY <3>1 DEF DelIsLast
  <2>5. CASE Start(p) \/ Reconciled(p) \/ PassStarts(p) \/ PassEnds(p) \/ TakeJob(p) \/ JobEnds(p)
    BY <2>5 DEF Start, Reconciled, PassStarts, PassEnds, TakeJob, JobEnds, seen, DelIsLast
  <2>6. CASE Signal(p)
    BY <2>6 DEF Signal, DelIsLast, Types
  <2> QED
    BY <1>2, <2>1, <2>2, <2>3, <2>4, <2>5, <2>6 DEF Step
<1> QED
  BY <1>1, <1>2 DEF Next

LEMMA AccountedStep == LifeInv /\ DelIsLast /\ Accounted /\ [Next]_vars => Accounted'
<1> SUFFICES ASSUME LifeInv, DelIsLast, Accounted, [Next]_vars PROVE Accounted'
  OBVIOUS
<1> USE Bounds DEF LifeInv
<1>1. CASE Tick
  <2> SUFFICES ASSUME key' # NoKey PROVE Accounted'
    BY DEF Accounted
  <2>1. key' = key /\ clock' = clock + 1 /\ unclean' = Lately(unclean)
    BY <1>1 DEF Tick
  <2>2. /\ key.at \in 0 .. clock /\ clock \in Nat /\ unclean \in {Long} \cup 0 .. clock
    BY <2>1 DEF Types
  <2>3. ASSUME NEW p \in Procs, WillDelete(p) PROVE WillDelete(p)'
    BY <1>1, <2>3 DEF WillDelete, Alive, Tick, procVars
  <2>4. CASE key.at <= unclean
    BY <2>1, <2>2, <2>4 DEF Lately, Accounted, Long
  <2>5. CASE clock - key.at >= Ttl
    BY <2>1, <2>2, <2>5 DEF Accounted
  <2> QED
    BY <2>1, <2>3, <2>4, <2>5 DEF Accounted
<1>2. CASE RedisGoes \/ RedisReturns \/ UNCHANGED vars
  BY <1>2 DEF Accounted, WillDelete, Alive, RedisGoes, RedisReturns, vars, procVars, seen
<1>3. ASSUME NEW p \in Procs, Step(p) PROVE Accounted'
  <2>1. CASE Land(p)
    <3> DEFINE c == Head(commands[p])
    <3>1. CASE c.cmd = "set"
      <4>1. Alive(p)' /\ stop' = stop /\ early' = early
        BY <2>1 DEF Land, Alive
      <4>2. commands[p] \in Seq(Cmds) /\ commands[p] # <<>> /\ commands'[p] = Tail(commands[p])
        BY <2>1 DEF Land, Types
      <4>3. commands'[p] = <<>> => Len(commands[p]) = 1 /\ c = commands[p][1]
        <5>1. Len(Tail(commands[p])) = Len(commands[p]) - 1 /\ c = commands[p][1]
              /\ Len(commands[p]) \in Nat
          BY <4>2, TailOfCommands
        <5>2. Len(<< >>) = 0
          OBVIOUS
        <5>3. commands'[p] = <<>> => Len(Tail(commands[p])) = 0
          BY <4>2, <5>2, Zenon
        <5> QED
          BY <5>1, <5>3
      <4>4. stop[p] = "deleting" /\ p \notin early => commands'[p] # <<>>
        BY <3>1, <4>2, <4>3 DEF DelIsLast
      <4> QED
        BY <4>1, <4>4 DEF Accounted, WillDelete
    <3>2. CASE c.cmd # "set"
      BY <2>1, <3>2 DEF Land, Accounted
    <3> QED
      BY <3>1, <3>2
  <2>2. CASE Fails(p)
    BY <2>2 DEF Fails, Ends, Accounted, Types
  <2>3. CASE Exit(p)
    <3>1. CASE p \in early
      BY <2>3, <3>1 DEF Exit, Ends, Accounted, Types
    <3>2. CASE p \notin early
      <4>1. ~WillDelete(p) /\ UNCHANGED <<key, clock, unclean>>
        BY <2>3, <3>2 DEF Exit, Ends, WillDelete
      <4>2. \A q \in Procs : WillDelete(q) => WillDelete(q)'
        BY <2>3, <4>1 DEF Exit, Ends, WillDelete, Alive, Types
      <4> QED
        BY <4>1, <4>2 DEF Accounted
    <3> QED
      BY <3>1, <3>2
  <2>4. CASE Start(p) \/ Reconciled(p) \/ PassStarts(p) \/ PassEnds(p) \/ TakeJob(p) \/ JobEnds(p) \/ Signal(p)
    <3>1. UNCHANGED <<key, clock, unclean, commands>>
      BY <2>4 DEF Start, Reconciled, PassStarts, PassEnds, TakeJob, JobEnds, Signal, seen
    <3>2. \A q \in Procs : WillDelete(q) => WillDelete(q)'
      BY <2>4 DEF Start, Reconciled, PassStarts, PassEnds, TakeJob, JobEnds, Signal, seen, WillDelete, Alive, Types
    <3> QED
      BY <3>1, <3>2 DEF Accounted
  <2>5. CASE LoadSenders(p) \/ Beat(p) \/ Closed(p)
    <3>1. UNCHANGED <<key, clock, unclean, early>>
      BY <2>5 DEF LoadSenders, Beat, Closed, seen
    <3>2. commands'[p] # <<>> /\ \A q \in Procs \ {p} : commands'[q] = commands[q]
      <4>1. Set(clock) \in Cmds /\ Del \in Cmds /\ commands[p] \in Seq(Cmds)
        BY CommandsTyped
      <4>2. Append(commands[p], Set(clock)) # <<>> /\ Append(commands[p], Del) # <<>>
        BY <4>1
      <4> QED
        BY <2>5, <4>2 DEF LoadSenders, Beat, Closed, Types
    <3>3. \A q \in Procs : WillDelete(q) => WillDelete(q)'
      BY <2>5, <3>1, <3>2 DEF LoadSenders, Beat, Closed, seen, WillDelete, Alive, Types
    <3> QED
      BY <3>1, <3>3 DEF Accounted
  <2> QED
    BY <1>3, <2>1, <2>2, <2>3, <2>4, <2>5 DEF Step
<1> QED
  BY <1>1, <1>2, <1>3 DEF Next

\* /health calls the worker ok although no worker process is left only for as long
\* as a process that died, or that was stopped while it started up, may leave its
\* heartbeat behind: every other shutdown deletes the key.
THEOREM OkIsExplained == Spec => []OkMeansRunning
<1>1. Init => DelIsLast /\ Accounted
  BY DEF Init, DelIsLast, Accounted
<1>2. LifeInv /\ Accounted => OkMeansRunning
  <2> SUFFICES ASSUME LifeInv, Accounted, CheckWorker, \A p \in Procs : ~Alive(p)
               PROVE  clock - unclean < Ttl
    BY DEF OkMeansRunning
  <2>1. key # NoKey /\ clock - key.at < Ttl
    BY DEF CheckWorker
  <2>2. key.at \in 0 .. clock /\ clock \in Nat /\ unclean \in {Long} \cup 0 .. clock
    BY <2>1 DEF LifeInv, Types
  <2>3. key.at <= unclean
    BY <2>1, <2>2, Bounds DEF Accounted, WillDelete
  <2> QED
    BY <2>1, <2>2, <2>3, Bounds DEF Long
<1> QED
  BY LifeAlways, OrderlyStep, OrderlyInit, DelStep, AccountedStep, <1>1, <1>2, PTL DEF Spec
============================================================================
