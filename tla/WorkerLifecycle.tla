--------------------------- MODULE WorkerLifecycle -------------------------
(***************************************************************************)
(* The worker processes from start to exit (workers/emailWorker.ts below   *)
(* createWorker, the sweep timer of reconcileService.ts), the heartbeat    *)
(* key they share in Redis, and what /health (routes/health.ts) makes of   *)
(* it.  main and shutdown of a process interleave at their awaits.  Time   *)
(* is counted in heartbeat intervals of thirty seconds.  The commands of a *)
(* process go through its one connection in order, and wait in it while    *)
(* Redis is away.                                                          *)
(***************************************************************************)
EXTENDS Integers, Sequences, FiniteSets

CONSTANTS
    Procs,    \* worker processes; bound: each is started, and told to stop, once
    Ttl,      \* 90 s: the expiry of the key, and the age /health accepts
    Horizon,  \* bound: the clock stops here
    MaxQueue, \* bound: commands waiting in a connection
    MaxAways  \* bound: how often Redis goes away

ASSUME LifecycleAssumption == {Ttl, Horizon, MaxQueue, MaxAways} \subseteq Nat \ {0}

VARIABLES
    clock,
    redisUp,   \* Redis can be reached
    aways,     \* how often it could not
    key,       \* worker:heartbeat: when its writer read the clock, and its expiry
    main,      \* where main of each process is
    stop,      \* where its shutdown is
    beat,      \* when the heartbeat timer is due next, or Off
    sweep,     \* the sweep timer is set
    pass,      \* a pass that the sweep timer started is under way; another that
               \* starts before it ends makes no difference here
    open,      \* its workers take jobs
    active,    \* a job is being processed
    commands,  \* the connection's commands without a reply
    early,     \* (history) processes signalled before main had set the timers
    landed,    \* (history) the last heartbeat of each that has reached Redis
    wiped,     \* (history) processes whose last heartbeat another process has
               \* deleted, or overwritten with an older one
    unclean    \* (history) when a process has ended otherwise than by a shutdown

procVars == <<main, stop, beat, sweep, pass, open, active, commands>>
seen == <<early, landed, wiped, unclean>>
vars == <<clock, redisUp, aways, key, procVars, seen>>

Off == -1
NoKey == [at |-> Off, until |-> Off]
Long == -Ttl \* longer ago than /health looks back

Set(at) == [cmd |-> "set", at |-> at]
Del == [cmd |-> "del", at |-> Off]

Alive(p) == main[p] # "off" /\ stop[p] # "gone"

TypeOK ==
    /\ clock \in 0 .. Horizon /\ redisUp \in BOOLEAN /\ aways \in 0 .. MaxAways
    /\ key \in [at : Off .. Horizon, until : Off .. Horizon + Ttl]
    /\ main \in [Procs -> {"off", "loading", "reconciling", "done"}]
    /\ stop \in [Procs -> {"no", "closing", "deleting", "gone"}]
    /\ beat \in [Procs -> Off .. Horizon + 1]
    /\ {sweep, pass, open, active} \subseteq [Procs -> BOOLEAN]
    /\ commands \in [Procs -> Seq([cmd : {"set", "del"}, at : Off .. Horizon])]
    /\ \A p \in Procs : Len(commands[p]) <= MaxQueue + 2
    /\ {early, wiped} \subseteq SUBSET Procs
    /\ landed \in [Procs -> {Long} \cup 0 .. Horizon]
    /\ unclean \in {Long} \cup 0 .. Horizon

Init ==
    /\ clock = 0 /\ redisUp = TRUE /\ aways = 0 /\ key = NoKey
    /\ main = [p \in Procs |-> "off"] /\ stop = [p \in Procs |-> "no"]
    /\ beat = [p \in Procs |-> Off]
    /\ sweep = [p \in Procs |-> FALSE] /\ pass = [p \in Procs |-> FALSE]
    /\ open = [p \in Procs |-> FALSE] /\ active = [p \in Procs |-> FALSE]
    /\ commands = [p \in Procs |-> <<>>]
    /\ early = {} /\ landed = [p \in Procs |-> Long] /\ wiped = {} /\ unclean = Long

----------------------------------------------------------------------------
(* The clock, Redis, and /health *)

\* What is remembered of a time, one tick later.
Lately(time) == IF clock + 1 - time < Ttl THEN time ELSE Long

\* Expiry is by the clock of Redis, at the moment it comes to pass.
Tick ==
    /\ clock < Horizon /\ clock' = clock + 1
    /\ key' = IF key.until <= clock' THEN NoKey ELSE key
    /\ landed' = [p \in Procs |-> Lately(landed[p])] /\ unclean' = Lately(unclean)
    /\ wiped' = {p \in wiped : landed'[p] # Long}
    /\ UNCHANGED <<redisUp, aways, procVars, early>>

RedisGoes ==
    /\ redisUp /\ aways < MaxAways
    /\ redisUp' = FALSE /\ aways' = aways + 1
    /\ UNCHANGED <<clock, key, procVars, seen>>

RedisReturns ==
    /\ ~redisUp /\ redisUp' = TRUE
    /\ UNCHANGED <<clock, aways, key, procVars, seen>>

\* checkWorker: the key exists and its writer's clock was read lately.
CheckWorker == redisUp /\ key # NoKey /\ clock - key.at < Ttl

\* Mutant of Land: the key expires after one interval.
LandBriefly(p) ==
    /\ redisUp /\ Alive(p) /\ commands[p] # <<>>
    /\ commands' = [commands EXCEPT ![p] = Tail(@)]
    /\ LET c == Head(commands[p]) IN
       IF c.cmd = "set"
       THEN /\ key' = [at |-> c.at, until |-> clock + 1]
            /\ landed' = [landed EXCEPT ![p] = c.at]
            /\ wiped' = (wiped \cup {q \in Procs : landed[q] > c.at}) \ {p}
       ELSE /\ key' = NoKey
            /\ wiped' = {q \in Procs \ {p} : landed[q] # Long} /\ UNCHANGED landed
    /\ UNCHANGED <<clock, redisUp, aways, main, stop, beat, sweep, pass, open, active, early, unclean>>

\* The next command of a connection takes effect and is answered.
Land(p) ==
    /\ redisUp /\ Alive(p) /\ commands[p] # <<>>
    /\ commands' = [commands EXCEPT ![p] = Tail(@)]
    /\ LET c == Head(commands[p]) IN
       IF c.cmd = "set"
       THEN /\ key' = [at |-> c.at, until |-> clock + Ttl]
            /\ landed' = [landed EXCEPT ![p] = c.at]
            /\ wiped' = (wiped \cup {q \in Procs : landed[q] > c.at}) \ {p}
       ELSE /\ key' = NoKey
            /\ wiped' = {q \in Procs \ {p} : landed[q] # Long} /\ UNCHANGED landed
    /\ UNCHANGED <<clock, redisUp, aways, main, stop, beat, sweep, pass, open, active, early, unclean>>

----------------------------------------------------------------------------
(* main *)

Start(p) ==
    /\ main[p] = "off"
    /\ main' = [main EXCEPT ![p] = "loading"]
    /\ UNCHANGED <<clock, redisUp, aways, key, stop, beat, sweep, pass, open, active, commands, seen>>

\* The senders are read: their workers open, the heartbeat starts at once, and
\* the start-up reconciliation is under way.  A shutdown that began meanwhile
\* does not stop any of it.
LoadSenders(p) ==
    /\ Alive(p) /\ main[p] = "loading"
    /\ main' = [main EXCEPT ![p] = "reconciling"]
    /\ open' = [open EXCEPT ![p] = TRUE]
    /\ commands' = [commands EXCEPT ![p] = Append(@, Set(clock))]
    /\ beat' = [beat EXCEPT ![p] = clock + 1]
    /\ UNCHANGED <<clock, redisUp, aways, key, stop, sweep, pass, active, seen>>

\* runReconciliation has ended: startReconciliationSweep.
Reconciled(p) ==
    /\ Alive(p) /\ main[p] = "reconciling"
    /\ main' = [main EXCEPT ![p] = "done"]
    /\ sweep' = [sweep EXCEPT ![p] = TRUE]
    /\ UNCHANGED <<clock, redisUp, aways, key, stop, beat, pass, open, active, commands, seen>>

\* The process ends here and now, with whatever its workers are doing and any
\* pass of the reconciliation cut off where it is.
Ends(p) ==
    /\ stop' = [stop EXCEPT ![p] = "gone"] /\ main' = [main EXCEPT ![p] = "done"]
    /\ beat' = [beat EXCEPT ![p] = Off] /\ commands' = [commands EXCEPT ![p] = <<>>]
    /\ sweep' = [sweep EXCEPT ![p] = FALSE] /\ pass' = [pass EXCEPT ![p] = FALSE]
    /\ open' = [open EXCEPT ![p] = FALSE] /\ active' = [active EXCEPT ![p] = FALSE]
    /\ landed' = [landed EXCEPT ![p] = Long]
    /\ early' = early \ {p} /\ wiped' = wiped \ {p}
    /\ UNCHANGED <<clock, redisUp, aways, key>>

\* main rejects, there are no senders, or the process is killed.
Fails(p) ==
    /\ Alive(p)
    /\ Ends(p)
    /\ unclean' = clock

----------------------------------------------------------------------------
(* Timers and jobs *)

\* The heartbeat of the timer.
Beat(p) ==
    /\ Alive(p) /\ beat[p] # Off /\ beat[p] <= clock /\ Len(commands[p]) < MaxQueue
    /\ commands' = [commands EXCEPT ![p] = Append(@, Set(clock))]
    /\ beat' = [beat EXCEPT ![p] = clock + 1]
    /\ UNCHANGED <<clock, redisUp, aways, key, main, stop, sweep, pass, open, active, seen>>

\* The sweep timer starts a runReconciliation that nobody awaits.
PassStarts(p) ==
    /\ Alive(p) /\ sweep[p] /\ ~pass[p]
    /\ pass' = [pass EXCEPT ![p] = TRUE]
    /\ UNCHANGED <<clock, redisUp, aways, key, main, stop, beat, sweep, open, active, commands, seen>>

PassEnds(p) ==
    /\ Alive(p) /\ pass[p]
    /\ pass' = [pass EXCEPT ![p] = FALSE]
    /\ UNCHANGED <<clock, redisUp, aways, key, main, stop, beat, sweep, open, active, commands, seen>>

\* Mutant of TakeJob: a worker that is closing takes another job.
TakeJobAlways(p) ==
    /\ Alive(p) /\ main[p] \in {"reconciling", "done"} /\ ~active[p]
    /\ active' = [active EXCEPT ![p] = TRUE]
    /\ UNCHANGED <<clock, redisUp, aways, key, main, stop, beat, sweep, pass, open, commands, seen>>

TakeJob(p) ==
    /\ Alive(p) /\ open[p] /\ ~active[p]
    /\ active' = [active EXCEPT ![p] = TRUE]
    /\ UNCHANGED <<clock, redisUp, aways, key, main, stop, beat, sweep, pass, open, commands, seen>>

JobEnds(p) ==
    /\ Alive(p) /\ active[p]
    /\ active' = [active EXCEPT ![p] = FALSE]
    /\ UNCHANGED <<clock, redisUp, aways, key, main, stop, beat, sweep, pass, open, commands, seen>>

----------------------------------------------------------------------------
(* shutdown *)

\* SIGINT, SIGTERM or an uncaught exception: the timers stop, and the workers
\* there are take no more jobs.  A pass under way goes on.
Signal(p) ==
    /\ Alive(p) /\ stop[p] = "no"
    /\ stop' = [stop EXCEPT ![p] = "closing"]
    /\ sweep' = [sweep EXCEPT ![p] = FALSE] /\ beat' = [beat EXCEPT ![p] = Off]
    /\ open' = [open EXCEPT ![p] = FALSE]
    /\ early' = IF main[p] = "done" THEN early ELSE early \cup {p}
    /\ UNCHANGED <<clock, redisUp, aways, key, main, pass, active, commands, landed, wiped, unclean>>

\* Mutant of Closed: close is not awaited.
ClosedAtOnce(p) ==
    /\ Alive(p) /\ stop[p] = "closing"
    /\ stop' = [stop EXCEPT ![p] = "deleting"]
    /\ commands' = [commands EXCEPT ![p] = Append(@, Del)]
    /\ UNCHANGED <<clock, redisUp, aways, key, main, beat, sweep, pass, open, active, seen>>

\* The workers have closed, their jobs done; workers that main has opened since
\* are not among them.  The DEL is issued.
Closed(p) ==
    /\ Alive(p) /\ stop[p] = "closing" /\ (open[p] \/ ~active[p])
    /\ stop' = [stop EXCEPT ![p] = "deleting"]
    /\ commands' = [commands EXCEPT ![p] = Append(@, Del)]
    /\ UNCHANGED <<clock, redisUp, aways, key, main, beat, sweep, pass, open, active, seen>>

\* Mutant of Exit: the replies are not awaited.
ExitAtOnce(p) ==
    /\ Alive(p) /\ stop[p] = "deleting"
    /\ Ends(p)
    /\ unclean' = IF p \in early THEN clock ELSE unclean

\* The DEL and what came after it before quit are answered.
Exit(p) ==
    /\ Alive(p) /\ stop[p] = "deleting" /\ commands[p] = <<>>
    /\ Ends(p)
    /\ unclean' = IF p \in early THEN clock ELSE unclean

Step(p) ==
    \/ Start(p) \/ LoadSenders(p) \/ Reconciled(p) \/ Fails(p)
    \/ Beat(p) \/ PassStarts(p) \/ PassEnds(p) \/ TakeJob(p) \/ JobEnds(p)
    \/ Signal(p) \/ Closed(p) \/ Exit(p) \/ Land(p)

Next == Tick \/ RedisGoes \/ RedisReturns \/ \E p \in Procs : Step(p)

\* What a shutdown waits for: the jobs of the workers it closes, and Redis.
ShutdownGoesOn(p) ==
    /\ stop[p] # "no"
    /\ (~open[p] /\ JobEnds(p)) \/ Land(p) \/ Closed(p) \/ Exit(p)

\* Jobs end, Redis comes back and answers.
Fairness == WF_vars(RedisReturns) /\ \A p \in Procs : WF_vars(ShutdownGoesOn(p))

Spec == Init /\ [][Next]_vars /\ Fairness

----------------------------------------------------------------------------
(* Properties *)

\* "stale" while a running worker's heartbeat is younger than ninety seconds has
\* one of two reasons besides an unreachable Redis: another process has shut
\* down since and deleted the key that all share, or a heartbeat of another that
\* was held up has put back an older time.
StaleMeansSilent ==
    \A p \in Procs : Alive(p) /\ redisUp /\ clock - landed[p] < Ttl /\ ~CheckWorker =>
        p \in wiped \/ stop[p] = "deleting"

\* "ok" without any worker process left happens only in the ninety seconds
\* after one has died, or was told to stop before it had started up.
OkMeansRunning ==
    CheckWorker /\ (\A p \in Procs : ~Alive(p)) => clock - unclean < Ttl

\* From the signal on a process starts no pass of the reconciliation, and it does
\* not exit before the jobs in its hands have ended, unless the signal came while
\* main was still starting up.  A pass already under way is not waited for.
JobsEndFirst ==
    [][\A p \in Procs \ early : /\ Exit(p) => ~active[p]
                                /\ PassStarts(p) => stop[p] = "no"]_vars

\* A process that is told to stop stops, once its jobs have ended and Redis is
\* back: the DEL waits for Redis without any time limit.  (Each process is told
\* once, so that no shutdown goes on for ever exactly if again and again none is
\* under way.)
StopEnds == []<>(\A p \in Procs : stop[p] \notin {"closing", "deleting"})
============================================================================
