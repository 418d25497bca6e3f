---------------------------- MODULE Scheduler ----------------------------
(***************************************************************************)
(* The in-process scheduler (services/scheduler.py) beside the job runner  *)
(* it must make way for.  One coroutine polls: a pass reads the clock,     *)
(* decides what is due and not paused, leaves the market jobs out while a  *)
(* heavy job runs, takes the requests that came in, and then runs its plan *)
(* one job after the other, each to its end.  API threads request jobs and *)
(* set pauses at any moment; the process may stop at any moment.           *)
(*                                                                         *)
(* Time is a number of poll periods.  What the exchange calendar says of   *)
(* each instant is given by constants.                                     *)
(***************************************************************************)
EXTENDS JobRunner

CONSTANTS
    MaxTime,       \* bound: the last instant
    StockOpen,     \* the instants at which the US market is open
    Settled,       \* Settled[t]: the latest settled session at t
    ForexOpen,     \* the instants at which EUR/USD trades
    ForexClose,    \* ForexClose[t]: the last Friday close at or before t
    TickEvery, FxEvery, CheckEvery, BackupEvery,   \* the intervals
    Never,         \* None, where an instant or a session is expected
    Requested, Pausable,   \* the names API clients send to request_run and set_pause
    MaxRequests, MaxPauses, MaxBoot, \* bounds: how often each of these happens
    Outages        \* bound: the instants at which the settings may fail to be read or written

JOB_NAMES == {"tick", "fx", "eod", "backup"}
Market == JOB_NAMES \ {"backup"}
Time == 0 .. MaxTime
Instant == Time \cup {Never}

ASSUME TimeAssumption ==
    /\ {MaxTime, TickEvery, FxEvery, CheckEvery, BackupEvery} \subseteq Nat
    /\ {MaxRequests, MaxPauses, MaxBoot} \subseteq Nat
    /\ Never \notin Int
ASSUME CalendarAssumption ==
    /\ StockOpen \cup ForexOpen \subseteq Time
    /\ Settled \in [Time -> Nat]
    /\ \A t \in Time : ForexClose[t] \in Int /\ ForexClose[t] <= t

VARIABLES
    clock,      \* the time
    now,        \* the time the coroutine's pass started at
    crossed,    \* whether the pass has crossed the requests it read off the list
    plan,       \* what the pass still runs
    asked,      \* which of it was requested
    active,     \* the job under way, or NoJob
    last,       \* State.last_tick, last_fx, last_fx_ok, last_due_check,
                \* last_eod_session and last_backup
    requested,  \* State.requested
    pauses,     \* _pauses: until when each job is paused
    loaded,     \* _pause_state["loaded"]
    saved,      \* scheduler.pause in app_config
    reading,    \* history: when a live EUR/USD reading last landed
    granted,    \* history: the pauses the API has answered
    sure,       \* history: the jobs no failed read of the settings forgot in memory
    stored,     \* history: the jobs whose pause, as memory had it, was written last
    requests, pausings, boot   \* how often each happened (bounds)

loopVars  == <<now, crossed, plan, asked, active>>
pauseVars == <<pauses, loaded, saved, granted, sure, stored, pausings>>
schedVars == <<clock, loopVars, last, requested, pauseVars, reading, requests, boot>>
vars == <<schedVars, runVars>>

Clocks == {"tick", "fx", "fxOk", "dueCheck", "eod", "backup"}
NoPause == [n \in JOB_NAMES |-> Never]

Init ==
    /\ JobRunnerInit
    /\ clock = 0
    /\ now = 0 /\ crossed = TRUE /\ plan = {} /\ asked = {} /\ active = NoJob
    /\ last = [c \in Clocks |-> Never]
    /\ requested = {}
    /\ pauses = NoPause /\ loaded = FALSE /\ saved = NoPause
    /\ granted = NoPause /\ sure = {} /\ stored = JOB_NAMES
    /\ reading = Never
    /\ requests = 0 /\ pausings = 0 /\ boot = 0

(***************************************************************************)
(* What is due.                                                            *)
(***************************************************************************)
Elapsed(c, t, every) == last[c] = Never \/ t - last[c] >= every

EodDue(t) == t \notin StockOpen /\ last["eod"] # Settled[t]

\* Closed and the day's closes are in: ask now and then whether a price is missing.
Checks(t) == t \notin StockOpen /\ ~ EodDue(t) /\ Elapsed("dueCheck", t, CheckEvery)

TickDue(t, missing) ==
    IF t \in StockOpen THEN Elapsed("tick", t, TickEvery) ELSE Checks(t) /\ missing

\* Over the weekend only a reading that is still missing is fetched.
FxDue(t) ==
    IF t \in ForexOpen THEN Elapsed("fx", t, FxEvery)
    ELSE /\ last["fxOk"] = Never \/ last["fxOk"] < ForexClose[t]
         /\ Elapsed("fx", t, CheckEvery)

Due(t, missing, unsafe) ==
    {n \in JOB_NAMES :
        CASE n = "eod"    -> EodDue(t)
          [] n = "tick"   -> TickDue(t, missing)
          [] n = "fx"     -> ~ EodDue(t) /\ FxDue(t)
          [] n = "backup" -> Elapsed("backup", t, BackupEvery) /\ unsafe}

(***************************************************************************)
(* Pauses.  Every access loads the stored ones first, once per process.    *)
(* Reading and writing the settings may fail (read, wrote); both failures  *)
(* are only logged, and the caller goes on with what memory holds.         *)
(***************************************************************************)
\* Whether an access to the settings succeeds.
Access == IF clock \in Outages THEN BOOLEAN ELSE {TRUE}

\* _load_pauses(): after a failed read the process has no pauses, and does not try again.
Loaded(read) == IF loaded THEN pauses ELSE IF read THEN saved ELSE NoPause
Sure(read) == IF loaded THEN sure ELSE IF read THEN stored ELSE {}

\* MUTANT: a pause is only dropped at the instant it ends.
Unexpired_Exact(P, t) == [n \in JOB_NAMES |-> IF P[n] = t THEN Never ELSE P[n]]

Unexpired(P, t) == [n \in JOB_NAMES |-> IF P[n] = Never \/ P[n] <= t THEN Never ELSE P[n]]

\* paused(): forget the expired ones, and save when there were any.
ReadPauses(t, read, wrote) ==
    /\ loaded' = TRUE
    /\ pauses' = Unexpired(Loaded(read), t)
    /\ sure' = Sure(read)
    /\ IF pauses' # Loaded(read) /\ wrote THEN saved' = pauses' /\ stored' = sure'
       ELSE UNCHANGED <<saved, stored>>

Paused(t, read) == {n \in JOB_NAMES : Unexpired(Loaded(read), t)[n] # Never}

\* snapshot(): the Health & Repair page looks.
Snapshot(read, wrote) ==
    /\ ReadPauses(clock, read, wrote)
    /\ UNCHANGED <<clock, loopVars, last, requested, granted, pausings, reading, requests, boot, runVars>>

\* MUTANT: a pause is kept in memory only.
SetPause_MemoryOnly(n, until, read, wrote, rewrote) ==
    /\ n \in JOB_NAMES
    /\ pausings < MaxPauses /\ pausings' = pausings + 1
    /\ until # Never => clock < until
    /\ loaded' = TRUE
    /\ pauses' = [Loaded(read) EXCEPT ![n] = until]
    /\ sure' = Sure(read) \cup {n}
    /\ stored' = IF wrote THEN sure' ELSE stored \ {n}
    /\ granted' = [granted EXCEPT ![n] = until]
    /\ UNCHANGED <<saved, clock, loopVars, last, requested, reading, requests, boot, runVars>>

\* set_pause(): until = Never resumes the job.  What is over is dropped, and saved once
\* more, when it reads the pauses for its answer; the answer is the same when a save fails.
SetPause(n, until, read, wrote, rewrote) ==
    LET new   == [Loaded(read) EXCEPT ![n] = until]
        again == rewrote /\ Unexpired(new, clock) # new
    IN  /\ n \in JOB_NAMES
        /\ pausings < MaxPauses /\ pausings' = pausings + 1
        /\ until # Never => clock < until
        /\ loaded' = TRUE
        /\ pauses' = Unexpired(new, clock)
        /\ sure' = Sure(read) \cup {n}
        /\ saved' = IF again THEN pauses' ELSE IF wrote THEN new ELSE saved
        /\ stored' = IF again \/ wrote THEN sure' ELSE stored \ {n}
        /\ granted' = [granted EXCEPT ![n] = until]
        /\ UNCHANGED <<clock, loopVars, last, requested, reading, requests, boot, runVars>>

(***************************************************************************)
(* One pass of the coroutine.  Nothing the other threads do between its    *)
(* reading of the clock, of the pauses, of the mutex and of the requests   *)
(* makes a difference it would not make before or after: one step.  The    *)
(* requests it read are crossed off in a second one.                       *)
(***************************************************************************)
\* A heavy maintenance job owns the data; backups still run.
MakeWay(P) == IF heavyJob = NoJob THEN P ELSE P \cap {"backup"}

Decide(missing, unsafe, read, wrote) ==
    /\ plan = {} /\ active = NoJob /\ crossed
    /\ now' = clock
    /\ plan' = MakeWay(Due(clock, missing, unsafe) \ Paused(clock, read))
    /\ asked' = requested
    /\ crossed' = FALSE
    /\ last' = IF Checks(clock) THEN [last EXCEPT !["dueCheck"] = clock] ELSE last
    /\ ReadPauses(clock, read, wrote)
    /\ UNCHANGED <<clock, active, requested, granted, pausings, reading, requests, boot, runVars>>

\* The pass's clock goes with the pass.
NowOf(P) == IF P = {} THEN 0 ELSE now

\* MUTANT: the list is emptied, whatever came in since it was read.
CrossOff_All ==
    /\ ~ crossed
    /\ crossed' = TRUE
    /\ requested' = {}
    /\ plan' = plan \cup asked
    /\ asked' = asked \ plan
    /\ now' = NowOf(plan')
    /\ UNCHANGED <<clock, active, last, pauseVars, reading, requests, boot, runVars>>

\* A request overrides everything.
CrossOff ==
    /\ ~ crossed
    /\ crossed' = TRUE
    /\ requested' = requested \ asked
    /\ plan' = plan \cup asked
    /\ asked' = asked \ plan
    /\ now' = NowOf(plan')
    /\ UNCHANGED <<clock, active, last, pauseVars, reading, requests, boot, runVars>>

\* What is due runs before what was only requested.
NextJobs == IF plan \subseteq asked THEN plan ELSE plan \ asked

StartJob(n) ==
    /\ active = NoJob /\ crossed
    /\ n \in NextJobs
    /\ active' = n
    /\ plan' = plan \ {n}
    /\ asked' = asked \ {n}
    /\ UNCHANGED <<clock, now, crossed, last, requested, pauseVars, reading, requests, boot, runVars>>

\* _stamp(): the clocks a job starts over, failed or not.
Stamped(n, broke) ==
    CASE n = "tick"   -> [last EXCEPT !["tick"] = now]
      [] n = "fx"     -> [last EXCEPT !["fx"] = now, !["fxOk"] = IF broke THEN @ ELSE now]
      [] n = "eod"    -> [last EXCEPT !["tick"] = now, !["fx"] = now, !["eod"] = Settled[now],
                                      !["fxOk"] = IF broke THEN @ ELSE now]
      [] n = "backup" -> [last EXCEPT !["backup"] = now]

\* The job ends.  Every market job asks for a live rate, which only a trading market
\* gives and a provider may withhold; that it got none is not a failure.
EndJob(broke, landed) ==
    /\ active # NoJob
    /\ active = "eod" => ~ broke
    /\ landed => active \in Market /\ clock \in ForexOpen
    /\ last' = Stamped(active, broke)
    /\ reading' = IF landed THEN clock ELSE reading
    /\ active' = NoJob
    /\ now' = NowOf(plan)
    /\ UNCHANGED <<clock, crossed, plan, asked, requested, pauseVars, requests, boot, runVars>>

(***************************************************************************)
(* Everything else that happens meanwhile.                                 *)
(***************************************************************************)
\* MUTANT: request_run() takes any name.
RequestRun_AnyName(n) ==
    /\ requests < MaxRequests /\ requests' = requests + 1
    /\ requested' = requested \cup {n}
    /\ UNCHANGED <<clock, loopVars, last, pauseVars, reading, boot, runVars>>

RequestRun(n) ==
    /\ n \in JOB_NAMES
    /\ requests < MaxRequests /\ requests' = requests + 1
    /\ requested' = requested \cup {n}
    /\ UNCHANGED <<clock, loopVars, last, pauseVars, reading, boot, runVars>>

PassTime ==
    /\ clock < MaxTime
    /\ clock' = clock + 1
    /\ UNCHANGED <<loopVars, last, requested, pauseVars, reading, requests, boot, runVars>>

RunJobs ==
    /\ \/ \E i \in Runs, j \in JobIds : Start(i, j)
       \/ \E i \in Runs : Thread(i)
    /\ UNCHANGED schedVars

\* Only the stored pauses and results outlive the process (the reading is in memory).
Restart ==
    /\ boot < MaxBoot /\ boot' = boot + 1
    /\ RunnerRestart
    /\ now' = 0 /\ crossed' = TRUE /\ plan' = {} /\ asked' = {} /\ active' = NoJob
    /\ last' = [c \in Clocks |-> Never]
    /\ requested' = {}
    /\ pauses' = NoPause /\ loaded' = FALSE /\ sure' = {}
    /\ reading' = Never
    /\ UNCHANGED <<clock, saved, granted, stored, pausings, requests>>

Pass ==
    \/ \E missing, unsafe \in BOOLEAN, read, wrote \in Access : Decide(missing, unsafe, read, wrote)
    \/ CrossOff
    \/ \E n \in JOB_NAMES : StartJob(n)
    \/ \E broke, landed \in BOOLEAN : EndJob(broke, landed)

Next ==
    \/ Pass
    \/ \E n \in Requested : RequestRun(n)
    \/ \E n \in Pausable, until \in Instant, read, wrote, rewrote \in Access :
           SetPause(n, until, read, wrote, rewrote)
    \/ \E read, wrote \in Access : Snapshot(read, wrote)
    \/ RunJobs
    \/ PassTime
    \/ Restart

Spec == Init /\ [][Next]_vars

\* The event loop keeps polling, time passes, and the functions of jobs return.
FairSpec ==
    /\ Spec
    /\ WF_vars(Pass) /\ WF_vars(PassTime)
    /\ \A i \in Runs : WF_vars(Thread(i) /\ UNCHANGED schedVars)

----------------------------------------------------------------------------
LoopTypeOK ==
    /\ clock \in Time /\ now \in Time
    /\ crossed \in BOOLEAN
    /\ plan \subseteq JOB_NAMES /\ asked \subseteq JOB_NAMES /\ requested \subseteq JOB_NAMES
    /\ active \in JOB_NAMES \cup {NoJob}
    /\ last \in [Clocks -> Nat \cup {Never}]
    /\ reading \in Instant
    /\ requests \in Nat /\ boot \in Nat

PauseTypeOK ==
    /\ pauses \in [JOB_NAMES -> Instant]
    /\ saved \in [JOB_NAMES -> Instant]
    /\ granted \in [JOB_NAMES -> Instant]
    /\ sure \subseteq JOB_NAMES /\ stored \subseteq JOB_NAMES
    /\ loaded \in BOOLEAN
    /\ pausings \in Nat

TypeOK == RunnerTypeOK /\ LoopTypeOK /\ PauseTypeOK

\* What may stand for the pause of job n: what the API has answered last, or no pause when
\* that one is over.
Right(n) == {granted[n]} \cup (IF granted[n] # Never /\ granted[n] <= clock THEN {Never} ELSE {})

\* A pause is lost, or comes back after a resume, by a failed read or write of the settings
\* and by nothing else: memory is right about every job unless the one read of this process
\* failed and the job was not set since, and so are the settings unless the write of that
\* job failed, or a write followed a failed read (scheduler.py:341-410, "so a restart keeps
\* them" at 34).
PausesKept ==
    /\ loaded => \A n \in sure : pauses[n] \in Right(n)
    /\ \A n \in stored : saved[n] \in Right(n)

\* A request made at any moment of a pass is taken up by this pass or the next one, unless
\* the process stops (scheduler.py:474-481, 662-666).
RequestRuns ==
    \A n \in Requested \cap JOB_NAMES, b \in 0 .. MaxBoot :
        n \in requested /\ boot = b ~> active = n \/ boot > b

\* The closes of the last settled session are pulled in the end, whatever pauses, heavy
\* jobs and restarts came in between (scheduler.py:537-538, 658-661).
EodArrives == <>[](last["eod"] = Settled[MaxTime])

\* "While a heavy maintenance job runs (job_runner.heavy_busy) market jobs wait"
\* (scheduler.py:34-35).
MarketWaits ==
    [][\A n \in Market : active # n /\ active' = n => heavyJob = NoJob]_vars

\* "Over the weekend only if no good reading exists since Friday's 17:00 close (retried
\* every minute until one lands)" (scheduler.py:23-24): once the weekend clock counts a
\* good reading, this process holds one.
WeekendReading ==
    clock \notin ForexOpen /\ last["fxOk"] # Never /\ last["fxOk"] >= ForexClose[clock]
        => reading # Never

\* "Pauses are kept in memory and in app_config so a restart keeps them" (scheduler.py:33-34):
\* what the next process would load is what the API answered.  TLC refutes it: a write of
\* the settings that fails is logged and the pause answered all the same (365-374).
RestartKeepsPauses == \A n \in JOB_NAMES : saved[n] \in Right(n)

=============================================================================
