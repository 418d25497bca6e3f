---------------------------- MODULE JobRunner ----------------------------
(***************************************************************************)
(* Named background jobs (services/job_runner.py): the same job never runs *)
(* twice at once, heavy jobs share one mutex, and the last run of each job *)
(* is kept in the settings database.                                       *)
(*                                                                         *)
(* A run goes through                                                      *)
(*   none -> starting -> body -> storing -> done                          *)
(* where every step is one critical section of job_runner._lock, the       *)
(* creation of the run's thread, or the write of its result.               *)
(***************************************************************************)
EXTENDS Integers, FiniteSets

CONSTANTS
    JobIds,     \* the jobs of the catalogue
    HeavyJobs,  \* those marked heavy
    NoJob,      \* None, where a job's name is expected
    MaxRuns     \* bound: how many runs are started

ASSUME JobsAssumption == HeavyJobs \subseteq JobIds /\ NoJob \notin JobIds
ASSUME MaxRunsAssumption == MaxRuns \in Nat

Runs == 1 .. MaxRuns

VARIABLES
    job,        \* job[i]: the job of run i
    stage,      \* stage[i]: how far run i is
    running,    \* _state.running: the runs in flight
    heavyJob,   \* _state.heavy_job
    lastStored  \* maintenance.last.<job> in app_config: a run, or 0

runVars == <<job, stage, running, heavyJob, lastStored>>

JobRunnerInit ==
    /\ job = [i \in Runs |-> NoJob]
    /\ stage = [i \in Runs |-> "none"]
    /\ running = {}
    /\ heavyJob = NoJob
    /\ lastStored = [j \in JobIds |-> 0]

\* start() refuses a job that runs already, and a heavy one beside another.
Admits(j) ==
    /\ \A i \in running : job[i] # j
    /\ j \in HeavyJobs => heavyJob = NoJob

Start(i, j) ==
    /\ stage[i] = "none" /\ \A k \in 1 .. (i - 1) : stage[k] # "none"
    /\ Admits(j)
    /\ job' = [job EXCEPT ![i] = j]
    /\ stage' = [stage EXCEPT ![i] = "starting"]
    /\ running' = running \cup {i}
    /\ heavyJob' = IF j \in HeavyJobs THEN j ELSE heavyJob
    /\ UNCHANGED <<lastStored>>

Spawn(i) ==
    /\ stage[i] = "starting"
    /\ stage' = [stage EXCEPT ![i] = "body"]
    /\ UNCHANGED <<job, running, heavyJob, lastStored>>

\* The critical section of _finish() frees the job, and the mutex if it held it.
Free(i) ==
    /\ running' = running \ {i}
    /\ heavyJob' = IF job[i] \in HeavyJobs /\ heavyJob = job[i] THEN NoJob ELSE heavyJob

\* MUTANT: start() gives up without freeing anything.
SpawnFails_Forgets(i) ==
    /\ stage[i] = "starting"
    /\ stage' = [stage EXCEPT ![i] = "done"]
    /\ UNCHANGED <<job, running, heavyJob, lastStored>>

\* The thread could not be created: the run is closed, without a stored result.
SpawnFails(i) ==
    /\ stage[i] = "starting"
    /\ stage' = [stage EXCEPT ![i] = "done"]
    /\ Free(i)
    /\ UNCHANGED <<job, lastStored>>

\* MUTANT: the mutex stays taken.
Finish_KeepsMutex(i) ==
    /\ stage[i] = "body"
    /\ stage' = [stage EXCEPT ![i] = "storing"]
    /\ running' = running \ {i}
    /\ UNCHANGED <<job, heavyJob, lastStored>>

\* The job's function returned or raised.
Finish(i) ==
    /\ stage[i] = "body"
    /\ stage' = [stage EXCEPT ![i] = "storing"]
    /\ Free(i)
    /\ UNCHANGED <<job, lastStored>>

\* _store() runs after the lock was given back, and swallows its own failure.
Store(i, written) ==
    /\ stage[i] = "storing"
    /\ stage' = [stage EXCEPT ![i] = "done"]
    /\ lastStored' = IF written THEN [lastStored EXCEPT ![job[i]] = i] ELSE lastStored
    /\ UNCHANGED <<job, running, heavyJob>>

\* The process is gone, and every run with it; only the stored results last.
RunnerRestart ==
    /\ stage' = [i \in Runs |-> IF stage[i] = "none" THEN "none" ELSE "done"]
    /\ running' = {}
    /\ heavyJob' = NoJob
    /\ UNCHANGED <<job, lastStored>>

\* What the thread of a run does by itself.
Thread(i) ==
    \/ Spawn(i) \/ SpawnFails(i) \/ Finish(i)
    \/ \E written \in BOOLEAN : Store(i, written)

RunnerNext ==
    \/ \E i \in Runs, j \in JobIds : Start(i, j)
    \/ \E i \in Runs : Thread(i)
    \/ RunnerRestart

RunnerSpec == JobRunnerInit /\ [][RunnerNext]_runVars

\* The threads keep running, and the function of a job returns in the end.
FairRunnerSpec == RunnerSpec /\ \A i \in Runs : WF_runVars(Thread(i))

----------------------------------------------------------------------------
Stages == {"none", "starting", "body", "storing", "done"}

RunnerTypeOK ==
    /\ job \in [Runs -> JobIds \cup {NoJob}]
    /\ stage \in [Runs -> Stages]
    /\ running \subseteq Runs
    /\ heavyJob \in JobIds \cup {NoJob}
    /\ lastStored \in [JobIds -> Runs \cup {0}]

Live(i) == stage[i] \in {"starting", "body"}

\* No job's function runs twice at once, and no two heavy jobs overlap, whatever fails in
\* between (job_runner.py:182-198).
HeavyAlone ==
    \A i, k \in Runs :
        Live(i) /\ Live(k) /\ (job[i] = job[k] \/ {job[i], job[k]} \subseteq HeavyJobs) => i = k

\* The mutex is held exactly while a heavy run is alive: no failure, of the job or of the
\* creation of its thread, leaves it behind (job_runner.py:219-235).
MutexOwned ==
    /\ heavyJob # NoJob => heavyJob \in HeavyJobs /\ \E i \in Runs : Live(i) /\ job[i] = heavyJob
    /\ \A i \in Runs : Live(i) /\ job[i] \in HeavyJobs => heavyJob = job[i]

\* A run is in the table exactly while it is alive.
Tracked == \A i \in Runs : i \in running <=> Live(i)

\* The mutex never blocks the maintenance page for good (job_runner.py:227-235).
MutexFreed == heavyJob # NoJob ~> heavyJob = NoJob

=============================================================================
