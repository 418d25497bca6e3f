------------------------- MODULE SchedulerProofs -------------------------
(***************************************************************************)
(* Proofs about JobRunner and Scheduler.  Jobs are alone, heavy ones among *)
(* themselves, and the mutex is held exactly by the run that took it.      *)
(* Inductive: the table of running jobs is exact (Tracked), so what        *)
(* start() looks up there is true of the threads.  Beside the scheduler    *)
(* the job runner keeps that invariant; there follow the types, and the    *)
(* pauses a restart must not lose.                                         *)
(***************************************************************************)
EXTENDS Scheduler, TLAPS

Names == \A i \in Runs : Live(i) => job[i] \in JobIds

RunnerInv == RunnerTypeOK /\ Names /\ Tracked /\ HeavyAlone /\ MutexOwned

\* Before the first run there is nothing to overlap.
LEMMA RunnerInit == JobRunnerInit => RunnerInv
  BY JobsAssumption DEF JobRunnerInit, RunnerInv, RunnerTypeOK, Names, Tracked, HeavyAlone,
     MutexOwned, Live, Stages

\* A run that start() lets in is the only one of its job, and the only heavy one if heavy.
LEMMA RunnerStart ==
    ASSUME RunnerInv, NEW i \in Runs, NEW j \in JobIds, Start(i, j)
    PROVE  RunnerInv'
  <1>1. /\ stage[i] = "none" /\ stage'[i] = "starting" /\ job'[i] = j
        /\ \A k \in Runs \ {i} : stage'[k] = stage[k] /\ job'[k] = job[k]
        /\ running' = running \cup {i} /\ lastStored' = lastStored
    BY DEF RunnerInv, RunnerTypeOK, Start
  <1>2. /\ \A k \in running : job[k] # j
        /\ j \in HeavyJobs => heavyJob = NoJob
        /\ heavyJob' = IF j \in HeavyJobs THEN j ELSE heavyJob
    BY DEF Start, Admits
  <1>3. RunnerTypeOK'
    BY JobsAssumption DEF RunnerInv, RunnerTypeOK, Start, Stages
  <1>4. ~ Live(i) /\ Live(i)' /\ \A k \in Runs \ {i} : Live(k)' <=> Live(k)
    BY <1>1 DEF Live
  <1>5. Tracked'
    BY <1>1, <1>4 DEF RunnerInv, Tracked
  <1>6. Names'
    BY <1>1, <1>4 DEF RunnerInv, Names
  <1>7. \A k \in Runs \ {i} : Live(k) => job[k] # j /\ ~ ({j, job[k]} \subseteq HeavyJobs)
    BY <1>2, JobsAssumption DEF RunnerInv, Tracked, MutexOwned
  <1>8. HeavyAlone'
    BY <1>1, <1>4, <1>7 DEF RunnerInv, HeavyAlone
  <1>9. MutexOwned'
    BY <1>1, <1>2, <1>4, JobsAssumption DEF RunnerInv, MutexOwned
  <1> QED
    BY <1>3, <1>5, <1>6, <1>8, <1>9 DEF RunnerInv

\* A run that ends frees its job, and the mutex if it was the one that held it.
LEMMA RunnerFree ==
    ASSUME RunnerInv, NEW i \in Runs, Live(i), Free(i), RunnerTypeOK',
           job' = job, ~ Live(i)', \A k \in Runs \ {i} : Live(k)' <=> Live(k)
    PROVE  RunnerInv'
  <1>1. Tracked'
    BY DEF RunnerInv, Tracked, Free
  <1>2. Names' /\ HeavyAlone'
    BY DEF RunnerInv, Names, HeavyAlone
  <1>3. MutexOwned'
    <2>1. CASE job[i] \in HeavyJobs
      <3>1. heavyJob = job[i] /\ heavyJob' = NoJob
        BY <2>1 DEF RunnerInv, MutexOwned, Free
      <3>2. \A k \in Runs : Live(k)' => job[k] \notin HeavyJobs
        BY <2>1 DEF RunnerInv, HeavyAlone
      <3> QED
        BY <3>1, <3>2 DEF MutexOwned
    <2>2. CASE job[i] \notin HeavyJobs
      <3>1. heavyJob' = heavyJob /\ (heavyJob # NoJob => heavyJob # job[i])
        BY <2>2 DEF Free, RunnerInv, MutexOwned
      <3>2. heavyJob # NoJob => \E k \in Runs : Live(k)' /\ job[k] = heavyJob
        <4> SUFFICES ASSUME heavyJob # NoJob PROVE \E k \in Runs : Live(k)' /\ job[k] = heavyJob
          OBVIOUS
        <4>1. PICK k \in Runs : Live(k) /\ job[k] = heavyJob
          BY DEF RunnerInv, MutexOwned
        <4> QED
          BY <4>1, <3>1, <2>2
      <3> QED
        BY <3>1, <3>2 DEF RunnerInv, MutexOwned
    <2> QED
      BY <2>1, <2>2
  <1> QED
    BY <1>1, <1>2, <1>3 DEF RunnerInv

\* Every step keeps the table, the mutex and the threads in agreement.
LEMMA RunnerStep == RunnerInv /\ [RunnerNext]_runVars => RunnerInv'
  <1> SUFFICES ASSUME RunnerInv, [RunnerNext]_runVars PROVE RunnerInv'
    OBVIOUS
  <1>1. ASSUME NEW i \in Runs, NEW j \in JobIds, Start(i, j) PROVE RunnerInv'
    BY <1>1, RunnerStart
  <1>2. ASSUME NEW i \in Runs, Spawn(i) PROVE RunnerInv'
    <2>1. /\ UNCHANGED <<job, running, heavyJob, lastStored>> /\ RunnerTypeOK'
          /\ \A k \in Runs : Live(k)' <=> Live(k)
      BY <1>2 DEF Spawn, RunnerInv, RunnerTypeOK, Stages, Live
    <2> QED
      BY <2>1 DEF RunnerInv, Names, Tracked, HeavyAlone, MutexOwned
  <1>3. ASSUME NEW i \in Runs, SpawnFails(i) \/ Finish(i) PROVE RunnerInv'
    <2>1. Live(i) /\ Free(i) /\ job' = job /\ ~ Live(i)' /\ \A k \in Runs \ {i} : Live(k)' <=> Live(k)
      BY <1>3 DEF SpawnFails, Finish, Live, RunnerInv, RunnerTypeOK
    <2>2. RunnerTypeOK'
      BY <1>3 DEF SpawnFails, Finish, Free, RunnerInv, RunnerTypeOK, Stages
    <2> QED
      BY <2>1, <2>2, RunnerFree
  <1>4. ASSUME NEW i \in Runs, NEW written \in BOOLEAN, Store(i, written) PROVE RunnerInv'
    <2>1. /\ UNCHANGED <<job, running, heavyJob>>
          /\ \A k \in Runs : Live(k)' <=> Live(k)
      BY <1>4 DEF Store, RunnerInv, RunnerTypeOK, Live
    <2>2. stage[i] = "storing" /\ job[i] \in JobIds \cup {NoJob}
      BY <1>4 DEF Store, RunnerInv, RunnerTypeOK
    <2>3. lastStored' \in [JobIds -> Runs \cup {0}]
      BY <1>4, <2>2 DEF Store, RunnerInv, RunnerTypeOK
    <2>4. RunnerTypeOK'
      BY <1>4, <2>1, <2>3 DEF Store, RunnerInv, RunnerTypeOK, Stages
    <2> QED
      BY <2>1, <2>4 DEF RunnerInv, Names, Tracked, HeavyAlone, MutexOwned
  <1>5. CASE RunnerRestart
    <2>1. RunnerTypeOK' /\ (\A k \in Runs : ~ Live(k)') /\ running' = {} /\ heavyJob' = NoJob
      BY <1>5 DEF RunnerRestart, RunnerInv, RunnerTypeOK, Stages, Live
    <2> QED
      BY <2>1 DEF RunnerInv, Names, Tracked, HeavyAlone, MutexOwned
  <1>6. CASE UNCHANGED runVars
    BY <1>6 DEF runVars, RunnerInv, RunnerTypeOK, Names, Tracked, HeavyAlone, MutexOwned, Live
  <1> QED
    BY <1>1, <1>2, <1>3, <1>4, <1>5, <1>6 DEF RunnerNext, Thread

\* The table of running jobs, the mutex and the threads always agree (job_runner.py:187-240).
THEOREM RunnersTracked == RunnerSpec => []RunnerInv
  <1>1. RunnerInv /\ [RunnerNext]_runVars => RunnerInv'
    BY RunnerStep
  <1> QED
    BY <1>1, RunnerInit, PTL DEF RunnerSpec

\* No job runs twice at once and no two heavy jobs overlap (job_runner.py:187-202).
THEOREM HeavyJobsAlone == RunnerSpec => []HeavyAlone
  <1>1. RunnerInv => HeavyAlone
    BY DEF RunnerInv
  <1> QED
    BY <1>1, RunnersTracked, PTL

\* The mutex is held exactly while a heavy run is alive (job_runner.py:219-235).
THEOREM MutexHeld == RunnerSpec => []MutexOwned
  <1>1. RunnerInv => MutexOwned
    BY DEF RunnerInv
  <1> QED
    BY <1>1, RunnersTracked, PTL

----------------------------------------------------------------------------
\* What the job runner does beside the scheduler is what it does alone.
LEMMA RunnerBeside == [Next]_vars => [RunnerNext]_runVars
  <1>1. CASE RunJobs \/ Restart
    BY <1>1 DEF RunJobs, Restart, RunnerNext
  <1>2. CASE Pass \/ \E n \in Requested : RequestRun(n)
    BY <1>2 DEF Pass, Decide, CrossOff, StartJob, EndJob, RequestRun, runVars
  <1>3. CASE \E n \in Pausable, until \in Instant, read, wrote, rewrote \in Access :
                SetPause(n, until, read, wrote, rewrote)
    BY <1>3 DEF SetPause, runVars
  <1>4. CASE PassTime \/ UNCHANGED vars \/ \E read, wrote \in Access : Snapshot(read, wrote)
    BY <1>4 DEF PassTime, vars, Snapshot, runVars
  <1> QED
    BY <1>1, <1>2, <1>3, <1>4 DEF Next

\* The table, the mutex and the threads agree in every state of the whole system.
THEOREM RunnersTrackedBeside == Spec => []RunnerInv
  <1>1. Init => RunnerInv
    BY RunnerInit DEF Init
  <1>2. RunnerInv /\ [Next]_vars => RunnerInv'
    BY RunnerBeside, RunnerStep
  <1> QED
    BY <1>1, <1>2, PTL DEF Spec

----------------------------------------------------------------------------
\* Forgetting what is over yields pauses.
LEMMA UnexpiredType ==
    ASSUME NEW P \in [JOB_NAMES -> Instant], NEW t
    PROVE  Unexpired(P, t) \in [JOB_NAMES -> Instant]
  BY DEF Unexpired, Instant

LEMMA LoadedType ==
    ASSUME PauseTypeOK, NEW read \in BOOLEAN
    PROVE  Loaded(read) \in [JOB_NAMES -> Instant] /\ Sure(read) \subseteq JOB_NAMES
  BY DEF PauseTypeOK, Loaded, Sure, NoPause, Instant

\* Reading the pauses keeps their types, in memory and stored.
LEMMA ReadTypes ==
    ASSUME PauseTypeOK, NEW read \in BOOLEAN, NEW wrote \in BOOLEAN, NEW t, ReadPauses(t, read, wrote)
    PROVE  /\ pauses' \in [JOB_NAMES -> Instant] /\ saved' \in [JOB_NAMES -> Instant]
           /\ sure' \subseteq JOB_NAMES /\ stored' \subseteq JOB_NAMES /\ loaded' = TRUE
  BY UnexpiredType, LoadedType DEF ReadPauses, PauseTypeOK

\* The settings are read and written, or not.
LEMMA AccessBool == Access \subseteq BOOLEAN
  BY DEF Access

\* Everything starts with its type.
LEMMA TypeInit == Init => LoopTypeOK /\ PauseTypeOK
  <1> SUFFICES ASSUME Init PROVE LoopTypeOK /\ PauseTypeOK
    OBVIOUS
  <1>1. NoPause \in [JOB_NAMES -> Instant] /\ 0 \in Time
    BY TimeAssumption DEF NoPause, Instant, Time
  <1>2. PauseTypeOK
    BY <1>1 DEF Init, PauseTypeOK
  <1>3. LoopTypeOK
    BY <1>1 DEF Init, LoopTypeOK, Instant
  <1> QED
    BY <1>2, <1>3

\* The scheduler's own variables keep their types.
LEMMA LoopTypeStep == LoopTypeOK /\ [Next]_vars => LoopTypeOK'
  <1> SUFFICES ASSUME LoopTypeOK, [Next]_vars PROVE LoopTypeOK'
    OBVIOUS
  <1> USE DEF LoopTypeOK
  <1>1. ASSUME NEW missing \in BOOLEAN, NEW unsafe \in BOOLEAN, NEW read, NEW wrote,
               Decide(missing, unsafe, read, wrote)
        PROVE  LoopTypeOK'
    <2>1. plan' \subseteq JOB_NAMES /\ asked' \subseteq JOB_NAMES
      BY <1>1 DEF Decide, Due, MakeWay
    <2>2. last' \in [Clocks -> Nat \cup {Never}]
      BY <1>1, TimeAssumption DEF Decide, Clocks, Time
    <2>3. now' = clock /\ crossed' = FALSE /\ UNCHANGED <<clock, active, requested, reading, requests, boot>>
      BY <1>1 DEF Decide
    <2> QED
      BY <2>1, <2>2, <2>3
  <1>2. ASSUME NEW n \in JOB_NAMES, StartJob(n) PROVE LoopTypeOK'
    BY <1>2 DEF StartJob
  <1>9. CASE CrossOff
    <2>1. now' \in Time /\ plan' \subseteq JOB_NAMES /\ asked' \subseteq JOB_NAMES /\ requested' \subseteq JOB_NAMES
      BY <1>9, TimeAssumption DEF CrossOff, NowOf, Time
    <2>2. crossed' = TRUE /\ UNCHANGED <<clock, active, last, reading, requests, boot>>
      BY <1>9 DEF CrossOff
    <2> QED
      BY <2>1, <2>2
  <1>3. ASSUME NEW broke \in BOOLEAN, NEW landed \in BOOLEAN, EndJob(broke, landed)
        PROVE  LoopTypeOK'
    <2>1. active \in JOB_NAMES /\ now \in Nat /\ Settled[now] \in Nat
      BY <1>3, CalendarAssumption, TimeAssumption DEF EndJob, Time
    <2>2. last' \in [Clocks -> Nat \cup {Never}]
      BY <1>3, <2>1 DEF EndJob, Stamped, Clocks, JOB_NAMES
    <2>3. reading' \in Instant
      BY <1>3 DEF EndJob, Instant
    <2>4. active' = NoJob /\ UNCHANGED <<clock, crossed, plan, asked, requested, requests, boot>>
      BY <1>3 DEF EndJob
    <2>5. now' \in Time
      BY <1>3, TimeAssumption DEF EndJob, NowOf, Time
    <2> QED
      BY <2>2, <2>3, <2>4, <2>5
  <1>4. ASSUME NEW n \in Requested, RequestRun(n) PROVE LoopTypeOK'
    <2>1. requested' \subseteq JOB_NAMES /\ requests' \in Nat
      BY <1>4 DEF RequestRun
    <2>2. UNCHANGED <<clock, now, crossed, plan, asked, active, last, reading, boot>>
      BY <1>4 DEF RequestRun, loopVars
    <2> QED
      BY <2>1, <2>2
  <1>5. ASSUME NEW n \in Pausable, NEW until \in Instant, NEW read, NEW wrote, NEW rewrote,
               SetPause(n, until, read, wrote, rewrote)
        PROVE  LoopTypeOK'
    BY <1>5 DEF SetPause, loopVars
  <1>10. ASSUME NEW read, NEW wrote, Snapshot(read, wrote) PROVE LoopTypeOK'
    BY <1>10 DEF Snapshot, loopVars
  <1>6. CASE PassTime
    <2>1. clock' \in Time /\ UNCHANGED <<now, crossed, plan, asked, active, last, requested, reading, requests, boot>>
      BY <1>6, TimeAssumption DEF PassTime, Time, loopVars
    <2> QED
      BY <2>1
  <1>7. CASE Restart
    <2>1. /\ last' = [c \in Clocks |-> Never] /\ boot' \in Nat /\ now' = 0 /\ 0 \in Time
          /\ crossed' = TRUE /\ plan' = {} /\ asked' = {} /\ requested' = {} /\ active' = NoJob /\ reading' = Never
          /\ UNCHANGED <<clock, requests>>
      BY <1>7, TimeAssumption DEF Restart, Time
    <2> QED
      BY <2>1 DEF Instant
  <1>8. CASE RunJobs \/ UNCHANGED vars
    BY <1>8 DEF RunJobs, vars, schedVars, loopVars
  <1> QED
    BY <1>1, <1>2, <1>3, <1>4, <1>5, <1>6, <1>7, <1>8, <1>9, <1>10 DEF Next, Pass

\* So do the pauses, in memory and stored.
LEMMA PauseTypeStep == PauseTypeOK /\ [Next]_vars => PauseTypeOK'
  <1> SUFFICES ASSUME PauseTypeOK, [Next]_vars PROVE PauseTypeOK'
    OBVIOUS
  <1>1. ASSUME NEW missing \in BOOLEAN, NEW unsafe \in BOOLEAN, NEW read \in Access, NEW wrote \in Access,
               Decide(missing, unsafe, read, wrote) \/ Snapshot(read, wrote)
        PROVE  PauseTypeOK'
    <2>1. ReadPauses(clock, read, wrote) /\ UNCHANGED <<granted, pausings>>
      BY <1>1 DEF Decide, Snapshot
    <2> QED
      BY <2>1, ReadTypes, AccessBool DEF PauseTypeOK
  <1>2. ASSUME NEW n \in Pausable, NEW until \in Instant, NEW read \in Access, NEW wrote \in Access,
               NEW rewrote \in Access, SetPause(n, until, read, wrote, rewrote)
        PROVE  PauseTypeOK'
    <2>1. [Loaded(read) EXCEPT ![n] = until] \in [JOB_NAMES -> Instant]
      BY LoadedType, AccessBool
    <2>2. pauses' \in [JOB_NAMES -> Instant] /\ saved' \in [JOB_NAMES -> Instant] /\ loaded' = TRUE
      BY <1>2, <2>1, UnexpiredType DEF SetPause, PauseTypeOK
    <2>3. granted' \in [JOB_NAMES -> Instant] /\ pausings' \in Nat
      BY <1>2 DEF SetPause, PauseTypeOK
    <2>4. sure' \subseteq JOB_NAMES /\ stored' \subseteq JOB_NAMES
      BY <1>2, LoadedType, AccessBool DEF SetPause, PauseTypeOK
    <2> QED
      BY <2>2, <2>3, <2>4 DEF PauseTypeOK
  <1>3. CASE Restart
    BY <1>3 DEF Restart, PauseTypeOK, NoPause, Instant
  <1>4. CASE UNCHANGED pauseVars
    BY <1>4 DEF pauseVars, PauseTypeOK
  <1> QED
    BY <1>1, <1>2, <1>3, <1>4
       DEF Next, Pass, CrossOff, StartJob, EndJob, RequestRun, RunJobs, PassTime, vars, schedVars

\* Every state the scheduler and the job runner can reach is well-typed.
THEOREM SchedulerTypes == Spec => []TypeOK
  <1>1. LoopTypeOK /\ PauseTypeOK /\ [Next]_vars => (LoopTypeOK /\ PauseTypeOK)'
    BY LoopTypeStep, PauseTypeStep
  <1>2. RunnerInv /\ LoopTypeOK /\ PauseTypeOK => TypeOK
    BY DEF TypeOK, RunnerInv
  <1> QED
    BY <1>1, <1>2, TypeInit, RunnersTrackedBeside, PTL DEF Spec

----------------------------------------------------------------------------
(***************************************************************************)
(* The pauses: whatever reads or sets them keeps what the API answered,    *)
(* unless the settings fail it.                                            *)
(***************************************************************************)
\* What may stand for job n's pause once the API answered G and the time is t.
Rightful(G, t, n) == {G[n]} \cup (IF G[n] # Never /\ G[n] <= t THEN {Never} ELSE {})

\* Forgetting what is over leaves what may stand.
LEMMA ForgetsRightly ==
    ASSUME NEW P, NEW G, NEW t, NEW n \in JOB_NAMES, P[n] \in Rightful(G, t, n)
    PROVE  Unexpired(P, t)[n] \in Rightful(G, t, n)
  BY DEF Unexpired, Rightful

\* What is sure and what is stored may stand, for one job.
KeptOf(m) ==
    /\ loaded /\ m \in sure => pauses[m] \in Rightful(granted, clock, m)
    /\ m \in stored => saved[m] \in Rightful(granted, clock, m)

LEMMA PausesStep == TypeOK /\ TypeOK' /\ PausesKept /\ [Next]_vars => PausesKept'
  <1> SUFFICES ASSUME TypeOK, TypeOK', PausesKept, [Next]_vars, NEW m \in JOB_NAMES
               PROVE  KeptOf(m)'
    BY DEF PausesKept, KeptOf, Right, Rightful, TypeOK, PauseTypeOK
  <1>0. KeptOf(m)
    BY DEF PausesKept, KeptOf, Right, Rightful
  <1>1. ASSUME NEW read \in Access, m \in Sure(read)
        PROVE  Loaded(read)[m] \in Rightful(granted, clock, m)
    BY <1>0, <1>1 DEF KeptOf, Sure, Loaded
  <1>2. ASSUME NEW missing \in BOOLEAN, NEW unsafe \in BOOLEAN, NEW read \in Access, NEW wrote \in Access,
               Decide(missing, unsafe, read, wrote) \/ Snapshot(read, wrote)
        PROVE  KeptOf(m)'
    <2>1. ReadPauses(clock, read, wrote) /\ UNCHANGED <<granted, clock>>
      BY <1>2 DEF Decide, Snapshot
    <2>2. m \in Sure(read) => pauses'[m] \in Rightful(granted, clock, m)
      BY <1>1, <2>1, ForgetsRightly DEF ReadPauses
    <2> QED
      BY <1>0, <2>1, <2>2 DEF ReadPauses, KeptOf
  <1>3. ASSUME NEW n \in Pausable, NEW until \in Instant, NEW read \in Access, NEW wrote \in Access,
               NEW rewrote \in Access, SetPause(n, until, read, wrote, rewrote)
        PROVE  KeptOf(m)'
    <2> DEFINE new == [Loaded(read) EXCEPT ![n] = until]
    <2>1. granted' = [granted EXCEPT ![n] = until] /\ clock' = clock /\ n \in JOB_NAMES
      BY <1>3 DEF SetPause
    <2>2. ASSUME m \in Sure(read) \cup {n} PROVE new[m] \in Rightful(granted', clock, m)
      BY <1>1, <2>1, <2>2, LoadedType, AccessBool DEF Rightful, TypeOK, PauseTypeOK
    <2>3. ASSUME m \in Sure(read) \cup {n} PROVE Unexpired(new, clock)[m] \in Rightful(granted', clock, m)
      BY <2>2, <2>3, ForgetsRightly
    <2>4. m \in stored \ {n} => saved[m] \in Rightful(granted', clock, m)
      BY <1>0, <2>1 DEF KeptOf, Rightful, TypeOK, PauseTypeOK
    <2>5. sure' = Sure(read) \cup {n} /\ pauses' = Unexpired(new, clock)
      BY <1>3 DEF SetPause
    <2>6. \/ stored' = sure' /\ saved' \in {pauses', new}
          \/ stored' = stored \ {n} /\ saved' = saved
      BY <1>3 DEF SetPause
    <2> HIDE DEF new
    <2> QED
      BY <2>1, <2>2, <2>3, <2>4, <2>5, <2>6 DEF KeptOf
  <1>4. CASE PassTime
    <2>1. Rightful(granted, clock, m) \subseteq Rightful(granted, clock', m)
      BY <1>4, TimeAssumption DEF PassTime, Rightful, TypeOK, LoopTypeOK, PauseTypeOK, Instant, Time
    <2> QED
      BY <1>0, <1>4, <2>1 DEF PassTime, pauseVars, KeptOf
  <1>5. CASE Restart
    BY <1>0, <1>5 DEF Restart, KeptOf
  <1>6. CASE UNCHANGED <<saved, granted, clock, loaded, pauses, sure, stored>>
    BY <1>0, <1>6 DEF KeptOf
  <1> QED
    BY <1>2, <1>3, <1>4, <1>5, <1>6
       DEF Next, Pass, CrossOff, StartJob, EndJob, RequestRun, RunJobs, vars, schedVars, pauseVars

\* A pause the API granted is neither lost before its end nor brought back after a resume,
\* by no pass, request or restart, unless the settings could not be read or written for it
\* (scheduler.py:341-410).
THEOREM PausesLast == Spec => []PausesKept
  <1>1. Init => PausesKept
    BY DEF Init, PausesKept, NoPause, Right
  <1>2. TypeOK /\ TypeOK' /\ PausesKept /\ [Next]_vars => PausesKept'
    BY PausesStep
  <1> QED
    BY <1>1, <1>2, SchedulerTypes, PTL DEF Spec
=============================================================================
