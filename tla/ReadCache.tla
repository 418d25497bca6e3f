---------------------------- MODULE ReadCache ----------------------------
(***************************************************************************)
(* The in-memory cache in front of the expensive read endpoints            *)
(* (services/read_cache.py), together with everything that decides whether *)
(* an answer it hands out is current: the database the endpoint functions  *)
(* read, the writers that commit to it and bump the cache's generations,   *)
(* the ETag copies browsers keep, and a restart of the process.            *)
(*                                                                         *)
(* Data are versions: db[d] counts the commits to dependency d, and an     *)
(* answer is the version of each dependency its endpoint read.             *)
(*                                                                         *)
(* One thread runs one request at a time, through the states               *)
(*   idle -> start -> lookup -> wait -> start -> lookup -> compute ->       *)
(*   finish -> served                                                      *)
(* and every step is one critical section of read_cache._lock, a reading   *)
(* of the clock, one load from the database, or the response.              *)
(***************************************************************************)
EXTENDS Integers, FiniteSets

CONSTANTS
    Readers,        \* threads that run cached endpoint functions
    Conditional,    \* those that serve the /both routes, wrapped by conditional_both
    SharedSession,  \* those whose calls share one database session (warm())
    Prompt,         \* those whose endpoint function always returns
    Requests,       \* API write requests (middleware bumps, session teardown commits)
    RequestWrites,  \* the sets of dependencies such a request may change
    Jobs,           \* background writers: commit first, then publish an event
    JobWrites,      \* the sets of dependencies a job may change
    Events,         \* the event types the jobs publish
    Keys,           \* cache keys: an endpoint and its plain parameters
    ReadsOf,        \* the deps each key declares
    MaxEntries,     \* MAX_ENTRIES
    TTL,            \* TTL_SECONDS
    MaxVersion, MaxTime, MaxBoot, MaxRaises   \* bounds of the exploration

ALL_DEPS == {"ledger", "prices", "fx"}

\* What an event of each type bumps (invalidate_for_event); "refresh" stands for
\* refresh*, settings, a finished job and any unknown type.
InvalidatedBy(e) ==
    CASE e = "tick"   -> {"prices", "fx"}
      [] e = "fx"     -> {"fx"}
      [] e = "graphs" -> {"prices"}
      [] OTHER        -> ALL_DEPS

ASSUME ReadsOfAssumption == Keys # {} /\ ReadsOf \in [Keys -> SUBSET ALL_DEPS]
ASSUME WritersAssumption == /\ RequestWrites \cup JobWrites \subseteq (SUBSET ALL_DEPS) \ {{}}
                            /\ Events \subseteq {"tick", "fx", "graphs", "refresh"}
                            /\ Requests \cap Jobs = {}
ASSUME ReadersAssumption == /\ SharedSession \subseteq Readers
                            /\ Conditional \subseteq Readers \ SharedSession
                            /\ Prompt \subseteq Readers
ASSUME BoundsAssumption ==
    /\ MaxEntries \in Nat \ {0}
    /\ TTL \in Nat
    /\ {MaxVersion, MaxTime, MaxBoot, MaxRaises} \subseteq Nat

VARIABLES
    db,        \* db[d]: version of d last committed
    bumped,    \* history: db[d] when the generation of d was last bumped
    gens,      \* _gens
    boot,      \* which process this is (_BOOT_NONCE)
    clock,     \* time.monotonic()
    entries,   \* _entries: at most one record per key
    older,     \* the order of _entries: <<a, b>> when a was used before b
    inflight,  \* _inflight: flights and the thread whose Event they hold
    pc,        \* where each thread is in the wrapper
    call,      \* the local variables of the request each thread serves
    got,       \* what the thread's session has loaded, NotRead where it has not
    bodies,    \* the ETag copies clients hold
    owed,      \* what each writer still has to do
    raises     \* how often an endpoint function raised (bounds the exploration)

dataVars   == <<db, bumped>>
cacheVars  == <<entries, older, inflight>>
threadVars == <<pc, call, got>>
vars == <<dataVars, gens, boot, clock, cacheVars, threadVars, bodies, owed, raises>>

NotRead == -1
Nothing == [d \in ALL_DEPS |-> NotRead]

\* The generations of the dependencies k reads, and the part of got it uses.
Snap(k)      == [d \in ReadsOf[k] |-> gens[d]]
Answer(r)    == [d \in ReadsOf[call[r].key] |-> got[r][d]]
Zero(k)      == [d \in ReadsOf[k] |-> 0]
Cached       == {e.key : e \in entries}

\* MUTANT: the ETag does not say which process it comes from.
Etag_NoNonce(k) == [boot |-> 0, snap |-> Snap(k)]
Etag(k)      == [boot |-> boot, snap |-> Snap(k)]

\* A request's locals: the wrapper's key, snap and now, conditional_both's etag, the
\* answer to return; and, as history, whether this thread registered the flight it
\* computes (led), when it first loaded something (readAt: until then, and for a call
\* whose shared session already held something, when it read the clock) and what had
\* been bumped when the request came in (since).
NewCall(k) ==
    [key |-> k, snap |-> Snap(k), now |-> 0, etag |-> Etag(k), ans |-> Zero(k),
     led |-> FALSE, readAt |-> 0, since |-> bumped]

NoCall ==
    LET k == CHOOSE k \in Keys : TRUE
    IN  [key |-> k, snap |-> Zero(k), now |-> 0, etag |-> [boot |-> 0, snap |-> Zero(k)],
         ans |-> Zero(k), led |-> FALSE, readAt |-> 0, since |-> [d \in ALL_DEPS |-> 0]]

\* OrderedDict.move_to_end(k).
MoveToEnd(k) ==
    {p \in older : p[1] # k /\ p[2] # k} \cup {<<o, k>> : o \in Cached \ {k}}

Init ==
    /\ db = [d \in ALL_DEPS |-> 0]
    /\ bumped = db
    /\ gens = [d \in ALL_DEPS |-> 0]
    /\ boot = 0
    /\ clock = 0
    /\ entries = {} /\ older = {} /\ inflight = {}
    /\ pc = [r \in Readers |-> "idle"]
    /\ call = [r \in Readers |-> NoCall]
    /\ got = [r \in Readers |-> Nothing]
    /\ bodies = {}
    /\ owed = [w \in Requests \cup Jobs |-> {}]
    /\ raises = 0

(***************************************************************************)
(* invalidate(deps): one critical section.                                 *)
(***************************************************************************)
Invalidate(D) ==
    LET kept == {e \in entries : ReadsOf[e.key] \cap D = {}}
    IN  /\ gens' = [d \in ALL_DEPS |-> IF d \in D THEN gens[d] + 1 ELSE gens[d]]
        /\ bumped' = [d \in ALL_DEPS |-> IF d \in D THEN db[d] ELSE bumped[d]]
        /\ entries' = kept
        /\ older' = {p \in older : {p[1], p[2]} \subseteq {e.key : e \in kept}}

Room(D) == \A d \in D : db[d] < MaxVersion

CommitData(D) ==
    db' = [d \in ALL_DEPS |-> IF d \in D THEN db[d] + 1 ELSE db[d]]

(***************************************************************************)
(* The writers.  A job commits sessions of its own, then publishes its     *)
(* event, even when it failed half way: a refresh announces its end in a   *)
(* finally block.  An API request answers first: the middleware bumps      *)
(* everything when the response starts, and the session dependency commits *)
(* when it is torn down, after the response was sent.                      *)
(***************************************************************************)
\* MUTANT: a job that changed data publishes nothing.
CommitJob_NoEvent(j, e, D) ==
    /\ owed[j] \in {{}, InvalidatedBy(e)}
    /\ D \subseteq InvalidatedBy(e)
    /\ Room(D)
    /\ CommitData(D)
    /\ UNCHANGED <<owed, bumped, gens, boot, clock, cacheVars, threadVars, bodies, raises>>

CommitJob(j, e, D) ==
    /\ owed[j] \in {{}, InvalidatedBy(e)}
    /\ D \subseteq InvalidatedBy(e)
    /\ Room(D)
    /\ CommitData(D)
    /\ owed' = [owed EXCEPT ![j] = InvalidatedBy(e)]
    /\ UNCHANGED <<bumped, gens, boot, clock, cacheVars, threadVars, bodies, raises>>

PublishJob(j) ==
    /\ owed[j] # {}
    /\ Invalidate(owed[j])
    /\ owed' = [owed EXCEPT ![j] = {}]
    /\ UNCHANGED <<db, boot, clock, inflight, threadVars, bodies, raises>>

RespondRequest(w, D) ==
    /\ owed[w] = {}
    /\ Room(D)
    /\ Invalidate(ALL_DEPS)
    /\ owed' = [owed EXCEPT ![w] = D]
    /\ UNCHANGED <<db, boot, clock, inflight, threadVars, bodies, raises>>

CommitRequest(w) ==
    /\ owed[w] # {}
    /\ CommitData(owed[w])
    /\ owed' = [owed EXCEPT ![w] = {}]
    /\ UNCHANGED <<bumped, gens, boot, clock, cacheVars, threadVars, bodies, raises>>

(***************************************************************************)
(* A request for key k comes in.  A client whose copy carries the current  *)
(* ETag is told to keep it; every other request goes on to the cache.      *)
(***************************************************************************)
Matching(r, k) ==
    {b \in bodies : b.client = r /\ b.key = k /\ b.etag = Etag(k)}

NotModified(r, k) ==
    /\ pc[r] = "idle"
    /\ \E b \in Matching(r, k) :
          call' = [call EXCEPT ![r] = [NewCall(k) EXCEPT !.ans = b.ver]]
    /\ pc' = [pc EXCEPT ![r] = "served"]
    /\ UNCHANGED <<dataVars, gens, boot, clock, cacheVars, got, bodies, owed, raises>>

Open(r, k) ==
    /\ pc[r] = "idle"
    /\ Matching(r, k) = {}
    /\ pc' = [pc EXCEPT ![r] = "start"]
    /\ call' = [call EXCEPT ![r] = NewCall(k)]
    /\ UNCHANGED <<dataVars, gens, boot, clock, cacheVars, got, bodies, owed, raises>>

(***************************************************************************)
(* The wrapper's loop: it reads the clock, and then takes the lock for its *)
(* first critical section, which finds a hit, another thread's flight to   *)
(* wait for, or neither and registers a flight of its own.                 *)
(***************************************************************************)
ReadClock(r) ==
    /\ pc[r] = "start"
    /\ call' = [call EXCEPT ![r].now = clock, ![r].readAt = clock]
    /\ pc' = [pc EXCEPT ![r] = "lookup"]
    /\ UNCHANGED <<dataVars, gens, boot, clock, cacheVars, got, bodies, owed, raises>>

Hits(r) == {e \in entries : /\ e.key = call[r].key /\ e.snap = Snap(e.key)
                            /\ e.expiry > call[r].now}

Flights(k, s) == {f \in inflight : f.key = k /\ f.snap = s}

Hit(r) ==
    /\ pc[r] = "lookup"
    /\ \E e \in Hits(r) : call' = [call EXCEPT ![r].ans = e.ver]
    /\ older' = MoveToEnd(call[r].key)
    /\ pc' = [pc EXCEPT ![r] = "served"]
    /\ UNCHANGED <<dataVars, gens, boot, clock, entries, inflight, got, bodies, owed, raises>>

Join(r) ==
    /\ pc[r] = "lookup"
    /\ Hits(r) = {}
    /\ Flights(call[r].key, Snap(call[r].key)) # {}
    /\ call' = [call EXCEPT ![r].snap = Snap(call[r].key)]
    /\ pc' = [pc EXCEPT ![r] = "wait"]
    /\ UNCHANGED <<dataVars, gens, boot, clock, cacheVars, got, bodies, owed, raises>>

Lead(r) ==
    /\ pc[r] = "lookup"
    /\ Hits(r) = {}
    /\ Flights(call[r].key, Snap(call[r].key)) = {}
    /\ call' = [call EXCEPT ![r].snap = Snap(call[r].key), ![r].led = TRUE]
    /\ inflight' = inflight \cup {[key |-> call[r].key, snap |-> Snap(call[r].key), owner |-> r]}
    /\ pc' = [pc EXCEPT ![r] = "compute"]
    /\ UNCHANGED <<dataVars, gens, boot, clock, entries, older, got, bodies, owed, raises>>

\* MUTANT: the wait has no timeout.
GiveUp_Never(r) == FALSE

\* The wait timed out and the flight is still the one waited for.
GiveUp(r) ==
    /\ pc[r] = "wait"
    /\ Flights(call[r].key, call[r].snap) # {}
    /\ call' = [call EXCEPT ![r].led = FALSE]
    /\ pc' = [pc EXCEPT ![r] = "compute"]
    /\ UNCHANGED <<dataVars, gens, boot, clock, cacheVars, got, bodies, owed, raises>>

(***************************************************************************)
(* The endpoint function: it loads what it reads, one query at a time (no  *)
(* read transaction spans them), and may raise.                            *)
(***************************************************************************)
Load(r, d) ==
    /\ pc[r] = "compute"
    /\ d \in ReadsOf[call[r].key] /\ got[r][d] = NotRead
    /\ got' = [got EXCEPT ![r][d] = db[d]]
    /\ call' = IF \A o \in ReadsOf[call[r].key] : got[r][o] = NotRead
               THEN [call EXCEPT ![r].readAt = clock] ELSE call
    /\ UNCHANGED <<dataVars, gens, boot, clock, cacheVars, pc, bodies, owed, raises>>

Raise(r) ==
    /\ pc[r] = "compute"
    /\ raises < MaxRaises
    /\ raises' = raises + 1
    /\ pc' = [pc EXCEPT ![r] = "raised"]
    /\ UNCHANGED <<dataVars, gens, boot, clock, cacheVars, call, got, bodies, owed>>

(***************************************************************************)
(* The second critical section: keep the answer unless a dependency was    *)
(* bumped meanwhile, and drop the least recently used entry above the cap. *)
(***************************************************************************)
\* MUTANT: the time to live counts from the end of the computation.
NewEntry_Late(r) ==
    [key |-> call[r].key, snap |-> call[r].snap, expiry |-> clock + TTL,
     ver |-> Answer(r), readAt |-> call[r].readAt]

NewEntry(r) ==
    [key |-> call[r].key, snap |-> call[r].snap, expiry |-> call[r].now + TTL,
     ver |-> Answer(r), readAt |-> call[r].readAt]

\* MUTANT: one entry above the cap is let through.
Trim_OffByOne(S, order) ==
    IF Cardinality(S) > MaxEntries + 1
    THEN {e \in S : \E o \in S : <<o.key, e.key>> \in order}
    ELSE S

Trim(S, order) ==
    IF Cardinality(S) > MaxEntries
    THEN {e \in S : \E o \in S : <<o.key, e.key>> \in order}
    ELSE S

\* MUTANT: the answer is stored before every load came back.
Computed_Early(r) == pc[r] = "compute"
Computed(r) == /\ pc[r] = "compute"
               /\ \A d \in ReadsOf[call[r].key] : got[r][d] # NotRead

\* MUTANT: nobody looks whether a dependency was bumped meanwhile.
StillCurrent_Always(r) == TRUE
StillCurrent(r) == call[r].snap = Snap(call[r].key)

Store(r) ==
    LET stored == Trim({e \in entries : e.key # call[r].key} \cup {NewEntry(r)},
                       MoveToEnd(call[r].key))
    IN  /\ Computed(r)
        /\ StillCurrent(r)
        /\ entries' = stored
        /\ older' = {p \in MoveToEnd(call[r].key) : {p[1], p[2]} \subseteq {e.key : e \in stored}}
        /\ call' = [call EXCEPT ![r].ans = Answer(r)]
        /\ pc' = [pc EXCEPT ![r] = "finish"]
        /\ UNCHANGED <<dataVars, gens, boot, clock, inflight, got, bodies, owed, raises>>

Discard(r) ==
    /\ Computed(r)
    /\ ~ StillCurrent(r)
    /\ call' = [call EXCEPT ![r].ans = Answer(r)]
    /\ pc' = [pc EXCEPT ![r] = "finish"]
    /\ UNCHANGED <<dataVars, gens, boot, clock, cacheVars, got, bodies, owed, raises>>

\* MUTANT: whoever computed the flight's answer takes the flight down.
OwnFlights_Any(r) == {f \in inflight : f.key = call[r].key /\ f.snap = call[r].snap}

\* The finally block: take down one's own flight and wake whoever waits on it.
OwnFlights(r) == {f \in inflight : f.key = call[r].key /\ f.snap = call[r].snap /\ f.owner = r}

WaitingFor(F) ==
    {w \in Readers : pc[w] = "wait" /\
                     \E f \in F : f.key = call[w].key /\ f.snap = call[w].snap}

Land(r, next) ==
    /\ inflight' = inflight \ OwnFlights(r)
    /\ pc' = [w \in Readers |-> IF w = r THEN next
                               ELSE IF w \in WaitingFor(OwnFlights(r)) THEN "start"
                               ELSE pc[w]]

\* The thread is done with the request; a session of its own goes with it.
EndCall(r) ==
    /\ call' = [call EXCEPT ![r] = NoCall]
    /\ got' = IF r \in SharedSession THEN got ELSE [got EXCEPT ![r] = Nothing]

Finish(r) ==
    /\ pc[r] = "finish"
    /\ Land(r, "served")
    /\ UNCHANGED <<dataVars, gens, boot, clock, entries, older, call, got, bodies, owed, raises>>

\* MUTANT: an exception skips the clean-up.
Fail_KeepsFlight(r) ==
    /\ pc[r] = "raised"
    /\ pc' = [pc EXCEPT ![r] = "idle"]
    /\ EndCall(r)
    /\ UNCHANGED <<dataVars, gens, boot, clock, cacheVars, bodies, owed, raises>>

Fail(r) ==
    /\ pc[r] = "raised"
    /\ Land(r, "idle")
    /\ EndCall(r)
    /\ UNCHANGED <<dataVars, gens, boot, clock, entries, older, bodies, owed, raises>>

\* The response leaves; a client keeps the body with the ETag it came with.
Reply(r) ==
    /\ pc[r] = "served"
    /\ pc' = [pc EXCEPT ![r] = "idle"]
    /\ EndCall(r)
    /\ bodies' = IF r \notin Conditional THEN bodies
                 ELSE {b \in bodies : b.client # r \/ b.key # call[r].key} \cup
                      {[client |-> r, key |-> call[r].key,
                        etag |-> call[r].etag, ver |-> call[r].ans]}
    /\ UNCHANGED <<dataVars, gens, boot, clock, cacheVars, owed, raises>>

\* warm() leaves its session_scope: what the session had loaded is forgotten.
CloseSession(r) ==
    /\ pc[r] = "idle" /\ r \in SharedSession
    /\ got[r] # Nothing
    /\ got' = [got EXCEPT ![r] = Nothing]
    /\ UNCHANGED <<dataVars, gens, boot, clock, cacheVars, pc, call, bodies, owed, raises>>

PassTime ==
    /\ clock < MaxTime
    /\ clock' = clock + 1
    /\ UNCHANGED <<dataVars, gens, boot, cacheVars, threadVars, bodies, owed, raises>>

\* The process stops and starts again: only the database and the clients' copies last.
Restart ==
    /\ boot < MaxBoot
    /\ boot' = boot + 1
    /\ gens' = [d \in ALL_DEPS |-> 0]
    /\ bumped' = db
    /\ entries' = {} /\ older' = {} /\ inflight' = {}
    /\ pc' = [r \in Readers |-> "idle"]
    /\ call' = [r \in Readers |-> NoCall]
    /\ got' = [r \in Readers |-> Nothing]
    /\ owed' = [w \in Requests \cup Jobs |-> {}]
    /\ UNCHANGED <<db, clock, bodies, raises>>

Write ==
    \/ \E j \in Jobs, e \in Events, D \in JobWrites : CommitJob(j, e, D)
    \/ \E j \in Jobs : PublishJob(j)
    \/ \E w \in Requests, D \in RequestWrites : RespondRequest(w, D)
    \/ \E w \in Requests : CommitRequest(w)

\* What a thread does once it holds a request.
Proceed(r) ==
    \/ ReadClock(r) \/ Hit(r) \/ Join(r) \/ Lead(r) \/ GiveUp(r)
    \/ \E d \in ALL_DEPS : Load(r, d)
    \/ Store(r) \/ Discard(r) \/ Finish(r) \/ Fail(r) \/ Reply(r)

Next ==
    \/ Write
    \/ \E r \in Readers, k \in Keys : NotModified(r, k) \/ Open(r, k)
    \/ \E r \in Readers : Proceed(r) \/ Raise(r) \/ CloseSession(r)
    \/ PassTime
    \/ Restart

Spec == Init /\ [][Next]_vars

\* The wrapper never blocks a thread for good: the wait has a timeout, and an endpoint
\* function of a Prompt thread returns.  Nothing is assumed of the other threads.
FairSpec == Spec /\ \A r \in Prompt : WF_vars(Proceed(r))

----------------------------------------------------------------------------
Vector(k) == [ReadsOf[k] -> Nat]
EtagOf(k) == [boot : Nat, snap : Vector(k)]
EntryOf(k) == [key : {k}, snap : Vector(k), expiry : Nat, ver : Vector(k), readAt : Nat]
FlightOf(k) == [key : {k}, snap : Vector(k), owner : Readers]
CallOf(k) == [key : {k}, snap : Vector(k), now : Nat, etag : EtagOf(k), ans : Vector(k),
              led : BOOLEAN, readAt : Nat, since : [ALL_DEPS -> Nat]]
BodyOf(k) == [client : Readers, key : {k}, etag : EtagOf(k), ver : Vector(k)]
States == {"idle", "start", "lookup", "wait", "compute", "finish", "raised", "served"}

\* Every variable has its type; a vector belongs to the key it was made for.
TypeOK ==
    /\ {db, bumped, gens} \subseteq [ALL_DEPS -> Nat]
    /\ boot \in Nat /\ clock \in Nat /\ raises \in Nat
    /\ \A e \in entries : \E k \in Keys : e \in EntryOf(k)
    /\ older \subseteq Keys \X Keys
    /\ \A f \in inflight : \E k \in Keys : f \in FlightOf(k)
    /\ pc \in [Readers -> States]
    /\ DOMAIN call = Readers /\ \A r \in Readers : \E k \in Keys : call[r] \in CallOf(k)
    /\ got \in [Readers -> [ALL_DEPS -> Nat \cup {NotRead}]]
    /\ \A b \in bodies : \E k \in Keys : b \in BodyOf(k)
    /\ owed \in [Requests \cup Jobs -> SUBSET ALL_DEPS]

\* A cached answer was computed from data no older than the last bump of each
\* dependency it reads, so a hit never returns what an invalidation dropped: an
\* invalidation removes the entries it concerns, and a computation it overtook is not
\* stored (read_cache.py:62-75, 156-162).
CacheNotOlderThanBump ==
    \A e \in entries : \A d \in ReadsOf[e.key] : bumped[d] <= e.ver[d]

\* What only background jobs write is never stale in the cache for good: as soon as no
\* job owes an event for it, every cached answer holds the committed version.  The job
\* order (commit, then publish) is what makes it so (scheduler.py:607-635).
PublishedDataCurrent ==
    \A e \in entries : \A d \in ReadsOf[e.key] \ UNION RequestWrites :
        (\A j \in Jobs : d \notin owed[j]) => e.ver[d] = db[d]

\* "A successful write ... can change any report: forget cached reads so the next request
\* recomputes" (api/app.py:176-177): once no writer has anything left to do, every cached
\* answer holds what is in the database.
WriteVisible ==
    (\A w \in Requests \cup Jobs : owed[w] = {}) =>
        \A e \in entries : \A d \in ReadsOf[e.key] : e.ver[d] = db[d]

\* Of the threads computing the same key at the same generations, at most one did not
\* first wait out the timeout (read_cache.py:140-153).
SingleFlight ==
    \A r, s \in Readers :
        /\ pc[r] = "compute" /\ pc[s] = "compute"
        /\ call[r].led /\ call[s].led
        /\ call[r].key = call[s].key /\ call[r].snap = call[s].snap
        => r = s

\* Nobody waits on a flight without a thread behind it that will end it: however a
\* computation ends, its flight is taken down and its waiters wake (read_cache.py:164-168).
WaitersHaveLeader ==
    \A w \in Readers : pc[w] = "wait" =>
        \E r \in Readers : /\ pc[r] \in {"compute", "finish", "raised"}
                          /\ [key |-> call[w].key, snap |-> call[w].snap, owner |-> r] \in inflight

\* The cache never holds two answers for a key, nor more answers than MAX_ENTRIES.
CacheBounded ==
    /\ Cardinality(entries) <= MaxEntries
    /\ \A e, f \in entries : e.key = f.key => e = f

\* A thread never gets from the cache an answer whose computation first loaded something
\* TTL_SECONDS or more before the thread read the clock: the expiry counts from before
\* the computation, not from its end (read_cache.py:133, 159).  What a warm-up's session
\* held before the call counts from the call, as the code counts it.
NoExpiredAnswer ==
    [][\A r \in Readers : pc[r] = "lookup" /\ pc'[r] = "served" =>
          \E e \in entries : /\ e.key = call[r].key /\ e.ver = call'[r].ans
                             /\ call[r].now < e.readAt + TTL]_vars

AsRequest(r) ==
    CASE pc[r] = "idle"   -> [state |-> "none"]
      [] pc[r] = "served" -> [state |-> "answered", key |-> call[r].key,
                              floor |-> call[r].since, ver |-> call[r].ans]
      [] OTHER            -> [state |-> "asked", key |-> call[r].key, floor |-> call[r].since]

Reads == INSTANCE FreshReads
             WITH Clients <- Readers, Deps <- ALL_DEPS, committed <- db, announced <- bumped,
                  request <- [r \in Readers |-> AsRequest(r)]

\* The cache, the ETags, the shared computations and a restart together keep the promise
\* of FreshReads: they are a refinement of it.
KeepsPromise == Reads!Spec

\* Every request of a Prompt thread is answered or fails, even when the thread whose
\* computation it waits on never comes back (read_cache.py:146-153).
RequestEnds == \A r \in Prompt : pc[r] # "idle" ~> pc[r] = "idle"

=============================================================================
