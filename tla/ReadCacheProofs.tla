------------------------- MODULE ReadCacheProofs -------------------------
(***************************************************************************)
(* Theorems about ReadCache, for every set of threads, keys and writers    *)
(* and every bound: its types; that computations are shared and always end *)
(* for whoever waits on them; that the cap is kept; and, where no two      *)
(* calls share a database session (SharedSession = {}, as for every        *)
(* endpoint; warm() is the exception), that no answer is stale or expired  *)
(* and that ReadCache implements FreshReads.                               *)
(***************************************************************************)
EXTENDS ReadCache, FiniteSetTheorems, TLAPS

Busy == {"compute", "finish", "raised"}

\* A registered flight is a computation under way and the other way round, no two flights
\* are for the same key and generations, and a waiter's flight is registered.
FlightInv ==
    /\ \A f \in inflight : /\ pc[f.owner] \in Busy /\ call[f.owner].led
                           /\ call[f.owner].key = f.key /\ call[f.owner].snap = f.snap
    /\ \A r \in Readers : pc[r] \in Busy /\ call[r].led => OwnFlights(r) # {}
    /\ \A f, g \in inflight : f.key = g.key /\ f.snap = g.snap => f = g
    /\ \A w \in Readers : pc[w] = "wait" => Flights(call[w].key, call[w].snap) # {}

----------------------------------------------------------------------------
(***************************************************************************)
(* Types.                                                                  *)
(***************************************************************************)

\* A snapshot of the generations, and the ETag made of it, are vectors of their key.
LEMMA SnapType ==
    ASSUME TypeOK, NEW k \in Keys
    PROVE  Snap(k) \in Vector(k) /\ Etag(k) \in EtagOf(k)
  BY ReadsOfAssumption DEF TypeOK, Snap, Etag, Vector, EtagOf

\* The locals of a new request have their type.
LEMMA NewCallType ==
    ASSUME TypeOK, NEW k \in Keys
    PROVE  NewCall(k) \in CallOf(k)
  <1>1. Snap(k) \in Vector(k) /\ Etag(k) \in EtagOf(k)
    BY SnapType
  <1>2. Zero(k) \in Vector(k)
    BY DEF Zero, Vector
  <1>3. bumped \in [ALL_DEPS -> Nat]
    BY DEF TypeOK
  <1> QED
    BY <1>1, <1>2, <1>3 DEF NewCall, CallOf

\* The locals of a thread without a request have their type.
LEMMA NoCallType == \E k \in Keys : NoCall \in CallOf(k)
  <1> DEFINE k == CHOOSE x \in Keys : TRUE
  <1>1. k \in Keys
    BY ReadsOfAssumption
  <1>2. Zero(k) \in Vector(k)
    BY DEF Zero, Vector
  <1>3. NoCall \in CallOf(k)
    BY <1>2 DEF NoCall, CallOf, EtagOf
  <1> QED
    BY <1>1, <1>3

\* What a thread that loaded everything its key reads makes of it is a vector of the key.
LEMMA AnswerType ==
    ASSUME TypeOK, NEW r \in Readers, Computed(r)
    PROVE  Answer(r) \in Vector(call[r].key)
  <1>1. PICK k \in Keys : call[r] \in CallOf(k)
    BY DEF TypeOK
  <1>2. call[r].key = k /\ ReadsOf[k] \subseteq ALL_DEPS
    BY <1>1, ReadsOfAssumption DEF CallOf
  <1>3. \A d \in ReadsOf[k] : got[r][d] \in Nat
    BY <1>2 DEF Computed, TypeOK
  <1> QED
    BY <1>2, <1>3 DEF Answer, Vector

\* An invalidation leaves the cache's own state well-typed.
LEMMA InvalidateType ==
    ASSUME TypeOK, NEW D \in SUBSET ALL_DEPS, Invalidate(D)
    PROVE  /\ bumped' \in [ALL_DEPS -> Nat] /\ gens' \in [ALL_DEPS -> Nat]
           /\ \A e \in entries' : \E k \in Keys : e \in EntryOf(k)
           /\ older' \subseteq Keys \X Keys
  BY DEF Invalidate, TypeOK

\* A commit leaves the versions numbers.
LEMMA CommitType ==
    ASSUME TypeOK, NEW D \in SUBSET ALL_DEPS, CommitData(D)
    PROVE  db' \in [ALL_DEPS -> Nat]
  BY DEF CommitData, TypeOK

\* A step that touches the locals of one thread only.
LEMMA CallType ==
    ASSUME TypeOK, NEW r \in Readers, NEW k \in Keys, NEW c \in CallOf(k),
           call' = [call EXCEPT ![r] = c]
    PROVE  DOMAIN call' = Readers /\ \A s \in Readers : \E l \in Keys : call'[s] \in CallOf(l)
  BY DEF TypeOK

\* The least-recently-used order speaks of cached keys only.
LEMMA OrderType ==
    ASSUME TypeOK, NEW k \in Keys
    PROVE  MoveToEnd(k) \subseteq Keys \X Keys
  <1>1. Cached \subseteq Keys
    BY DEF Cached, TypeOK, EntryOf
  <1> QED
    BY <1>1 DEF MoveToEnd, TypeOK

\* The end of a call leaves well-typed locals and session.
LEMMA EndCallType ==
    ASSUME TypeOK, NEW r \in Readers, EndCall(r)
    PROVE  /\ DOMAIN call' = Readers /\ \A s \in Readers : \E k \in Keys : call'[s] \in CallOf(k)
           /\ got' \in [Readers -> [ALL_DEPS -> Nat \cup {NotRead}]]
  <1>1. DOMAIN call' = Readers /\ \A s \in Readers : \E k \in Keys : call'[s] \in CallOf(k)
    BY NoCallType DEF EndCall, TypeOK
  <1>2. got' \in [Readers -> [ALL_DEPS -> Nat \cup {NotRead}]]
    BY DEF EndCall, TypeOK, Nothing
  <1> QED
    BY <1>1, <1>2

\* The initial state is well-typed.
LEMMA InitType == Init => TypeOK
  <1> SUFFICES ASSUME Init PROVE TypeOK
    OBVIOUS
  <1>1. DOMAIN call = Readers /\ \A s \in Readers : \E k \in Keys : call[s] \in CallOf(k)
    BY NoCallType DEF Init
  <1>2. got \in [Readers -> [ALL_DEPS -> Nat \cup {NotRead}]]
    BY DEF Init, Nothing
  <1>3. pc \in [Readers -> States]
    BY DEF Init, States
  <1> QED
    BY <1>1, <1>2, <1>3 DEF Init, TypeOK

\* Every step of a writer keeps the types.
LEMMA WriteType == TypeOK /\ Write => TypeOK'
  <1> SUFFICES ASSUME TypeOK, Write PROVE TypeOK'
    OBVIOUS
  <1>1. ASSUME NEW j \in Jobs, NEW e \in Events, NEW D \in JobWrites, CommitJob(j, e, D)
        PROVE  TypeOK'
    <2>1. D \in SUBSET ALL_DEPS /\ InvalidatedBy(e) \in SUBSET ALL_DEPS
      BY <1>1, WritersAssumption DEF InvalidatedBy, ALL_DEPS
    <2>2. db' \in [ALL_DEPS -> Nat]
      BY <1>1, <2>1, CommitType DEF CommitJob
    <2> QED
      BY <1>1, <2>1, <2>2 DEF CommitJob, TypeOK, cacheVars, threadVars
  <1>2. ASSUME NEW j \in Jobs, PublishJob(j) PROVE TypeOK'
    <2>1. owed[j] \in SUBSET ALL_DEPS
      BY DEF TypeOK
    <2> QED
      BY <1>2, <2>1, InvalidateType DEF PublishJob, TypeOK, threadVars
  <1>3. ASSUME NEW w \in Requests, NEW D \in RequestWrites, RespondRequest(w, D) PROVE TypeOK'
    <2>1. D \in SUBSET ALL_DEPS
      BY WritersAssumption
    <2> QED
      BY <1>3, <2>1, InvalidateType DEF RespondRequest, TypeOK, threadVars
  <1>4. ASSUME NEW w \in Requests, CommitRequest(w) PROVE TypeOK'
    <2>1. owed[w] \in SUBSET ALL_DEPS
      BY DEF TypeOK
    <2> QED
      BY <1>4, <2>1, CommitType DEF CommitRequest, TypeOK, cacheVars, threadVars
  <1> QED
    BY <1>1, <1>2, <1>3, <1>4 DEF Write

\* A request that comes in, hits, joins or leads a computation, or gives up waiting keeps
\* the types.
LEMMA RequestType ==
    ASSUME TypeOK, NEW r \in Readers
    PROVE  /\ \A k \in Keys : NotModified(r, k) \/ Open(r, k) => TypeOK'
           /\ ReadClock(r) \/ Hit(r) \/ Join(r) \/ Lead(r) \/ GiveUp(r) => TypeOK'
  <1>0. PICK k \in Keys : call[r] \in CallOf(k)
    BY DEF TypeOK
  <1>1. call[r].key = k /\ Snap(k) \in Vector(k)
    BY <1>0, SnapType DEF CallOf
  <1>2. ASSUME NEW l \in Keys, NotModified(r, l) PROVE TypeOK'
    <2>1. PICK b \in Matching(r, l) : call' = [call EXCEPT ![r] = [NewCall(l) EXCEPT !.ans = b.ver]]
      BY <1>2 DEF NotModified
    <2>2. b.ver \in Vector(l)
      BY <2>1 DEF Matching, TypeOK, BodyOf
    <2>3. [NewCall(l) EXCEPT !.ans = b.ver] \in CallOf(l)
      BY <2>2, NewCallType DEF CallOf
    <2>4. DOMAIN call' = Readers /\ \A s \in Readers : \E m \in Keys : call'[s] \in CallOf(m)
      BY <2>1, <2>3, CallType
    <2> QED
      BY <1>2, <2>4 DEF NotModified, TypeOK, dataVars, cacheVars, States
  <1>3. ASSUME NEW l \in Keys, Open(r, l) PROVE TypeOK'
    <2>1. DOMAIN call' = Readers /\ \A s \in Readers : \E m \in Keys : call'[s] \in CallOf(m)
      BY <1>3, NewCallType, CallType DEF Open
    <2> QED
      BY <1>3, <2>1 DEF Open, TypeOK, dataVars, cacheVars, States
  <1>4. ASSUME Hit(r) PROVE TypeOK'
    <2>1. PICK e \in Hits(r) : call' = [call EXCEPT ![r].ans = e.ver]
      BY <1>4 DEF Hit
    <2>2. e.ver \in Vector(k)
      BY <1>1, <2>1 DEF Hits, TypeOK, EntryOf
    <2>3. DOMAIN call' = Readers /\ \A s \in Readers : \E m \in Keys : call'[s] \in CallOf(m)
      BY <1>0, <2>1, <2>2 DEF TypeOK, CallOf
    <2>4. older' \subseteq Keys \X Keys
      BY <1>1, <1>4, OrderType DEF Hit
    <2> QED
      BY <1>4, <2>3, <2>4 DEF Hit, TypeOK, dataVars, States
  <1>5. ASSUME Join(r) PROVE TypeOK'
    <2>1. DOMAIN call' = Readers /\ \A s \in Readers : \E m \in Keys : call'[s] \in CallOf(m)
      BY <1>0, <1>1, <1>5 DEF Join, TypeOK, CallOf
    <2> QED
      BY <1>5, <2>1 DEF Join, TypeOK, dataVars, cacheVars, States
  <1>6. ASSUME Lead(r) PROVE TypeOK'
    <2>1. DOMAIN call' = Readers /\ \A s \in Readers : \E m \in Keys : call'[s] \in CallOf(m)
      BY <1>0, <1>1, <1>6 DEF Lead, TypeOK, CallOf
    <2>2. \A f \in inflight' : \E m \in Keys : f \in FlightOf(m)
      BY <1>1, <1>6 DEF Lead, TypeOK, FlightOf
    <2> QED
      BY <1>6, <2>1, <2>2 DEF Lead, TypeOK, dataVars, States
  <1>7. ASSUME GiveUp(r) PROVE TypeOK'
    <2>1. DOMAIN call' = Readers /\ \A s \in Readers : \E m \in Keys : call'[s] \in CallOf(m)
      BY <1>0, <1>7 DEF GiveUp, TypeOK, CallOf
    <2> QED
      BY <1>7, <2>1 DEF GiveUp, TypeOK, dataVars, cacheVars, States
  <1>8. ASSUME ReadClock(r) PROVE TypeOK'
    <2>1. DOMAIN call' = Readers /\ \A s \in Readers : \E m \in Keys : call'[s] \in CallOf(m)
      BY <1>0, <1>8 DEF ReadClock, TypeOK, CallOf
    <2> QED
      BY <1>8, <2>1 DEF ReadClock, TypeOK, dataVars, cacheVars, States
  <1> QED
    BY <1>2, <1>3, <1>4, <1>5, <1>6, <1>7, <1>8

\* Every step of a computation keeps the types.
LEMMA ComputeType ==
    ASSUME TypeOK, NEW r \in Readers
    PROVE  /\ \A d \in ALL_DEPS : Load(r, d) => TypeOK'
           /\ Raise(r) \/ Store(r) \/ Discard(r) => TypeOK'
  <1>0. PICK k \in Keys : call[r] \in CallOf(k)
    BY DEF TypeOK
  <1>1. call[r].key = k
    BY <1>0 DEF CallOf
  <1>2. ASSUME NEW d \in ALL_DEPS, Load(r, d) PROVE TypeOK'
    <2>1. DOMAIN call' = Readers /\ \A s \in Readers : \E m \in Keys : call'[s] \in CallOf(m)
      BY <1>0, <1>2 DEF Load, TypeOK, CallOf
    <2>2. got' \in [Readers -> [ALL_DEPS -> Nat \cup {NotRead}]]
      BY <1>2 DEF Load, TypeOK
    <2> QED
      BY <1>2, <2>1, <2>2 DEF Load, TypeOK, dataVars, cacheVars
  <1>3. ASSUME Raise(r) PROVE TypeOK'
    BY <1>3 DEF Raise, TypeOK, dataVars, cacheVars, States
  <1>4. ASSUME Computed(r), call' = [call EXCEPT ![r].ans = Answer(r)]
        PROVE  DOMAIN call' = Readers /\ \A s \in Readers : \E m \in Keys : call'[s] \in CallOf(m)
    <2>1. Answer(r) \in Vector(k)
      BY <1>1, <1>4, AnswerType
    <2> QED
      BY <1>0, <1>4, <2>1 DEF TypeOK, CallOf
  <1>5. ASSUME Store(r) PROVE TypeOK'
    <2>1. Answer(r) \in Vector(k)
      BY <1>1, <1>5, AnswerType DEF Store
    <2>2. NewEntry(r) \in EntryOf(k)
      BY <1>0, <1>1, <2>1, BoundsAssumption DEF NewEntry, CallOf, EntryOf
    <2>3. \A e \in entries' : \E m \in Keys : e \in EntryOf(m)
      BY <1>5, <2>2 DEF Store, Trim, TypeOK
    <2>4. older' \subseteq Keys \X Keys
      BY <1>1, <1>5, OrderType DEF Store
    <2>5. DOMAIN call' = Readers /\ \A s \in Readers : \E m \in Keys : call'[s] \in CallOf(m)
      BY <1>4, <1>5 DEF Store
    <2> QED
      BY <1>5, <2>3, <2>4, <2>5 DEF Store, TypeOK, dataVars, States
  <1>6. ASSUME Discard(r) PROVE TypeOK'
    <2>1. DOMAIN call' = Readers /\ \A s \in Readers : \E m \in Keys : call'[s] \in CallOf(m)
      BY <1>4, <1>6 DEF Discard
    <2> QED
      BY <1>6, <2>1 DEF Discard, TypeOK, dataVars, cacheVars, States
  <1> QED
    BY <1>2, <1>3, <1>5, <1>6

\* Every step that ends a computation, a request or a session keeps the types.
LEMMA LeaveType ==
    ASSUME TypeOK, NEW r \in Readers
    PROVE  Finish(r) \/ Fail(r) \/ Reply(r) \/ CloseSession(r) => TypeOK'
  <1>1. ASSUME NEW next \in States, Land(r, next)
        PROVE  /\ pc' \in [Readers -> States]
               /\ \A f \in inflight' : \E k \in Keys : f \in FlightOf(k)
    BY <1>1 DEF Land, TypeOK, States
  <1>2. ASSUME Finish(r) PROVE TypeOK'
    <2>1. /\ pc' \in [Readers -> States]
          /\ \A f \in inflight' : \E k \in Keys : f \in FlightOf(k)
      BY <1>1, <1>2 DEF Finish, States
    <2> QED
      BY <1>2, <2>1 DEF Finish, TypeOK, dataVars
  <1>3. ASSUME Fail(r) PROVE TypeOK'
    <2>1. /\ pc' \in [Readers -> States]
          /\ \A f \in inflight' : \E k \in Keys : f \in FlightOf(k)
      BY <1>1, <1>3 DEF Fail, States
    <2>2. /\ DOMAIN call' = Readers /\ \A s \in Readers : \E k \in Keys : call'[s] \in CallOf(k)
          /\ got' \in [Readers -> [ALL_DEPS -> Nat \cup {NotRead}]]
      BY <1>3, EndCallType DEF Fail
    <2> QED
      BY <1>3, <2>1, <2>2 DEF Fail, TypeOK, dataVars
  <1>4. ASSUME Reply(r) PROVE TypeOK'
    <2>1. /\ DOMAIN call' = Readers /\ \A s \in Readers : \E k \in Keys : call'[s] \in CallOf(k)
          /\ got' \in [Readers -> [ALL_DEPS -> Nat \cup {NotRead}]]
      BY <1>4, EndCallType DEF Reply
    <2>2. PICK k \in Keys : call[r] \in CallOf(k)
      BY DEF TypeOK
    <2>3. [client |-> r, key |-> call[r].key, etag |-> call[r].etag, ver |-> call[r].ans]
             \in BodyOf(k)
      BY <2>2 DEF CallOf, BodyOf
    <2>4. \A b \in bodies' : \E l \in Keys : b \in BodyOf(l)
      BY <1>4, <2>3 DEF Reply, TypeOK
    <2>5. pc' \in [Readers -> States]
      BY <1>4 DEF Reply, TypeOK, States
    <2> QED
      BY <1>4, <2>1, <2>4, <2>5 DEF Reply, TypeOK, dataVars, cacheVars
  <1>5. ASSUME CloseSession(r) PROVE TypeOK'
    BY <1>5 DEF CloseSession, TypeOK, Nothing, dataVars, cacheVars
  <1> QED
    BY <1>2, <1>3, <1>4, <1>5

\* The clock and a restart keep the types.
LEMMA SystemType == TypeOK /\ (PassTime \/ Restart) => TypeOK'
  <1>1. TypeOK /\ PassTime => TypeOK'
    BY BoundsAssumption DEF PassTime, TypeOK, dataVars, cacheVars, threadVars
  <1>2. ASSUME TypeOK, Restart PROVE TypeOK'
    <2>1. DOMAIN call' = Readers /\ \A s \in Readers : \E k \in Keys : call'[s] \in CallOf(k)
      BY <1>2, NoCallType DEF Restart
    <2> QED
      BY <1>2, <2>1 DEF Restart, TypeOK, Nothing, States
  <1> QED
    BY <1>1, <1>2

\* Every step keeps the types.
LEMMA TypeStep == TypeOK /\ [Next]_vars => TypeOK'
  <1> SUFFICES ASSUME TypeOK, [Next]_vars PROVE TypeOK'
    OBVIOUS
  <1>1. CASE Write
    BY <1>1, WriteType
  <1>2. ASSUME NEW r \in Readers, NEW k \in Keys, NotModified(r, k) \/ Open(r, k)
        PROVE  TypeOK'
    BY <1>2, RequestType
  <1>3. ASSUME NEW r \in Readers, Proceed(r) \/ Raise(r) \/ CloseSession(r) PROVE TypeOK'
    BY <1>3, RequestType, ComputeType, LeaveType DEF Proceed
  <1>4. CASE PassTime \/ Restart
    BY <1>4, SystemType
  <1>5. CASE UNCHANGED vars
    BY <1>5 DEF vars, TypeOK, dataVars, cacheVars, threadVars
  <1> QED
    BY <1>1, <1>2, <1>3, <1>4, <1>5 DEF Next

\* Every state the cache, its writers and its clients can reach is well-typed; in
\* particular every vector belongs to the key it was made for (read_cache.py:129-168).
THEOREM TypeCorrect == Spec => []TypeOK
  BY InitType, TypeStep, PTL DEF Spec

----------------------------------------------------------------------------
(***************************************************************************)
(* Shared computations.                                                    *)
(***************************************************************************)

\* A step that leaves the flights alone, and moves no thread into a flight, out of one or
\* into waiting.
LEMMA FlightFrame ==
    ASSUME TypeOK, FlightInv, inflight' = inflight,
           \A s \in Readers :
              /\ (pc[s] \in Busy /\ call[s].led) <=> (pc'[s] \in Busy /\ call'[s].led)
              /\ pc'[s] = "wait" => pc[s] = "wait"
              /\ pc[s] \in Busy \cup {"wait"} =>
                    call'[s].key = call[s].key /\ call'[s].snap = call[s].snap
    PROVE  FlightInv'
  <1>1. \A f \in inflight : f.owner \in Readers
    BY DEF TypeOK, FlightOf
  <1>2. (\A f \in inflight : /\ pc[f.owner] \in Busy /\ call[f.owner].led
                             /\ call[f.owner].key = f.key /\ call[f.owner].snap = f.snap)'
    BY <1>1 DEF FlightInv
  <1>3. (\A r \in Readers : pc[r] \in Busy /\ call[r].led => OwnFlights(r) # {})'
    BY DEF FlightInv, OwnFlights
  <1>4. (\A w \in Readers : pc[w] = "wait" => Flights(call[w].key, call[w].snap) # {})'
    BY DEF FlightInv, Flights
  <1> QED
    BY <1>2, <1>3, <1>4 DEF FlightInv

\* A computation that ends takes its own flight down and leaves nobody waiting on it.
LEMMA FlightLand ==
    ASSUME TypeOK, FlightInv, NEW r \in Readers, NEW next \in {"served", "idle"},
           Land(r, next), \A s \in Readers \ {r} : call'[s] = call[s]
    PROVE  FlightInv'
  <1>1. \A f \in inflight : f.owner \in Readers
    BY DEF TypeOK, FlightOf
  <1>2. \A s \in Readers \ {r} : pc'[s] \in Busy \cup {"wait"} => pc'[s] = pc[s]
    BY DEF Land, Busy
  <1>3. \A f \in inflight' : f.owner # r
    BY DEF Land, OwnFlights, FlightInv
  <1>4. \A s \in Readers : pc'[s] \in Busy \cup {"wait"} => s # r
    BY DEF Land, Busy
  <1>5. (\A f \in inflight : /\ pc[f.owner] \in Busy /\ call[f.owner].led
                             /\ call[f.owner].key = f.key /\ call[f.owner].snap = f.snap)'
    <2>1. \A s \in Readers \ {r} : pc[s] \in Busy => pc'[s] = pc[s]
      BY DEF Land, WaitingFor, Busy
    <2>2. inflight' \subseteq inflight
      BY DEF Land
    <2> QED
      BY <1>1, <1>3, <2>1, <2>2 DEF FlightInv
  <1>6. (\A s \in Readers : pc[s] \in Busy /\ call[s].led => OwnFlights(s) # {})'
    <2>1. \A s \in Readers \ {r} : OwnFlights(s) \subseteq OwnFlights(s)'
      BY DEF Land, OwnFlights
    <2> QED
      BY <1>2, <1>4, <2>1 DEF FlightInv
  <1>7. (\A w \in Readers : pc[w] = "wait" => Flights(call[w].key, call[w].snap) # {})'
    BY <1>2, <1>4 DEF FlightInv, Land, Flights, WaitingFor
  <1>8. (\A f, g \in inflight : f.key = g.key /\ f.snap = g.snap => f = g)'
    BY DEF FlightInv, Land
  <1> QED
    BY <1>5, <1>6, <1>7, <1>8 DEF FlightInv

\* Every step keeps the account of flights, leaders and waiters.
LEMMA FlightStep == TypeOK /\ FlightInv /\ [Next]_vars => FlightInv'
  <1> SUFFICES ASSUME TypeOK, FlightInv, [Next]_vars PROVE FlightInv'
    OBVIOUS
  <1>1. CASE Write
    <2>1. inflight' = inflight /\ pc' = pc /\ call' = call
      BY <1>1 DEF Write, CommitJob, PublishJob, RespondRequest, CommitRequest,
                  cacheVars, threadVars
    <2> QED
      BY <2>1, FlightFrame
  <1>2. ASSUME NEW r \in Readers, NEW k \in Keys, NotModified(r, k) \/ Open(r, k)
        PROVE  FlightInv'
    BY <1>2, FlightFrame DEF NotModified, Open, TypeOK, Busy, cacheVars
  <1>3. ASSUME NEW r \in Readers, Hit(r) PROVE FlightInv'
    BY <1>3, FlightFrame DEF Hit, TypeOK, Busy
  <1>4. ASSUME NEW r \in Readers, Join(r) PROVE FlightInv'
    <2>1. inflight' = inflight /\ \A s \in Readers \ {r} : pc'[s] = pc[s] /\ call'[s] = call[s]
      BY <1>4 DEF Join, TypeOK, cacheVars
    <2>2. /\ pc[r] = "lookup" /\ pc'[r] = "wait"
          /\ Flights(call'[r].key, call'[r].snap) # {}
      <3>1. PICK k \in Keys : call[r] \in CallOf(k)
        BY DEF TypeOK
      <3>2. call'[r] = [call[r] EXCEPT !.snap = Snap(call[r].key)]
        BY <1>4 DEF Join, TypeOK
      <3>3. call'[r].key = call[r].key /\ call'[r].snap = Snap(call[r].key)
        BY <3>1, <3>2 DEF CallOf
      <3> QED
        BY <1>4, <3>3 DEF Join, TypeOK
    <2>3. \A f \in inflight : f.owner \in Readers \ {r}
      BY <2>2 DEF TypeOK, FlightOf, FlightInv, Busy
    <2>4. (\A f \in inflight : /\ pc[f.owner] \in Busy /\ call[f.owner].led
                               /\ call[f.owner].key = f.key /\ call[f.owner].snap = f.snap)'
      BY <2>1, <2>3 DEF FlightInv
    <2>5. (\A s \in Readers : pc[s] \in Busy /\ call[s].led => OwnFlights(s) # {})'
      BY <2>1, <2>2 DEF FlightInv, OwnFlights, Busy
    <2>6. (\A w \in Readers : pc[w] = "wait" => Flights(call[w].key, call[w].snap) # {})'
      BY <2>1, <2>2 DEF FlightInv, Flights
    <2> QED
      BY <2>1, <2>4, <2>5, <2>6 DEF FlightInv
  <1>5. ASSUME NEW r \in Readers, Lead(r) PROVE FlightInv'
    <2> DEFINE flight == [key |-> call[r].key, snap |-> Snap(call[r].key), owner |-> r]
    <2>1. /\ inflight' = inflight \cup {flight}
          /\ \A s \in Readers \ {r} : pc'[s] = pc[s] /\ call'[s] = call[s]
      BY <1>5 DEF Lead, TypeOK
    <2>2. pc[r] = "lookup" /\ pc'[r] = "compute"
      BY <1>5 DEF Lead, TypeOK
    <2>3. call'[r].key = flight.key /\ call'[r].snap = flight.snap /\ call'[r].led
      <3>1. PICK k \in Keys : call[r] \in CallOf(k)
        BY DEF TypeOK
      <3>2. call'[r] = [call[r] EXCEPT !.snap = Snap(call[r].key), !.led = TRUE]
        BY <1>5 DEF Lead, TypeOK
      <3> QED
        BY <3>1, <3>2 DEF CallOf
    <2>4. \A f \in inflight : f.owner \in Readers \ {r}
      BY <2>2 DEF TypeOK, FlightOf, FlightInv, Busy
    <2>5. \A f \in inflight : ~ (f.key = flight.key /\ f.snap = flight.snap)
      BY <1>5 DEF Lead, Flights
    <2>6. (\A f \in inflight : /\ pc[f.owner] \in Busy /\ call[f.owner].led
                               /\ call[f.owner].key = f.key /\ call[f.owner].snap = f.snap)'
      BY <2>1, <2>2, <2>3, <2>4 DEF FlightInv, Busy
    <2>7. (\A s \in Readers : pc[s] \in Busy /\ call[s].led => OwnFlights(s) # {})'
      <3>1. flight \in OwnFlights(r)'
        BY <2>1, <2>3 DEF OwnFlights
      <3>2. \A s \in Readers \ {r} : OwnFlights(s) \subseteq OwnFlights(s)'
        BY <2>1 DEF OwnFlights
      <3> QED
        BY <2>1, <3>1, <3>2 DEF FlightInv
    <2>8. (\A w \in Readers : pc[w] = "wait" => Flights(call[w].key, call[w].snap) # {})'
      BY <2>1, <2>2 DEF FlightInv, Flights
    <2>9. (\A f, g \in inflight : f.key = g.key /\ f.snap = g.snap => f = g)'
      BY <2>1, <2>5 DEF FlightInv
    <2> QED
      BY <2>6, <2>7, <2>8, <2>9 DEF FlightInv
  <1>6. ASSUME NEW r \in Readers, GiveUp(r) PROVE FlightInv'
    BY <1>6, FlightFrame DEF GiveUp, TypeOK, CallOf, Busy, cacheVars
  <1>7. ASSUME NEW r \in Readers, NEW d \in ALL_DEPS, Load(r, d) PROVE FlightInv'
    BY <1>7, FlightFrame DEF Load, TypeOK, CallOf, cacheVars
  <1>8. ASSUME NEW r \in Readers, Raise(r) \/ Store(r) \/ Discard(r) PROVE FlightInv'
    <2>1. pc[r] = "compute" /\ pc'[r] \in {"raised", "finish"} /\ inflight' = inflight
      BY <1>8 DEF Raise, Store, Discard, Computed, TypeOK, cacheVars
    <2>2. \A s \in Readers \ {r} : pc'[s] = pc[s] /\ call'[s] = call[s]
      BY <1>8 DEF Raise, Store, Discard, TypeOK
    <2>3. /\ call'[r].key = call[r].key /\ call'[r].snap = call[r].snap
          /\ call'[r].led = call[r].led
      BY <1>8 DEF Raise, Store, Discard, TypeOK, CallOf
    <2> QED
      BY <2>1, <2>2, <2>3, FlightFrame DEF Busy
  <1>9. ASSUME NEW r \in Readers, Finish(r) PROVE FlightInv'
    BY <1>9, FlightLand DEF Finish
  <1>10. ASSUME NEW r \in Readers, Fail(r) PROVE FlightInv'
    BY <1>10, FlightLand DEF Fail, EndCall, TypeOK
  <1>11. ASSUME NEW r \in Readers, Reply(r) PROVE FlightInv'
    BY <1>11, FlightFrame DEF Reply, EndCall, TypeOK, Busy, cacheVars
  <1>12. ASSUME NEW r \in Readers, CloseSession(r) PROVE FlightInv'
    BY <1>12, FlightFrame DEF CloseSession, cacheVars
  <1>13. CASE PassTime
    BY <1>13, FlightFrame DEF PassTime, cacheVars, threadVars
  <1>14. CASE Restart
    BY <1>14 DEF Restart, FlightInv, Busy
  <1>15. ASSUME NEW r \in Readers, ReadClock(r) PROVE FlightInv'
    BY <1>15, FlightFrame DEF ReadClock, TypeOK, CallOf, Busy, cacheVars
  <1>16. CASE UNCHANGED vars
    BY <1>16, FlightFrame DEF vars, cacheVars, threadVars
  <1> QED
    BY <1>1, <1>2, <1>3, <1>4, <1>5, <1>6, <1>7, <1>8, <1>9, <1>10, <1>11, <1>12, <1>13,
       <1>14, <1>15, <1>16 DEF Next, Proceed

\* Flights, leaders and waiters always match (read_cache.py:140-168).
THEOREM FlightsTracked == Spec => []FlightInv
  <1>1. Init => FlightInv
    BY DEF Init, FlightInv, Busy
  <1> QED
    BY <1>1, FlightStep, TypeCorrect, PTL DEF Spec

\* However many threads ask for the same key, only one of them computes it at a time,
\* unless it first waited out the timeout (read_cache.py:140-153).
THEOREM OneLeader == Spec => []SingleFlight
  <1>1. TypeOK /\ FlightInv => SingleFlight
    BY DEF FlightInv, SingleFlight, OwnFlights, Busy
  <1> QED
    BY <1>1, FlightsTracked, TypeCorrect, PTL

\* Nobody ever waits on a flight whose thread is gone (read_cache.py:164-168).
THEOREM NoOrphanedWaiter == Spec => []WaitersHaveLeader
  <1>1. TypeOK /\ FlightInv => WaitersHaveLeader
    <2> SUFFICES ASSUME TypeOK, FlightInv, NEW w \in Readers, pc[w] = "wait"
                 PROVE  \E r \in Readers :
                           /\ pc[r] \in Busy
                           /\ [key |-> call[w].key, snap |-> call[w].snap, owner |-> r] \in inflight
      BY DEF WaitersHaveLeader, Busy
    <2>1. PICK f \in inflight : f.key = call[w].key /\ f.snap = call[w].snap
      BY DEF FlightInv, Flights
    <2>2. f = [key |-> call[w].key, snap |-> call[w].snap, owner |-> f.owner] /\ f.owner \in Readers
      BY <2>1 DEF TypeOK, FlightOf
    <2> QED
      BY <2>2 DEF FlightInv
  <1> QED
    BY <1>1, FlightsTracked, TypeCorrect, PTL
----------------------------------------------------------------------------
(***************************************************************************)
(* The cap.  An insertion is one entry too many at most, and what is       *)
(* dropped is what nothing was used before: older orders the cached keys,  *)
(* and a finite order has a first element.                                 *)
(***************************************************************************)

\* A strict order of the keys in K.
StrictOrder(O, K) ==
    /\ O \subseteq K \X K
    /\ \A a \in K : <<a, a>> \notin O
    /\ \A a, b, c \in K : <<a, b>> \in O /\ <<b, c>> \in O => <<a, c>> \in O

SlotsInv ==
    /\ IsFiniteSet(entries)
    /\ CacheBounded
    /\ StrictOrder(older, Cached)

\* A finite set that is strictly ordered by key has an element with none before it.
LEMMA FirstInOrder ==
    ASSUME NEW S, IsFiniteSet(S), S # {}, NEW O, StrictOrder(O, {e.key : e \in S})
    PROVE  \E e \in S : \A o \in S : <<o.key, e.key>> \notin O
  <1> DEFINE Before(e) == {o \in S : <<o.key, e.key>> \in O}
             Befores == {Before(e) : e \in S}
             R == StrictSubsetOrdering(S)
  <1>1. IsWellFoundedOn(R, FiniteSubsetsOf(S)) /\ FiniteSubsetsOf(S) = SUBSET S
    BY FS_StrictSubsetOrderingWellFounded, FS_FiniteSubsetsOfFinite
  <1>2. Befores \subseteq SUBSET S /\ Befores # {}
    <2>1. \A e \in S : Before(e) \in SUBSET S /\ Before(e) \in Befores
      OBVIOUS
    <2> QED
      BY <2>1
  <1>3. \E x \in Befores : \A y \in Befores : <<y, x>> \notin R
    <2> HIDE DEF R, Befores
    <2> QED
      BY <1>1, <1>2, WFMin
  <1>4. PICK e \in S : \A o \in S : <<Before(o), Before(e)>> \notin R
    <2> HIDE DEF R, Before
    <2> QED
      BY <1>3
  <1>5. SUFFICES ASSUME NEW o \in S, <<o.key, e.key>> \in O PROVE FALSE
    BY <1>4
  <1>6. Before(o) \subseteq Before(e) /\ o \in Before(e) /\ o \notin Before(o)
    <2>1. \A x \in S : x.key \in {y.key : y \in S}
      OBVIOUS
    <2> QED
      BY <1>5, <2>1 DEF StrictOrder
  <1>7. <<Before(o), Before(e)>> \in R
    BY <1>6 DEF StrictSubsetOrdering
  <1> QED
    BY <1>4, <1>7

\* Fewer keys are still in order.
LEMMA OrderRestricted ==
    ASSUME NEW O, NEW K, StrictOrder(O, K), NEW L \in SUBSET K
    PROVE  StrictOrder({p \in O : {p[1], p[2]} \subseteq L}, L)
  BY DEF StrictOrder

\* A key that is used comes last.
LEMMA OrderMoved ==
    ASSUME StrictOrder(older, Cached), NEW k
    PROVE  StrictOrder(MoveToEnd(k), Cached \cup {k})
  <1>1. \A p \in MoveToEnd(k) : \/ p \in older /\ p[1] # k /\ p[2] # k
                                \/ \E o \in Cached \ {k} : p = <<o, k>>
    BY DEF MoveToEnd
  <1>2. \A a, b : <<a, b>> \in MoveToEnd(k) <=>
                    \/ <<a, b>> \in older /\ a # k /\ b # k
                    \/ a \in Cached /\ a # k /\ b = k
    BY DEF MoveToEnd
  <1>3. MoveToEnd(k) \subseteq (Cached \cup {k}) \X (Cached \cup {k})
    BY <1>1 DEF StrictOrder
  <1>4. \A a \in Cached \cup {k} : <<a, a>> \notin MoveToEnd(k)
    BY <1>2 DEF StrictOrder
  <1>5. \A a, b, c : <<a, b>> \in MoveToEnd(k) /\ <<b, c>> \in MoveToEnd(k) => <<a, c>> \in MoveToEnd(k)
    BY <1>2 DEF StrictOrder
  <1> QED
    BY <1>3, <1>4, <1>5 DEF StrictOrder

\* What is left of one entry too many is within the cap.
LEMMA TrimFits ==
    ASSUME NEW S, IsFiniteSet(S), Cardinality(S) <= MaxEntries + 1,
           NEW O, StrictOrder(O, {e.key : e \in S})
    PROVE  /\ Trim(S, O) \subseteq S /\ IsFiniteSet(Trim(S, O))
           /\ Cardinality(Trim(S, O)) <= MaxEntries
  <1>1. Trim(S, O) \subseteq S
    BY DEF Trim
  <1>2. IsFiniteSet(Trim(S, O)) /\ Cardinality(Trim(S, O)) <= Cardinality(S)
        /\ (Cardinality(S) = Cardinality(Trim(S, O)) => S = Trim(S, O))
    BY <1>1, FS_Subset
  <1>3. Cardinality(S) \in Nat /\ Cardinality(Trim(S, O)) \in Nat
    BY <1>2, FS_CardinalityType
  <1>4. CASE Cardinality(S) > MaxEntries
    <2>1. S # {}
      BY <1>4, FS_EmptySet, BoundsAssumption
    <2>2. PICK e \in S : \A o \in S : <<o.key, e.key>> \notin O
      BY <2>1, FirstInOrder
    <2>3. e \notin Trim(S, O)
      BY <1>4, <2>2 DEF Trim
    <2> QED
      BY <1>1, <1>2, <1>3, <2>3, BoundsAssumption
  <1>5. CASE ~ (Cardinality(S) > MaxEntries)
    BY <1>1, <1>2, <1>3, <1>5, BoundsAssumption
  <1> QED
    BY <1>1, <1>2, <1>4, <1>5

\* A step that only drops entries, and their keys from the order.
LEMMA SlotsFewer ==
    ASSUME SlotsInv, entries' \subseteq entries,
           older' = {p \in older : {p[1], p[2]} \subseteq Cached'}
    PROVE  SlotsInv'
  <1>1. IsFiniteSet(entries') /\ Cardinality(entries') <= Cardinality(entries)
    BY FS_Subset DEF SlotsInv
  <1>2. Cardinality(entries) \in Nat /\ Cardinality(entries') \in Nat
    BY <1>1, FS_CardinalityType DEF SlotsInv
  <1>3. Cached' \subseteq Cached
    BY DEF Cached
  <1>4. StrictOrder(older', Cached')
    BY <1>3, OrderRestricted DEF SlotsInv
  <1> QED
    BY <1>1, <1>2, <1>4, BoundsAssumption DEF SlotsInv, CacheBounded

LEMMA SlotsSame ==
    ASSUME SlotsInv, UNCHANGED <<entries, older>> PROVE SlotsInv'
  BY DEF SlotsInv, CacheBounded, StrictOrder, Cached

LEMMA SlotsStore == ASSUME SlotsInv, NEW r \in Readers, Store(r) PROVE SlotsInv'
  <1> DEFINE k == call[r].key
             others == {e \in entries : e.key # k}
             S == others \cup {NewEntry(r)}
             O == MoveToEnd(k)
  <1>1. entries' = Trim(S, O) /\ older' = {p \in O : {p[1], p[2]} \subseteq {e.key : e \in entries'}}
    BY DEF Store
  <1>2. IsFiniteSet(others) /\ Cardinality(others) <= Cardinality(entries)
    BY FS_Subset DEF SlotsInv
  <1>3. IsFiniteSet(S) /\ Cardinality(S) <= MaxEntries + 1
    <2>1. Cardinality(others) \in Nat /\ Cardinality(entries) \in Nat
      BY <1>2, FS_CardinalityType DEF SlotsInv
    <2>2. /\ IsFiniteSet(S)
          /\ Cardinality(S) = Cardinality(others) \/ Cardinality(S) = Cardinality(others) + 1
      <3> HIDE DEF others
      <3> QED
        BY <1>2, FS_AddElement
    <2>3. Cardinality(entries) <= MaxEntries /\ MaxEntries \in Nat
      BY BoundsAssumption DEF SlotsInv, CacheBounded
    <2> HIDE DEF S, others
    <2> QED
      BY <1>2, <2>1, <2>2, <2>3
  <1>4. NewEntry(r).key = k
    BY DEF NewEntry
  <1>5. {e.key : e \in S} = Cached \cup {k}
    BY <1>4 DEF Cached
  <1>6. StrictOrder(O, {e.key : e \in S})
    BY <1>5, OrderMoved DEF SlotsInv
  <1>7. /\ entries' \subseteq S /\ IsFiniteSet(entries')
        /\ Cardinality(entries') <= MaxEntries
    BY <1>1, <1>3, <1>6, TrimFits
  <1>8. \A e, f \in S : e.key = f.key => e = f
    BY <1>4 DEF SlotsInv, CacheBounded
  <1>9. Cached' \subseteq {e.key : e \in S}
    BY <1>7 DEF Cached
  <1>10. StrictOrder(older', Cached')
    BY <1>1, <1>6, <1>9, OrderRestricted DEF Cached
  <1> QED
    BY <1>7, <1>8, <1>10 DEF SlotsInv, CacheBounded

\* Every step keeps the cap and the order.
LEMMA SlotsStep == SlotsInv /\ [Next]_vars => SlotsInv'
  <1> SUFFICES ASSUME SlotsInv, [Next]_vars PROVE SlotsInv'
    OBVIOUS
  <1>1. CASE Write
    <2>1. ASSUME NEW D, Invalidate(D) PROVE SlotsInv'
      BY <2>1, SlotsFewer DEF Invalidate, Cached
    <2> QED
      BY <1>1, <2>1, SlotsSame DEF Write, CommitJob, PublishJob, RespondRequest, CommitRequest, cacheVars
  <1>2. ASSUME NEW r \in Readers, Hit(r) PROVE SlotsInv'
    <2>1. call[r].key \in Cached
      BY <1>2 DEF Hit, Hits, Cached
    <2>2. StrictOrder(MoveToEnd(call[r].key), Cached)
      <3>1. Cached \cup {call[r].key} = Cached
        BY <2>1
      <3> QED
        BY <3>1, OrderMoved DEF SlotsInv
    <2> QED
      BY <1>2, <2>2 DEF Hit, SlotsInv, CacheBounded, Cached, StrictOrder
  <1>3. ASSUME NEW r \in Readers, Store(r) PROVE SlotsInv'
    BY <1>3, SlotsStore
  <1>4. CASE Restart
    BY <1>4, FS_EmptySet, BoundsAssumption DEF Restart, SlotsInv, CacheBounded, StrictOrder, Cached
  <1>5. CASE UNCHANGED <<entries, older>>
    BY <1>5, SlotsSame
  <1>6. ASSUME NEW r \in Readers, Proceed(r) \/ Raise(r) \/ CloseSession(r) PROVE SlotsInv'
    BY <1>2, <1>3, <1>5, <1>6
       DEF Proceed, Raise, CloseSession, ReadClock, Join, Lead, GiveUp, Load, Discard, Finish, Fail,
           Reply, cacheVars
  <1>7. ASSUME NEW r \in Readers, NEW k \in Keys, NotModified(r, k) \/ Open(r, k) PROVE SlotsInv'
    BY <1>5, <1>7 DEF NotModified, Open, cacheVars
  <1>8. CASE PassTime \/ UNCHANGED vars
    BY <1>5, <1>8 DEF PassTime, vars, cacheVars
  <1> QED
    BY <1>1, <1>4, <1>6, <1>7, <1>8 DEF Next

\* The cache never holds more than MAX_ENTRIES answers, nor two for a key, whatever is
\* stored, dropped and used in whatever order (read_cache.py:156-162).
THEOREM CacheWithinCap == Spec => []CacheBounded
  <1>1. Init => SlotsInv
    BY FS_EmptySet, BoundsAssumption DEF Init, SlotsInv, CacheBounded, StrictOrder, Cached
  <1>2. SlotsInv => CacheBounded
    BY DEF SlotsInv
  <1> QED
    BY <1>1, <1>2, SlotsStep, PTL DEF Spec

----------------------------------------------------------------------------
(***************************************************************************)
(* Freshness, where every call has a session of its own.                   *)
(***************************************************************************)

\* What was bumped had been committed.
HistoryInv == \A d \in ALL_DEPS : bumped[d] <= db[d]

\* The cache is always at the current generations, with data as new as their last bump.
EntriesInv ==
    \A e \in entries :
        /\ e.snap = Snap(e.key)
        /\ \A d \in ReadsOf[e.key] : bumped[d] <= e.ver[d] /\ e.ver[d] <= db[d]

\* A copy whose ETag is current for a dependency is as new as its last bump.
BodiesInv ==
    \A b \in bodies :
        /\ b.etag.boot <= boot
        /\ \A d \in ReadsOf[b.key] :
              /\ b.ver[d] <= db[d]
              /\ b.etag.boot = boot => b.etag.snap[d] <= gens[d]
              /\ b.etag.boot = boot /\ b.etag.snap[d] = gens[d] => bumped[d] <= b.ver[d]

\* What a request saw bumped stays bumped.
SinceInv(r) == \A d \in ALL_DEPS : call[r].since[d] <= bumped[d]

\* A request's ETag is from this process and not newer than the snapshot of its cache
\* look-up, which is not newer than the generations.
SnapshotInv(r) ==
    /\ pc[r] # "idle" => call[r].etag.boot = boot
    /\ \A d \in ReadsOf[call[r].key] :
          call[r].etag.snap[d] <= call[r].snap[d] /\ call[r].snap[d] <= gens[d]

\* What a session has loaded was committed and is as new as the request; and as new as
\* the last bump, for a dependency not bumped since the snapshot.
LoadsInv(r) ==
    /\ pc[r] \in {"idle", "start", "lookup", "wait"} => got[r] = Nothing
    /\ \A d \in ALL_DEPS : got[r][d] # NotRead =>
          /\ call[r].since[d] <= got[r][d] /\ got[r][d] <= db[d]
          /\ (pc[r] = "compute" /\ d \in ReadsOf[call[r].key] /\ call[r].snap[d] = gens[d])
                 => bumped[d] <= got[r][d]

\* An answer is as new as its request, and as new as the last bump where its ETag is current.
AnswersInv(r) ==
    pc[r] \in {"finish", "served"} =>
        \A d \in ReadsOf[call[r].key] :
            /\ call[r].since[d] <= call[r].ans[d] /\ call[r].ans[d] <= db[d]
            /\ call[r].etag.snap[d] = gens[d] => bumped[d] <= call[r].ans[d]

ThreadInv(r) == SinceInv(r) /\ SnapshotInv(r) /\ LoadsInv(r) /\ AnswersInv(r)

FreshInv == HistoryInv /\ EntriesInv /\ BodiesInv /\ \A r \in Readers : ThreadInv(r)

----------------------------------------------------------------------------
\* What the type invariant says of the numbers the proofs compare.
LEMMA Numbers ==
    ASSUME TypeOK
    PROVE  /\ boot \in Nat
           /\ \A d \in ALL_DEPS : db[d] \in Nat /\ bumped[d] \in Nat /\ gens[d] \in Nat
           /\ \A k \in Keys : ReadsOf[k] \subseteq ALL_DEPS
           /\ \A e \in entries : /\ e.key \in Keys
                                 /\ e.snap \in Vector(e.key) /\ e.ver \in Vector(e.key)
           /\ \A b \in bodies : /\ b.key \in Keys /\ b.etag.boot \in Nat
                                /\ b.etag.snap \in Vector(b.key) /\ b.ver \in Vector(b.key)
  <1>1. {db, bumped, gens} \subseteq [ALL_DEPS -> Nat] /\ boot \in Nat
    BY DEF TypeOK
  <1>2. \A e \in entries : e.key \in Keys /\ e.snap \in Vector(e.key) /\ e.ver \in Vector(e.key)
    BY DEF TypeOK, EntryOf
  <1>3. \A b \in bodies : /\ b.key \in Keys /\ b.etag.boot \in Nat
                          /\ b.etag.snap \in Vector(b.key) /\ b.ver \in Vector(b.key)
    BY DEF TypeOK, BodyOf, EtagOf
  <1> QED
    BY <1>1, <1>2, <1>3, ReadsOfAssumption

\* What the type invariant says of the locals of one thread.
LEMMA ThreadNumbers ==
    ASSUME TypeOK, NEW r \in Readers
    PROVE  /\ call[r].key \in Keys
           /\ call[r].etag.boot \in Nat
           /\ call[r].etag.snap \in Vector(call[r].key)
           /\ call[r].snap \in Vector(call[r].key)
           /\ call[r].ans \in Vector(call[r].key)
           /\ call[r].since \in [ALL_DEPS -> Nat]
           /\ got[r] \in [ALL_DEPS -> Nat \cup {NotRead}]
  <1>1. PICK k \in Keys : call[r] \in CallOf(k)
    BY DEF TypeOK
  <1> QED
    BY <1>1 DEF CallOf, EtagOf, TypeOK

\* A step that bumps nothing leaves a thread it does not touch as fresh as it was; waking
\* it up changes nothing.
LEMMA OtherThread ==
    ASSUME NEW r \in Readers, ThreadInv(r),
           UNCHANGED <<db, bumped, gens, boot>>,
           call'[r] = call[r], got'[r] = got[r],
           pc'[r] = pc[r] \/ (pc[r] = "wait" /\ pc'[r] = "start")
    PROVE  ThreadInv(r)'
  <1>1. SinceInv(r)' /\ SnapshotInv(r)'
    BY DEF ThreadInv, SinceInv, SnapshotInv
  <1>2. LoadsInv(r)'
    BY DEF ThreadInv, LoadsInv
  <1>3. AnswersInv(r)'
    BY DEF ThreadInv, AnswersInv
  <1> QED
    BY <1>1, <1>2, <1>3 DEF ThreadInv

----------------------------------------------------------------------------
(***************************************************************************)
(* The writers.                                                            *)
(***************************************************************************)

\* A commit makes the database newer and nothing else older.
LEMMA FreshCommit ==
    ASSUME TypeOK, FreshInv, NEW D \in SUBSET ALL_DEPS, CommitData(D),
           UNCHANGED <<bumped, gens, boot, entries, threadVars, bodies>>
    PROVE  FreshInv'
  <1>1. \A d \in ALL_DEPS : db[d] \in Nat /\ db'[d] \in Nat /\ db[d] <= db'[d]
    BY DEF CommitData, TypeOK
  <1>2. HistoryInv'
    BY <1>1, Numbers DEF FreshInv, HistoryInv
  <1>3. EntriesInv'
    BY <1>1, Numbers DEF FreshInv, EntriesInv, Snap, Vector
  <1>4. BodiesInv'
    BY <1>1, Numbers DEF FreshInv, BodiesInv, Vector
  <1>5. ASSUME NEW r \in Readers PROVE ThreadInv(r)'
    <2>1. SinceInv(r)' /\ SnapshotInv(r)'
      BY DEF FreshInv, ThreadInv, SinceInv, SnapshotInv, threadVars
    <2>2. LoadsInv(r)'
      BY <1>1, ThreadNumbers DEF FreshInv, ThreadInv, LoadsInv, threadVars, NotRead
    <2>3. AnswersInv(r)'
      BY <1>1, Numbers, ThreadNumbers DEF FreshInv, ThreadInv, AnswersInv, threadVars, Vector
    <2> QED
      BY <2>1, <2>2, <2>3 DEF ThreadInv
  <1> QED
    BY <1>2, <1>3, <1>4, <1>5 DEF FreshInv

\* An invalidation drops what it makes stale and moves the generations past every snapshot
\* and ETag taken before it.
LEMMA FreshInvalidate ==
    ASSUME TypeOK, FreshInv, NEW D \in SUBSET ALL_DEPS, Invalidate(D),
           UNCHANGED <<db, boot, threadVars, bodies>>
    PROVE  FreshInv'
  <1>1. \A d \in ALL_DEPS \ D : gens'[d] = gens[d] /\ bumped'[d] = bumped[d]
    BY DEF Invalidate
  <1>2. \A d \in D : gens'[d] = gens[d] + 1 /\ bumped'[d] = db[d]
    BY DEF Invalidate
  <1>3. \A d \in ALL_DEPS : bumped[d] <= bumped'[d] /\ bumped'[d] <= db[d] /\ gens[d] <= gens'[d]
    BY <1>1, <1>2, Numbers DEF FreshInv, HistoryInv
  <1>4. HistoryInv'
    BY <1>3 DEF HistoryInv
  <1>5. EntriesInv'
    <2> SUFFICES ASSUME NEW e \in entries'
                 PROVE  (/\ e.snap = Snap(e.key)
                         /\ \A d \in ReadsOf[e.key] : bumped[d] <= e.ver[d] /\ e.ver[d] <= db[d])'
      BY DEF EntriesInv
    <2>1. e \in entries /\ \A d \in ReadsOf[e.key] : d \in ALL_DEPS \ D
      BY Numbers DEF Invalidate
    <2>2. Snap(e.key)' = Snap(e.key)
      BY <1>1, <2>1 DEF Snap
    <2> QED
      BY <1>1, <2>1, <2>2 DEF FreshInv, EntriesInv
  <1>6. BodiesInv'
    <2> SUFFICES ASSUME NEW b \in bodies, NEW d \in ReadsOf[b.key]
                 PROVE  (/\ b.ver[d] <= db[d]
                         /\ b.etag.boot = boot => b.etag.snap[d] <= gens[d]
                         /\ b.etag.boot = boot /\ b.etag.snap[d] = gens[d] => bumped[d] <= b.ver[d])'
      BY DEF FreshInv, BodiesInv
    <2>1. d \in ALL_DEPS /\ b.etag.snap[d] \in Nat /\ gens[d] \in Nat
      BY Numbers DEF Vector
    <2>2. /\ b.ver[d] <= db[d]
          /\ b.etag.boot = boot => b.etag.snap[d] <= gens[d]
          /\ b.etag.boot = boot /\ b.etag.snap[d] = gens[d] => bumped[d] <= b.ver[d]
      BY DEF FreshInv, BodiesInv
    <2>3. CASE d \in D
      BY <1>2, <2>1, <2>2, <2>3
    <2>4. CASE d \notin D
      BY <1>1, <2>1, <2>2, <2>4
    <2> QED
      BY <2>3, <2>4
  <1>7. ASSUME NEW r \in Readers PROVE ThreadInv(r)'
    <2>1. \A d \in ReadsOf[call[r].key] :
             /\ d \in ALL_DEPS /\ call[r].snap[d] \in Nat /\ call[r].etag.snap[d] \in Nat
             /\ call[r].etag.snap[d] <= call[r].snap[d] /\ call[r].snap[d] <= gens[d]
             /\ gens[d] \in Nat
      BY Numbers, ThreadNumbers DEF FreshInv, ThreadInv, SnapshotInv, Vector
    <2>2. SinceInv(r)'
      BY <1>1, <1>2, <1>3, Numbers, ThreadNumbers DEF FreshInv, ThreadInv, SinceInv, threadVars
    <2>3. SnapshotInv(r)'
      BY <1>1, <1>2, <2>1 DEF FreshInv, ThreadInv, SnapshotInv, threadVars
    <2>4. LoadsInv(r)'
      BY <1>1, <1>2, <2>1 DEF FreshInv, ThreadInv, LoadsInv, threadVars
    <2>5. AnswersInv(r)'
      BY <1>1, <1>2, <2>1 DEF FreshInv, ThreadInv, AnswersInv, threadVars
    <2> QED
      BY <2>2, <2>3, <2>4, <2>5 DEF ThreadInv
  <1> QED
    BY <1>4, <1>5, <1>6, <1>7 DEF FreshInv

----------------------------------------------------------------------------
(***************************************************************************)
(* The threads.                                                            *)
(***************************************************************************)

\* A step of one thread that bumps nothing: what is left to show of it.
LEMMA FreshThread ==
    ASSUME FreshInv, NEW r \in Readers,
           UNCHANGED <<db, bumped, gens, boot>>,
           \A s \in Readers \ {r} :
              /\ call'[s] = call[s] /\ got'[s] = got[s]
              /\ pc'[s] = pc[s] \/ (pc[s] = "wait" /\ pc'[s] = "start"),
           entries' = entries \/ EntriesInv',
           bodies' = bodies \/ BodiesInv',
           ThreadInv(r)'
    PROVE  FreshInv'
  <1>1. HistoryInv'
    BY DEF FreshInv, HistoryInv
  <1>2. EntriesInv'
    BY DEF FreshInv, EntriesInv, Snap
  <1>3. BodiesInv'
    BY DEF FreshInv, BodiesInv
  <1>4. \A s \in Readers \ {r} : ThreadInv(s)'
    BY OtherThread DEF FreshInv
  <1> QED
    BY <1>1, <1>2, <1>3, <1>4 DEF FreshInv

\* A request that comes in has loaded nothing and carries the current generations.
LEMMA FreshArrival ==
    ASSUME TypeOK, FreshInv, NEW r \in Readers, NEW k \in Keys,
           NotModified(r, k) \/ Open(r, k)
    PROVE  FreshInv'
  <1>1. /\ pc[r] = "idle" /\ UNCHANGED <<db, bumped, gens, boot, entries, bodies, got>>
        /\ \A s \in Readers \ {r} : pc'[s] = pc[s] /\ call'[s] = call[s]
    BY DEF NotModified, Open, dataVars, cacheVars, TypeOK
  <1>2. got'[r] = Nothing
    BY <1>1 DEF FreshInv, ThreadInv, LoadsInv
  <1>3. /\ call'[r].key = k /\ call'[r].snap = Snap(k) /\ call'[r].etag = Etag(k)
        /\ call'[r].since = bumped
    BY DEF NotModified, Open, NewCall, TypeOK
  <1>4. \A d \in ReadsOf[k] : d \in ALL_DEPS /\ Snap(k)[d] = gens[d] /\ gens[d] \in Nat
    BY Numbers DEF Snap
  <1>5. SinceInv(r)' /\ SnapshotInv(r)'
    BY <1>1, <1>3, <1>4, Numbers DEF SinceInv, SnapshotInv, Etag
  <1>6. LoadsInv(r)'
    BY <1>2 DEF LoadsInv, Nothing
  <1>7. AnswersInv(r)'
    <2>1. CASE Open(r, k)
      BY <2>1 DEF Open, AnswersInv, TypeOK
    <2>2. CASE NotModified(r, k)
      <3>1. PICK b \in Matching(r, k) : call' = [call EXCEPT ![r] = [NewCall(k) EXCEPT !.ans = b.ver]]
        BY <2>2 DEF NotModified
      <3>2. call'[r].ans = b.ver
        BY <3>1 DEF TypeOK, NewCall
      <3>3. b \in bodies /\ b.key = k /\ b.etag.boot = boot /\ b.etag.snap = Snap(k)
        BY DEF Matching, Etag
      <3>4. \A d \in ReadsOf[k] : bumped[d] <= b.ver[d] /\ b.ver[d] <= db[d]
        BY <1>4, <3>3 DEF FreshInv, BodiesInv
      <3> QED
        BY <1>1, <1>3, <1>4, <3>2, <3>4 DEF AnswersInv
    <2> QED
      BY <2>1, <2>2
  <1> QED
    BY <1>1, <1>5, <1>6, <1>7, FreshThread DEF ThreadInv

\* A hit hands out an answer as new as the last bump of everything in it.
LEMMA FreshHit ==
    ASSUME TypeOK, FreshInv, NEW r \in Readers, Hit(r)
    PROVE  FreshInv'
  <1>1. /\ pc[r] = "lookup" /\ UNCHANGED <<db, bumped, gens, boot, entries, bodies, got>>
        /\ \A s \in Readers \ {r} : pc'[s] = pc[s] /\ call'[s] = call[s]
        /\ pc'[r] = "served"
    BY DEF Hit, dataVars, TypeOK
  <1>2. PICK e \in Hits(r) : call' = [call EXCEPT ![r].ans = e.ver]
    BY DEF Hit
  <1>3. /\ call'[r].key = call[r].key /\ call'[r].snap = call[r].snap
        /\ call'[r].etag = call[r].etag /\ call'[r].since = call[r].since
        /\ call'[r].ans = e.ver
    BY <1>2 DEF TypeOK, CallOf
  <1>4. \A d \in ReadsOf[call[r].key] : /\ d \in ALL_DEPS /\ e.ver[d] \in Nat
                                        /\ bumped[d] <= e.ver[d] /\ e.ver[d] <= db[d]
    BY Numbers, ThreadNumbers DEF Hits, FreshInv, EntriesInv, Vector
  <1>5. SinceInv(r)' /\ SnapshotInv(r)'
    BY <1>1, <1>3 DEF FreshInv, ThreadInv, SinceInv, SnapshotInv
  <1>6. LoadsInv(r)'
    BY <1>1 DEF FreshInv, ThreadInv, LoadsInv, Nothing
  <1>7. AnswersInv(r)'
    <2>1. \A d \in ReadsOf[call[r].key] : call[r].since[d] <= bumped[d]
      BY <1>4 DEF FreshInv, ThreadInv, SinceInv
    <2> QED
      BY <1>1, <1>3, <1>4, <2>1, Numbers, ThreadNumbers DEF AnswersInv
  <1> QED
    BY <1>1, <1>5, <1>6, <1>7, FreshThread DEF ThreadInv

\* Taking a new snapshot, or giving up the wait, loads and answers nothing.
LEMMA FreshTurn ==
    ASSUME TypeOK, FreshInv, NEW r \in Readers, ReadClock(r) \/ Join(r) \/ Lead(r) \/ GiveUp(r)
    PROVE  FreshInv'
  <1>1. /\ pc[r] \in {"start", "lookup", "wait"} /\ UNCHANGED <<db, bumped, gens, boot, entries, bodies, got>>
        /\ \A s \in Readers \ {r} : pc'[s] = pc[s] /\ call'[s] = call[s]
        /\ pc'[r] \in {"lookup", "wait", "compute"}
    BY DEF ReadClock, Join, Lead, GiveUp, dataVars, cacheVars, TypeOK
  <1>2. /\ call'[r].key = call[r].key /\ call'[r].etag = call[r].etag
        /\ call'[r].since = call[r].since
        /\ call'[r].snap \in {call[r].snap, Snap(call[r].key)}
    BY DEF ReadClock, Join, Lead, GiveUp, TypeOK, CallOf
  <1>3. \A d \in ReadsOf[call[r].key] :
           /\ d \in ALL_DEPS /\ Snap(call[r].key)[d] = gens[d] /\ gens[d] \in Nat
           /\ call[r].snap[d] \in Nat /\ call[r].etag.snap[d] \in Nat
    BY Numbers, ThreadNumbers DEF Snap, Vector
  <1>4. SinceInv(r)' /\ SnapshotInv(r)'
    BY <1>1, <1>2, <1>3 DEF FreshInv, ThreadInv, SinceInv, SnapshotInv
  <1>5. LoadsInv(r)'
    BY <1>1 DEF FreshInv, ThreadInv, LoadsInv, Nothing
  <1>6. AnswersInv(r)'
    BY <1>1 DEF AnswersInv
  <1> QED
    BY <1>1, <1>4, <1>5, <1>6, FreshThread DEF ThreadInv

\* What is loaded now is the committed version, which is as new as any bump.
LEMMA FreshLoad ==
    ASSUME TypeOK, FreshInv, NEW r \in Readers, NEW d \in ALL_DEPS, Load(r, d)
    PROVE  FreshInv'
  <1>1. /\ pc[r] = "compute" /\ UNCHANGED <<db, bumped, gens, boot, entries, bodies, pc>>
        /\ \A s \in Readers \ {r} : got'[s] = got[s] /\ call'[s] = call[s]
        /\ got'[r] = [got[r] EXCEPT ![d] = db[d]]
    BY DEF Load, dataVars, cacheVars, TypeOK
  <1>2. /\ call'[r].key = call[r].key /\ call'[r].etag = call[r].etag
        /\ call'[r].since = call[r].since /\ call'[r].snap = call[r].snap
    BY DEF Load, TypeOK, CallOf
  <1>3. SinceInv(r)' /\ SnapshotInv(r)' /\ AnswersInv(r)'
    BY <1>1, <1>2 DEF FreshInv, ThreadInv, SinceInv, SnapshotInv, AnswersInv
  <1>4. call[r].since[d] <= bumped[d] /\ bumped[d] <= db[d] /\ call[r].since[d] <= db[d]
    BY Numbers, ThreadNumbers DEF FreshInv, HistoryInv, ThreadInv, SinceInv
  <1>5. \A o \in ALL_DEPS \ {d} : got'[r][o] = got[r][o]
    BY <1>1, ThreadNumbers
  <1>6. got'[r][d] = db[d] /\ db[d] \in Nat
    BY <1>1, Numbers, ThreadNumbers
  <1>7. LoadsInv(r)'
    BY <1>1, <1>2, <1>4, <1>5, <1>6 DEF FreshInv, ThreadInv, LoadsInv
  <1> QED
    BY <1>1, <1>3, <1>7, FreshThread DEF ThreadInv

\* A finished computation: its answer is as new as its request, and as new as the last bump
\* of whatever was not bumped meanwhile; only if nothing was is it stored.
LEMMA FreshComputed ==
    ASSUME TypeOK, FreshInv, NEW r \in Readers, Store(r) \/ Discard(r)
    PROVE  FreshInv'
  <1>1. /\ Computed(r) /\ pc[r] = "compute" /\ UNCHANGED <<db, bumped, gens, boot, bodies, got>>
        /\ \A s \in Readers \ {r} : pc'[s] = pc[s] /\ call'[s] = call[s]
        /\ pc'[r] = "finish" /\ call' = [call EXCEPT ![r].ans = Answer(r)]
    BY DEF Store, Discard, Computed, dataVars, cacheVars, TypeOK
  <1>2. /\ call'[r].key = call[r].key /\ call'[r].snap = call[r].snap
        /\ call'[r].etag = call[r].etag /\ call'[r].since = call[r].since
        /\ call'[r].ans = Answer(r)
    BY <1>1 DEF TypeOK, CallOf
  <1>3. \A d \in ReadsOf[call[r].key] :
           /\ d \in ALL_DEPS /\ Answer(r)[d] = got[r][d]
           /\ call[r].since[d] <= got[r][d] /\ got[r][d] <= db[d]
           /\ call[r].snap[d] = gens[d] => bumped[d] <= got[r][d]
    BY <1>1, Numbers, ThreadNumbers DEF Computed, Answer, FreshInv, ThreadInv, LoadsInv
  <1>4. \A d \in ReadsOf[call[r].key] :
           call[r].etag.snap[d] = gens[d] => call[r].snap[d] = gens[d]
    BY <1>3, Numbers, ThreadNumbers DEF FreshInv, ThreadInv, SnapshotInv, Vector
  <1>5. SinceInv(r)' /\ SnapshotInv(r)'
    BY <1>1, <1>2 DEF FreshInv, ThreadInv, SinceInv, SnapshotInv
  <1>6. LoadsInv(r)'
    BY <1>1, <1>2 DEF FreshInv, ThreadInv, LoadsInv
  <1>7. AnswersInv(r)'
    BY <1>1, <1>2, <1>3, <1>4 DEF AnswersInv
  <1>8. entries' = entries \/ EntriesInv'
    <2>1. CASE Discard(r)
      BY <2>1 DEF Discard, cacheVars
    <2>2. CASE Store(r)
      <3>1. \A e \in entries' : e \in entries \/ e = NewEntry(r)
        BY <2>2 DEF Store, Trim
      <3>2. /\ NewEntry(r).key = call[r].key /\ NewEntry(r).snap = Snap(call[r].key)
            /\ NewEntry(r).ver = Answer(r)
        BY <2>2 DEF Store, StillCurrent, NewEntry
      <3>3. \A d \in ReadsOf[call[r].key] : call[r].snap[d] = gens[d]
        BY <1>3, <2>2 DEF Store, StillCurrent, Snap
      <3>4. \A k : Snap(k)' = Snap(k)
        BY <1>1 DEF Snap
      <3> QED
        BY <1>1, <1>3, <3>1, <3>2, <3>3, <3>4 DEF FreshInv, EntriesInv
    <2> QED
      BY <2>1, <2>2
  <1> QED
    BY <1>1, <1>5, <1>6, <1>7, <1>8, FreshThread DEF ThreadInv

\* A computation that ends, or raises, touches no data.
LEMMA FreshEnd ==
    ASSUME TypeOK, FreshInv, NEW r \in Readers, Raise(r) \/ Finish(r)
    PROVE  FreshInv'
  <1>1. /\ UNCHANGED <<db, bumped, gens, boot, entries, bodies, call, got>>
        /\ \/ pc[r] = "compute" /\ pc'[r] = "raised"
           \/ pc[r] = "finish" /\ pc'[r] = "served"
        /\ \A s \in Readers \ {r} : pc'[s] = pc[s] \/ (pc[s] = "wait" /\ pc'[s] = "start")
    <2>1. CASE Raise(r)
      BY <2>1 DEF Raise, dataVars, cacheVars, TypeOK
    <2>2. CASE Finish(r)
      BY <2>2 DEF Finish, Land, WaitingFor, dataVars
    <2> QED
      BY <2>1, <2>2
  <1>2. SinceInv(r)' /\ SnapshotInv(r)'
    BY <1>1 DEF FreshInv, ThreadInv, SinceInv, SnapshotInv
  <1>3. LoadsInv(r)'
    BY <1>1 DEF FreshInv, ThreadInv, LoadsInv
  <1>4. AnswersInv(r)'
    BY <1>1 DEF FreshInv, ThreadInv, AnswersInv
  <1> QED
    BY <1>1, <1>2, <1>3, <1>4, FreshThread DEF ThreadInv

\* A thread that is done forgets everything, its session included; the client keeps a body
\* as new as its ETag says.
LEMMA FreshLeave ==
    ASSUME SharedSession = {}, TypeOK, FreshInv, NEW r \in Readers, Fail(r) \/ Reply(r)
    PROVE  FreshInv'
  <1>1. /\ UNCHANGED <<db, bumped, gens, boot, entries>>
        /\ \A s \in Readers \ {r} :
              /\ call'[s] = call[s] /\ got'[s] = got[s]
              /\ pc'[s] = pc[s] \/ (pc[s] = "wait" /\ pc'[s] = "start")
        /\ pc'[r] = "idle" /\ call'[r] = NoCall /\ got'[r] = Nothing
    BY DEF Fail, Reply, EndCall, Land, WaitingFor, dataVars, cacheVars, TypeOK
  <1>2. ThreadInv(r)'
    <2>1. /\ NoCall.since = [d \in ALL_DEPS |-> 0] /\ NoCall.key \in Keys
          /\ NoCall.snap = Zero(NoCall.key) /\ NoCall.etag.snap = Zero(NoCall.key)
      BY ReadsOfAssumption DEF NoCall
    <2>2. SinceInv(r)' /\ SnapshotInv(r)'
      BY <1>1, <2>1, Numbers DEF SinceInv, SnapshotInv, Zero
    <2>3. LoadsInv(r)' /\ AnswersInv(r)'
      BY <1>1 DEF LoadsInv, AnswersInv, Nothing
    <2> QED
      BY <2>2, <2>3 DEF ThreadInv
  <1>3. bodies' = bodies \/ BodiesInv'
    <2>1. CASE Fail(r)
      BY <2>1 DEF Fail
    <2>2. CASE Reply(r)
      <3> DEFINE body == [client |-> r, key |-> call[r].key,
                          etag |-> call[r].etag, ver |-> call[r].ans]
      <3>1. \A b \in bodies' : b \in bodies \/ b = body
        BY <2>2 DEF Reply
      <3>2. /\ body.etag.boot = boot
            /\ \A d \in ReadsOf[body.key] :
                  /\ body.ver[d] <= db[d] /\ body.etag.snap[d] <= gens[d]
                  /\ body.etag.snap[d] = gens[d] => bumped[d] <= body.ver[d]
        <4>1. call[r].etag.boot = boot
          BY <2>2 DEF Reply, FreshInv, ThreadInv, SnapshotInv
        <4>2. \A d \in ReadsOf[call[r].key] : call[r].etag.snap[d] <= gens[d]
          BY Numbers, ThreadNumbers DEF FreshInv, ThreadInv, SnapshotInv, Vector
        <4>3. \A d \in ReadsOf[call[r].key] :
                 /\ call[r].ans[d] <= db[d]
                 /\ call[r].etag.snap[d] = gens[d] => bumped[d] <= call[r].ans[d]
          BY <2>2 DEF Reply, FreshInv, ThreadInv, AnswersInv
        <4> QED
          BY <4>1, <4>2, <4>3
      <3> QED
        BY <1>1, <3>1, <3>2, Numbers DEF FreshInv, BodiesInv
    <2> QED
      BY <2>1, <2>2
  <1> QED
    BY <1>1, <1>2, <1>3, FreshThread

\* A new process starts at generation 0 with nothing cached; no ETag is from it.
LEMMA FreshRestart ==
    ASSUME TypeOK, FreshInv, Restart
    PROVE  FreshInv'
  <1>1. boot' = boot + 1 /\ bumped' = db /\ db' = db /\ bodies' = bodies /\ entries' = {}
    BY DEF Restart
  <1>2. HistoryInv'
    BY <1>1, Numbers DEF HistoryInv
  <1>3. EntriesInv'
    BY <1>1 DEF EntriesInv
  <1>4. BodiesInv'
    <2>1. \A b \in bodies : b.etag.boot <= boot'  /\ b.etag.boot # boot'
      BY <1>1, Numbers DEF FreshInv, BodiesInv
    <2> QED
      BY <1>1, <2>1 DEF FreshInv, BodiesInv
  <1>5. ASSUME NEW r \in Readers PROVE ThreadInv(r)'
    <2>1. /\ call'[r] = NoCall /\ pc'[r] = "idle" /\ got'[r] = Nothing
          /\ \A d \in ALL_DEPS : gens'[d] = 0
      BY DEF Restart
    <2>2. /\ NoCall.since = [d \in ALL_DEPS |-> 0] /\ NoCall.key \in Keys
          /\ NoCall.snap = Zero(NoCall.key) /\ NoCall.etag.snap = Zero(NoCall.key)
      BY ReadsOfAssumption DEF NoCall
    <2>3. SinceInv(r)' /\ SnapshotInv(r)'
      BY <1>1, <2>1, <2>2, Numbers DEF SinceInv, SnapshotInv, Zero
    <2>4. LoadsInv(r)' /\ AnswersInv(r)'
      BY <2>1 DEF LoadsInv, AnswersInv, Nothing
    <2> QED
      BY <2>3, <2>4 DEF ThreadInv
  <1> QED
    BY <1>2, <1>3, <1>4, <1>5 DEF FreshInv

\* A step that touches none of what FreshInv speaks of.
LEMMA FreshStutter ==
    ASSUME FreshInv, UNCHANGED <<db, bumped, gens, boot, entries, bodies, pc, call, got>>
    PROVE  FreshInv'
  <1>1. HistoryInv' /\ EntriesInv' /\ BodiesInv'
    BY DEF FreshInv, HistoryInv, EntriesInv, BodiesInv, Snap
  <1>2. \A r \in Readers : ThreadInv(r)'
    BY OtherThread DEF FreshInv
  <1> QED
    BY <1>1, <1>2 DEF FreshInv

----------------------------------------------------------------------------
\* Nothing is cached, loaded or answered at the start.
LEMMA FreshInit == Init => FreshInv
  <1> SUFFICES ASSUME Init PROVE FreshInv
    OBVIOUS
  <1>1. HistoryInv /\ EntriesInv /\ BodiesInv
    BY DEF Init, HistoryInv, EntriesInv, BodiesInv
  <1>2. ASSUME NEW r \in Readers PROVE ThreadInv(r)
    <2>1. /\ NoCall.since = [d \in ALL_DEPS |-> 0] /\ NoCall.key \in Keys
          /\ NoCall.snap = Zero(NoCall.key) /\ NoCall.etag.snap = Zero(NoCall.key)
      BY ReadsOfAssumption DEF NoCall
    <2>2. SinceInv(r) /\ SnapshotInv(r)
      BY <2>1, ReadsOfAssumption DEF Init, SinceInv, SnapshotInv, Zero
    <2>3. LoadsInv(r) /\ AnswersInv(r)
      BY DEF Init, LoadsInv, AnswersInv, Nothing
    <2> QED
      BY <2>2, <2>3 DEF ThreadInv
  <1> QED
    BY <1>1, <1>2 DEF FreshInv

\* Every step keeps everything as fresh as it must be.
LEMMA FreshStep ==
    ASSUME SharedSession = {}
    PROVE  TypeOK /\ FreshInv /\ [Next]_vars => FreshInv'
  <1> SUFFICES ASSUME TypeOK, FreshInv, [Next]_vars PROVE FreshInv'
    OBVIOUS
  <1>1. ASSUME NEW j \in Jobs, NEW e \in Events, NEW D \in JobWrites, CommitJob(j, e, D)
        PROVE  FreshInv'
    BY <1>1, WritersAssumption, FreshCommit DEF CommitJob, cacheVars
  <1>2. ASSUME NEW j \in Jobs, PublishJob(j) PROVE FreshInv'
    <2>1. owed[j] \in SUBSET ALL_DEPS
      BY DEF TypeOK
    <2> QED
      BY <1>2, <2>1, FreshInvalidate DEF PublishJob
  <1>3. ASSUME NEW w \in Requests, NEW D \in RequestWrites, RespondRequest(w, D)
        PROVE  FreshInv'
    BY <1>3, FreshInvalidate DEF RespondRequest
  <1>4. ASSUME NEW w \in Requests, CommitRequest(w) PROVE FreshInv'
    <2>1. owed[w] \in SUBSET ALL_DEPS
      BY DEF TypeOK
    <2> QED
      BY <1>4, <2>1, FreshCommit DEF CommitRequest, cacheVars
  <1>5. ASSUME NEW r \in Readers, NEW k \in Keys, NotModified(r, k) \/ Open(r, k)
        PROVE  FreshInv'
    BY <1>5, FreshArrival
  <1>6. ASSUME NEW r \in Readers, Proceed(r) \/ Raise(r) PROVE FreshInv'
    BY <1>6, FreshHit, FreshTurn, FreshLoad, FreshComputed, FreshEnd, FreshLeave DEF Proceed
  <1>7. ASSUME NEW r \in Readers, CloseSession(r) PROVE FreshInv'
    BY <1>7 DEF CloseSession
  <1>8. CASE PassTime
    BY <1>8, FreshStutter DEF PassTime, dataVars, cacheVars, threadVars
  <1>9. CASE Restart
    BY <1>9, FreshRestart
  <1>10. CASE UNCHANGED vars
    BY <1>10, FreshStutter DEF vars, dataVars, cacheVars, threadVars
  <1> QED
    BY <1>1, <1>2, <1>3, <1>4, <1>5, <1>6, <1>7, <1>8, <1>9, <1>10 DEF Next, Write

\* Where every call has a session of its own, the cache, the answers under way and the
\* clients' copies are as new as the last announcement of every dependency in them.
THEOREM Freshness ==
    ASSUME SharedSession = {}
    PROVE  Spec => []FreshInv
  BY FreshInit, FreshStep, TypeCorrect, PTL DEF Spec

\* No cached answer outlives an invalidation of what it is made of, and none computed
\* across one is stored (read_cache.py:62-75, 156-162).
THEOREM CacheFresh ==
    ASSUME SharedSession = {}
    PROVE  Spec => []CacheNotOlderThanBump
  <1>1. FreshInv => CacheNotOlderThanBump
    BY DEF FreshInv, EntriesInv, CacheNotOlderThanBump
  <1> QED
    BY <1>1, Freshness, PTL

----------------------------------------------------------------------------
(***************************************************************************)
(* Jobs commit first and publish afterwards, so what only they write is    *)
(* bumped up to its last commit, or a job still owes the bump.             *)
(***************************************************************************)
OwedInv ==
    /\ \A w \in Requests : owed[w] \subseteq UNION RequestWrites
    /\ \A d \in ALL_DEPS \ UNION RequestWrites :
          bumped[d] = db[d] \/ \E j \in Jobs : d \in owed[j]

\* Every step of a writer keeps that account.
LEMMA OwedWrite ==
    ASSUME TypeOK, OwedInv, Write
    PROVE  OwedInv'
  <1> DEFINE JobsOnly == ALL_DEPS \ UNION RequestWrites
  <1>1. ASSUME NEW j \in Jobs, NEW e \in Events, NEW D \in JobWrites, CommitJob(j, e, D)
        PROVE  OwedInv'
    <2>1. /\ owed' = [owed EXCEPT ![j] = InvalidatedBy(e)] /\ owed[j] \subseteq InvalidatedBy(e)
          /\ D \subseteq InvalidatedBy(e) /\ bumped' = bumped
          /\ \A d \in ALL_DEPS \ D : db'[d] = db[d]
      BY <1>1 DEF CommitJob, CommitData
    <2>2. owed'[j] = InvalidatedBy(e) /\ \A w \in (Requests \cup Jobs) \ {j} : owed'[w] = owed[w]
      BY <2>1 DEF TypeOK
    <2>3. \A w \in Requests : owed'[w] \subseteq UNION RequestWrites
      BY <2>2, WritersAssumption DEF OwedInv
    <2>4. ASSUME NEW d \in JobsOnly PROVE bumped'[d] = db'[d] \/ \E i \in Jobs : d \in owed'[i]
      <3>1. CASE d \in D
        BY <2>1, <2>2, <3>1
      <3>2. CASE d \notin D
        BY <2>1, <2>2, <3>2 DEF OwedInv
      <3> QED
        BY <3>1, <3>2
    <2> QED
      BY <2>3, <2>4 DEF OwedInv
  <1>2. ASSUME NEW j \in Jobs, PublishJob(j) PROVE OwedInv'
    <2>1. /\ owed' = [owed EXCEPT ![j] = {}] /\ db' = db
          /\ \A d \in ALL_DEPS : bumped'[d] = IF d \in owed[j] THEN db[d] ELSE bumped[d]
      BY <1>2 DEF PublishJob, Invalidate
    <2>2. owed'[j] = {} /\ \A w \in (Requests \cup Jobs) \ {j} : owed'[w] = owed[w]
      BY <2>1 DEF TypeOK
    <2>3. \A w \in Requests : owed'[w] \subseteq UNION RequestWrites
      BY <2>2, WritersAssumption DEF OwedInv
    <2>4. \A d \in JobsOnly : bumped'[d] = db'[d] \/ \E i \in Jobs : d \in owed'[i]
      BY <2>1, <2>2 DEF OwedInv
    <2> QED
      BY <2>3, <2>4 DEF OwedInv
  <1>3. ASSUME NEW w \in Requests, NEW D \in RequestWrites, RespondRequest(w, D) PROVE OwedInv'
    <2>1. /\ owed' = [owed EXCEPT ![w] = D] /\ db' = db /\ \A d \in ALL_DEPS : bumped'[d] = db[d]
      BY <1>3 DEF RespondRequest, Invalidate
    <2> QED
      BY <2>1 DEF OwedInv, TypeOK
  <1>4. ASSUME NEW w \in Requests, CommitRequest(w) PROVE OwedInv'
    <2>1. /\ owed' = [owed EXCEPT ![w] = {}] /\ bumped' = bumped
          /\ \A d \in ALL_DEPS \ owed[w] : db'[d] = db[d]
      BY <1>4 DEF CommitRequest, CommitData
    <2>2. owed'[w] = {} /\ \A v \in (Requests \cup Jobs) \ {w} : owed'[v] = owed[v]
      BY <2>1 DEF TypeOK
    <2>3. \A v \in Requests : owed'[v] \subseteq UNION RequestWrites
      BY <2>2 DEF OwedInv
    <2>4. \A d \in JobsOnly : db'[d] = db[d]
      BY <2>1 DEF OwedInv
    <2>5. \A j \in Jobs : owed'[j] = owed[j]
      BY <2>2, WritersAssumption
    <2> QED
      BY <2>1, <2>3, <2>4, <2>5 DEF OwedInv
  <1> QED
    BY <1>1, <1>2, <1>3, <1>4 DEF Write

\* Every step keeps the account of what is owed.
LEMMA OwedStep == TypeOK /\ OwedInv /\ [Next]_vars => OwedInv'
  <1> SUFFICES ASSUME TypeOK, OwedInv, [Next]_vars PROVE OwedInv'
    OBVIOUS
  <1>1. CASE Write
    BY <1>1, OwedWrite
  <1>2. CASE UNCHANGED <<db, bumped, owed>>
    BY <1>2 DEF OwedInv
  <1>3. CASE Restart
    BY <1>3 DEF Restart, OwedInv
  <1>4. ASSUME NEW r \in Readers, NEW k \in Keys, NotModified(r, k) \/ Open(r, k)
        PROVE  OwedInv'
    BY <1>2, <1>4 DEF NotModified, Open, dataVars
  <1>5. ASSUME NEW r \in Readers, Proceed(r) \/ Raise(r) \/ CloseSession(r) PROVE OwedInv'
    BY <1>2, <1>5 DEF Proceed, Raise, CloseSession, ReadClock, Hit, Join, Lead, GiveUp, Load, Store, Discard,
                      Finish, Fail, Reply, dataVars
  <1>6. CASE PassTime \/ UNCHANGED vars
    BY <1>2, <1>6 DEF PassTime, vars, dataVars
  <1> QED
    BY <1>1, <1>3, <1>4, <1>5, <1>6 DEF Next

\* The account of what is committed and not yet announced always adds up.
THEOREM CommitsAnnounced == Spec => []OwedInv
  <1>1. Init => OwedInv
    BY DEF Init, OwedInv
  <1> QED
    BY <1>1, OwedStep, TypeCorrect, PTL DEF Spec

\* What only background jobs write is never stale in the cache for good: once every event is
\* published, a cached answer holds the committed version (scheduler.py:596-644).
THEOREM JobsVisible ==
    ASSUME SharedSession = {}
    PROVE  Spec => []PublishedDataCurrent
  <1>1. TypeOK /\ FreshInv /\ OwedInv => PublishedDataCurrent
    <2> SUFFICES ASSUME TypeOK, FreshInv, OwedInv, NEW e \in entries,
                        NEW d \in ReadsOf[e.key] \ UNION RequestWrites,
                        \A j \in Jobs : d \notin owed[j]
                 PROVE  e.ver[d] = db[d]
      BY DEF PublishedDataCurrent
    <2>1. d \in ALL_DEPS /\ e.ver[d] \in Nat /\ db[d] \in Nat
      BY Numbers DEF Vector
    <2>2. bumped[d] = db[d]
      BY <2>1 DEF OwedInv
    <2> QED
      BY <2>1, <2>2 DEF FreshInv, EntriesInv
  <1> QED
    BY <1>1, Freshness, CommitsAnnounced, TypeCorrect, PTL
----------------------------------------------------------------------------
(***************************************************************************)
(* The time to live.  A thread reads the clock before it loads anything,   *)
(* so an entry expires TTL after an instant no later than its first load.  *)
(***************************************************************************)
AgeInv(r) ==
    pc[r] \in {"lookup", "wait", "compute"} =>
        call[r].now <= clock /\ call[r].now <= call[r].readAt

AgesInv ==
    /\ \A e \in entries : e.expiry <= e.readAt + TTL
    /\ \A r \in Readers : AgeInv(r)

\* What the type invariant says of the instants the proof compares.
LEMMA Instants ==
    ASSUME TypeOK
    PROVE  /\ clock \in Nat
           /\ \A r \in Readers : call[r].now \in Nat /\ call[r].readAt \in Nat /\ call[r].key \in Keys
           /\ \A e \in entries : e.expiry \in Nat /\ e.readAt \in Nat
  BY DEF TypeOK, CallOf, EntryOf

\* A step that adds no entry and, of the threads, touches at most one.
LEMMA AgesThread ==
    ASSUME AgesInv, NEW r \in Readers, entries' \subseteq entries, clock' = clock,
           \A s \in Readers \ {r} : /\ call'[s] = call[s] /\ got'[s] = got[s]
                                    /\ pc'[s] = pc[s] \/ pc'[s] = "start",
           AgeInv(r)'
    PROVE  AgesInv'
  BY DEF AgesInv, AgeInv

\* A step that leaves the threads alone.
LEMMA AgesRest ==
    ASSUME TypeOK, AgesInv, entries' \subseteq entries, UNCHANGED threadVars, clock' \in {clock, clock + 1}
    PROVE  AgesInv'
  BY Instants DEF AgesInv, AgeInv, threadVars

LEMMA AgesStep ==
    ASSUME TypeOK, AgesInv, [Next]_vars
    PROVE  AgesInv'
  <1>1. CASE Write
    <2>1. entries' \subseteq entries /\ UNCHANGED <<threadVars, clock>>
      BY <1>1 DEF Write, CommitJob, PublishJob, RespondRequest, CommitRequest, Invalidate, cacheVars
    <2> QED
      BY <2>1, AgesRest
  <1>2. ASSUME NEW r \in Readers, NEW k \in Keys, NotModified(r, k) \/ Open(r, k) PROVE AgesInv'
    <2>1. pc'[r] \in {"served", "start"}
      BY <1>2 DEF NotModified, Open, TypeOK
    <2> QED
      BY <1>2, <2>1, AgesThread DEF NotModified, Open, cacheVars, TypeOK, AgeInv
  <1>3. ASSUME NEW r \in Readers, ReadClock(r) PROVE AgesInv'
    <2>1. pc'[r] = "lookup" /\ call'[r].now = clock /\ call'[r].readAt = clock
      BY <1>3 DEF ReadClock, TypeOK, CallOf
    <2>2. AgeInv(r)'
      BY <1>3, <2>1, Instants DEF AgeInv, ReadClock
    <2> QED
      BY <1>3, <2>2, AgesThread DEF ReadClock, cacheVars, TypeOK
  <1>4. ASSUME NEW r \in Readers, Join(r) \/ Lead(r) \/ GiveUp(r) PROVE AgesInv'
    <2>1. /\ pc[r] \in {"lookup", "wait"} /\ call'[r].now = call[r].now
          /\ call'[r].readAt = call[r].readAt /\ clock' = clock
      BY <1>4 DEF Join, Lead, GiveUp, TypeOK, CallOf
    <2>2. AgeInv(r)'
      BY <2>1 DEF AgesInv, AgeInv
    <2> QED
      BY <1>4, <2>2, AgesThread DEF Join, Lead, GiveUp, cacheVars, TypeOK
  <1>5. ASSUME NEW r \in Readers, Hit(r) PROVE AgesInv'
    <2>1. pc'[r] = "served"
      BY <1>5 DEF Hit, TypeOK
    <2> QED
      BY <1>5, <2>1, AgesThread DEF Hit, TypeOK, AgeInv
  <1>6. ASSUME NEW r \in Readers, NEW d \in ALL_DEPS, Load(r, d) PROVE AgesInv'
    <2>1. /\ pc[r] = "compute" /\ pc' = pc /\ clock' = clock
          /\ call'[r].now = call[r].now
          /\ call'[r].readAt = IF \A o \in ReadsOf[call[r].key] : got[r][o] = NotRead
                               THEN clock ELSE call[r].readAt
      BY <1>6 DEF Load, TypeOK, CallOf
    <2>2. call'[r].now <= call'[r].readAt /\ call'[r].now <= clock'
      BY <2>1, Instants DEF AgesInv, AgeInv
    <2>3. AgeInv(r)'
      BY <2>2 DEF AgeInv
    <2> QED
      BY <1>6, <2>3, AgesThread DEF Load, cacheVars, TypeOK
  <1>7. ASSUME NEW r \in Readers, Raise(r) \/ Discard(r) PROVE AgesInv'
    <2>1. pc'[r] \in {"raised", "finish"}
      BY <1>7 DEF Raise, Discard, TypeOK, Computed
    <2> QED
      BY <1>7, <2>1, AgesThread DEF Raise, Discard, cacheVars, TypeOK, AgeInv
  <1>8. ASSUME NEW r \in Readers, Store(r) PROVE AgesInv'
    <2>1. call[r].now <= call[r].readAt
      BY <1>8 DEF Store, Computed, AgesInv, AgeInv
    <2>2. NewEntry(r).expiry <= NewEntry(r).readAt + TTL
      BY <2>1, Instants, BoundsAssumption DEF NewEntry
    <2>3. \A e \in entries' : e \in entries \/ e = NewEntry(r)
      BY <1>8 DEF Store, Trim
    <2>4. pc'[r] = "finish" /\ \A s \in Readers \ {r} : UNCHANGED <<pc[s], call[s], got[s], clock>>
      BY <1>8 DEF Store, TypeOK
    <2> QED
      BY <2>2, <2>3, <2>4 DEF AgesInv, AgeInv
  <1>9. ASSUME NEW r \in Readers, Finish(r) \/ Fail(r) PROVE AgesInv'
    <2>1. pc'[r] \in {"served", "idle"} /\ \A s \in Readers \ {r} : pc'[s] = pc[s] \/ pc'[s] = "start"
      BY <1>9 DEF Finish, Fail, Land
    <2> QED
      BY <1>9, <2>1, AgesThread DEF Finish, Fail, EndCall, TypeOK, AgeInv
  <1>10. ASSUME NEW r \in Readers, Reply(r) \/ CloseSession(r) PROVE AgesInv'
    <2>1. pc'[r] = "idle"
      BY <1>10 DEF Reply, CloseSession, TypeOK
    <2> QED
      BY <1>10, <2>1, AgesThread DEF Reply, CloseSession, EndCall, cacheVars, TypeOK, AgeInv
  <1>11. CASE PassTime
    BY <1>11, AgesRest DEF PassTime, cacheVars
  <1>12. CASE Restart
    BY <1>12 DEF Restart, AgesInv, AgeInv
  <1>13. CASE UNCHANGED vars
    BY <1>13, AgesRest DEF vars, cacheVars
  <1> QED
    BY <1>1, <1>2, <1>3, <1>4, <1>5, <1>6, <1>7, <1>8, <1>9, <1>10, <1>11, <1>12, <1>13
       DEF Next, Proceed

\* Only a hit takes a thread from its look-up to an answer.
LEMMA OnlyHitsAnswer ==
    ASSUME TypeOK, Next, NEW r \in Readers, pc[r] = "lookup", pc'[r] = "served"
    PROVE  Hit(r)
  <1>1. \A s \in Readers : s # r /\ (Proceed(s) \/ Raise(s) \/ CloseSession(s)) => pc'[r] # "served"
    BY DEF Proceed, Raise, CloseSession, ReadClock, Hit, Join, Lead, GiveUp, Load, Store, Discard,
           Finish, Fail, Land, Reply, TypeOK
  <1>2. Proceed(r) \/ Raise(r) \/ CloseSession(r) => Hit(r)
    BY DEF Proceed, Raise, CloseSession, ReadClock, Join, Lead, GiveUp, Load, Store, Discard,
           Computed, Finish, Fail, Reply, TypeOK
  <1>3. \A s \in Readers, k \in Keys : ~ (NotModified(s, k) \/ Open(s, k))
    <2> SUFFICES ASSUME NEW s \in Readers, NEW k \in Keys, NotModified(s, k) \/ Open(s, k) PROVE FALSE
      OBVIOUS
    <2>1. s # r /\ pc'[r] = pc[r]
      BY DEF NotModified, Open, TypeOK
    <2> QED
      BY <2>1
  <1>4. ~ (Write \/ PassTime \/ Restart)
    BY DEF Write, CommitJob, PublishJob, RespondRequest, CommitRequest, PassTime, Restart, threadVars
  <1> QED
    BY <1>1, <1>2, <1>3, <1>4 DEF Next

\* No answer is served from the cache TTL_SECONDS or more after its computation first
\* loaded something, whether or not the call shares its session (read_cache.py:133, 159).
THEOREM NothingExpiredServed == Spec => NoExpiredAnswer
  <1>1. Init => AgesInv
    BY DEF Init, AgesInv, AgeInv
  <1>2. TypeOK /\ AgesInv /\ [Next]_vars => AgesInv'
    BY AgesStep
  <1>3. TypeOK /\ AgesInv /\ [Next]_vars =>
           [\A r \in Readers : pc[r] = "lookup" /\ pc'[r] = "served" =>
               \E e \in entries : /\ e.key = call[r].key /\ e.ver = call'[r].ans
                                  /\ call[r].now < e.readAt + TTL]_vars
    <2> SUFFICES ASSUME TypeOK, AgesInv, Next, NEW r \in Readers, pc[r] = "lookup", pc'[r] = "served"
                 PROVE  \E e \in entries : /\ e.key = call[r].key /\ e.ver = call'[r].ans
                                           /\ call[r].now < e.readAt + TTL
      OBVIOUS
    <2>1. Hit(r)
      BY OnlyHitsAnswer
    <2>2. PICK e \in entries : /\ e.key = call[r].key /\ e.expiry > call[r].now
                               /\ call' = [call EXCEPT ![r].ans = e.ver]
      BY <2>1 DEF Hit, Hits
    <2>3. call'[r].ans = e.ver
      BY <2>2 DEF TypeOK, CallOf
    <2>4. e.expiry <= e.readAt + TTL
      BY DEF AgesInv
    <2> QED
      BY <2>2, <2>3, <2>4, Instants, BoundsAssumption
  <1> QED
    BY <1>1, <1>2, <1>3, TypeCorrect, PTL DEF Spec, NoExpiredAnswer

----------------------------------------------------------------------------
(***************************************************************************)
(* ReadCache implements FreshReads.  A commit is a Commit, an event or a   *)
(* response an Announce; a request is asked when it comes in, answered by a *)
(* hit, by a 304 or when its computation is over, and leaves when it is    *)
(* replied to or fails.                                                    *)
(***************************************************************************)

\* The requests as FreshReads sees them.
Mapped == [r \in Readers |-> AsRequest(r)]

\* An answer between the floor and the database is one FreshReads accepts.
LEMMA AcceptableAnswer ==
    ASSUME TypeOK, NEW k \in Keys, NEW v \in Vector(k), NEW floor \in [ALL_DEPS -> Nat],
           \A d \in ReadsOf[k] : floor[d] <= v[d] /\ v[d] <= db[d]
    PROVE  v \in Reads!Acceptable(k, floor)
  <1>1. \A d \in ReadsOf[k] : v[d] \in floor[d] .. db[d]
    BY Numbers DEF Vector
  <1> DEFINE Versions == UNION {floor[d] .. db[d] : d \in ReadsOf[k]}
  <1>2. \A d \in ReadsOf[k] : v[d] \in Versions
    BY <1>1
  <1>3. v \in [ReadsOf[k] -> Versions]
    BY <1>2 DEF Vector
  <1> QED
    BY <1>1, <1>3 DEF Reads!Acceptable

\* A step that changes the request of one thread only.
LEMMA MappedExcept ==
    ASSUME NEW r \in Readers, \A s \in Readers \ {r} : AsRequest(s)' = AsRequest(s)
    PROVE  Mapped' = [Mapped EXCEPT ![r] = AsRequest(r)']
  BY DEF Mapped

\* What FreshReads sees of a thread depends on its state, its key, its floor and its answer.
LEMMA SameRequest ==
    ASSUME NEW r \in Readers, call'[r] = call[r],
           pc'[r] = pc[r] \/ (pc[r] = "wait" /\ pc'[r] = "start")
    PROVE  AsRequest(r)' = AsRequest(r)
  BY DEF AsRequest

\* A thread that goes on working on its request is a client that goes on asking.
LEMMA StillAsked ==
    ASSUME NEW r \in Readers, pc[r] \notin {"idle", "served"}, pc'[r] \notin {"idle", "served"},
           call'[r].key = call[r].key, call'[r].since = call[r].since
    PROVE  AsRequest(r)' = AsRequest(r)
  BY DEF AsRequest

\* A thread that gets its answer is a client that is answered.
LEMMA AnswerStep ==
    ASSUME TypeOK, TypeOK', FreshInv', NEW r \in Readers,
           pc[r] \notin {"idle", "served"}, pc'[r] = "served",
           call'[r].key = call[r].key, call'[r].since = call[r].since,
           UNCHANGED <<db, bumped>>,
           \A s \in Readers \ {r} : AsRequest(s)' = AsRequest(s)
    PROVE  Reads!Answer(r)
  <1> DEFINE k == call[r].key
             floor == call[r].since
             v == call'[r].ans
  <1>1. Mapped[r] = Reads!Asked(k, floor)
    BY DEF Mapped, AsRequest, Reads!Asked
  <1>2. AsRequest(r)' = Reads!Answered(k, floor, v)
    BY DEF AsRequest, Reads!Answered
  <1>3. k \in Keys /\ floor \in [ALL_DEPS -> Nat]
    BY ThreadNumbers
  <1>4. v \in Vector(k)
    <2>1. PICK l \in Keys : call'[r] \in CallOf(l)
      BY DEF TypeOK, CallOf, Vector, EtagOf
    <2> QED
      BY <2>1 DEF CallOf
  <1>5. \A d \in ReadsOf[k] : floor[d] <= v[d] /\ v[d] <= db[d]
    BY DEF FreshInv, ThreadInv, AnswersInv
  <1>6. v \in Reads!Acceptable(k, floor)
    BY <1>3, <1>4, <1>5, AcceptableAnswer
  <1>7. Mapped' = [Mapped EXCEPT ![r] = Reads!Answered(k, floor, v)]
    BY <1>2, MappedExcept
  <1>8. Mapped[r].state = "asked" /\ Mapped[r].key = k /\ Mapped[r].floor = floor
    BY <1>1 DEF Reads!Asked
  <1> QED
    BY <1>6, <1>7, <1>8 DEF Reads!Answer, Mapped

\* A thread that is done is a client that leaves.
LEMMA LeaveStep ==
    ASSUME NEW r \in Readers, pc[r] # "idle", pc'[r] = "idle",
           UNCHANGED <<db, bumped>>,
           \A s \in Readers \ {r} : AsRequest(s)' = AsRequest(s)
    PROVE  Reads!Leave(r)
  <1>1. Mapped[r] # Reads!None
    BY DEF Mapped, AsRequest, Reads!None
  <1>2. AsRequest(r)' = Reads!None
    BY DEF AsRequest, Reads!None
  <1>3. Mapped' = [Mapped EXCEPT ![r] = Reads!None]
    BY <1>2, MappedExcept
  <1> QED
    BY <1>1, <1>3 DEF Reads!Leave, Mapped

\* A request that comes in is asked, or confirmed at once.
LEMMA ArrivalStep ==
    ASSUME TypeOK, FreshInv, NEW r \in Readers, NEW k \in Keys,
           NotModified(r, k) \/ Open(r, k)
    PROVE  Reads!Confirm(r, k) \/ Reads!Ask(r, k)
  <1>1. /\ pc[r] = "idle" /\ UNCHANGED <<db, bumped>>
        /\ \A s \in Readers \ {r} : pc'[s] = pc[s] /\ call'[s] = call[s]
    BY DEF NotModified, Open, dataVars, TypeOK
  <1>2. \A s \in Readers \ {r} : AsRequest(s)' = AsRequest(s)
    BY <1>1, SameRequest
  <1>3. Mapped[r] = Reads!None
    BY <1>1 DEF Mapped, AsRequest, Reads!None
  <1>4. call'[r].key = k /\ call'[r].since = bumped
    BY DEF NotModified, Open, NewCall, TypeOK
  <1>5. CASE Open(r, k)
    <2>1. AsRequest(r)' = Reads!Asked(k, bumped)
      BY <1>4, <1>5 DEF Open, AsRequest, Reads!Asked, TypeOK
    <2>2. Mapped' = [Mapped EXCEPT ![r] = Reads!Asked(k, bumped)]
      BY <1>2, <2>1, MappedExcept
    <2> QED
      BY <1>1, <1>3, <2>2 DEF Reads!Ask, Mapped
  <1>6. CASE NotModified(r, k)
    <2>1. PICK b \in Matching(r, k) : call' = [call EXCEPT ![r] = [NewCall(k) EXCEPT !.ans = b.ver]]
      BY <1>6 DEF NotModified
    <2>2. call'[r].ans = b.ver
      BY <2>1 DEF TypeOK, NewCall
    <2>3. b \in bodies /\ b.key = k /\ b.etag.boot = boot /\ b.etag.snap = Snap(k)
      BY DEF Matching, Etag
    <2>4. b.ver \in Vector(k) /\ bumped \in [ALL_DEPS -> Nat]
      BY <2>3, Numbers DEF TypeOK
    <2>5. \A d \in ReadsOf[k] : bumped[d] <= b.ver[d] /\ b.ver[d] <= db[d]
      <3>1. \A d \in ReadsOf[k] : Snap(k)[d] = gens[d]
        BY DEF Snap
      <3> QED
        BY <2>3, <3>1 DEF FreshInv, BodiesInv
    <2>6. b.ver \in Reads!Acceptable(k, bumped)
      BY <2>4, <2>5, AcceptableAnswer
    <2>7. AsRequest(r)' = Reads!Answered(k, bumped, b.ver)
      BY <1>4, <1>6, <2>2 DEF NotModified, AsRequest, Reads!Answered, TypeOK
    <2>8. Mapped' = [Mapped EXCEPT ![r] = Reads!Answered(k, bumped, b.ver)]
      BY <1>2, <2>7, MappedExcept
    <2> QED
      BY <1>1, <1>3, <2>6, <2>8 DEF Reads!Confirm, Mapped
  <1> QED
    BY <1>5, <1>6

\* Every step of a thread that holds a request is a step of its client, or a stutter.
LEMMA ThreadStep ==
    ASSUME TypeOK, TypeOK', FreshInv', NEW r \in Readers,
           Proceed(r) \/ Raise(r) \/ CloseSession(r)
    PROVE  Reads!Answer(r) \/ Reads!Leave(r) \/ UNCHANGED Reads!vars
  <1>1. ASSUME UNCHANGED <<db, bumped>>, \A s \in Readers : AsRequest(s)' = AsRequest(s)
        PROVE  UNCHANGED Reads!vars
    BY <1>1 DEF Reads!vars
  <1>2. CASE Hit(r)
    <2>1. /\ pc[r] = "lookup" /\ pc'[r] = "served" /\ UNCHANGED <<db, bumped>>
          /\ \A s \in Readers \ {r} : pc'[s] = pc[s] /\ call'[s] = call[s]
      BY <1>2 DEF Hit, dataVars, TypeOK
    <2>2. call'[r].key = call[r].key /\ call'[r].since = call[r].since
      BY <1>2 DEF Hit, TypeOK, CallOf
    <2> QED
      BY <2>1, <2>2, AnswerStep, SameRequest
  <1>3. CASE Finish(r)
    <2>1. /\ pc[r] = "finish" /\ pc'[r] = "served" /\ UNCHANGED <<db, bumped, call>>
          /\ \A s \in Readers \ {r} : pc'[s] = pc[s] \/ (pc[s] = "wait" /\ pc'[s] = "start")
      BY <1>3 DEF Finish, Land, WaitingFor, dataVars
    <2> QED
      BY <2>1, AnswerStep, SameRequest
  <1>4. CASE Fail(r) \/ Reply(r)
    <2>1. /\ pc[r] # "idle" /\ pc'[r] = "idle" /\ UNCHANGED <<db, bumped>>
          /\ \A s \in Readers \ {r} :
                /\ call'[s] = call[s]
                /\ pc'[s] = pc[s] \/ (pc[s] = "wait" /\ pc'[s] = "start")
      BY <1>4 DEF Fail, Reply, EndCall, Land, WaitingFor, dataVars, TypeOK
    <2> QED
      BY <2>1, LeaveStep, SameRequest
  <1>5. CASE ReadClock(r) \/ Join(r) \/ Lead(r) \/ GiveUp(r) \/ (\E d \in ALL_DEPS : Load(r, d))
             \/ Store(r) \/ Discard(r) \/ Raise(r)
    <2>1. /\ pc[r] \in {"start", "lookup", "wait", "compute"}
          /\ pc'[r] \in {"lookup", "wait", "compute", "finish", "raised"} /\ UNCHANGED <<db, bumped>>
          /\ \A s \in Readers \ {r} : pc'[s] = pc[s] /\ call'[s] = call[s]
      BY <1>5 DEF ReadClock, Join, Lead, GiveUp, Load, Store, Discard, Computed, Raise, dataVars, TypeOK
    <2>2. call'[r].key = call[r].key /\ call'[r].since = call[r].since
      BY <1>5 DEF ReadClock, Join, Lead, GiveUp, Load, Store, Discard, Raise, TypeOK, CallOf
    <2>3. \A s \in Readers : AsRequest(s)' = AsRequest(s)
      BY <2>1, <2>2, SameRequest, StillAsked
    <2> QED
      BY <1>1, <2>1, <2>3
  <1>6. CASE CloseSession(r)
    BY <1>1, <1>6, SameRequest DEF CloseSession, dataVars
  <1> QED
    BY <1>2, <1>3, <1>4, <1>5, <1>6 DEF Proceed

\* Commits and announcements, and the steps FreshReads does not see.
LEMMA SystemStep ==
    ASSUME TypeOK, Write \/ PassTime \/ Restart \/ UNCHANGED vars
    PROVE  [Reads!Next]_(Reads!vars)
  <1>1. ASSUME NEW D \in SUBSET ALL_DEPS, CommitData(D), UNCHANGED <<bumped, pc, call>>
        PROVE  Reads!Commit(D)
    <2>1. Mapped' = Mapped
      BY <1>1, SameRequest DEF Mapped
    <2> QED
      BY <1>1, <2>1 DEF CommitData, Reads!Commit, Mapped
  <1>2. ASSUME NEW D \in SUBSET ALL_DEPS, Invalidate(D), UNCHANGED <<db, pc, call>>
        PROVE  Reads!Announce(D)
    <2>1. Mapped' = Mapped
      BY <1>2, SameRequest DEF Mapped
    <2> QED
      BY <1>2, <2>1 DEF Invalidate, Reads!Announce, Mapped
  <1>3. ASSUME NEW j \in Jobs, NEW e \in Events, NEW D \in JobWrites, CommitJob(j, e, D)
        PROVE  \E C \in SUBSET ALL_DEPS : Reads!Commit(C)
    BY <1>1, <1>3, WritersAssumption DEF CommitJob, threadVars
  <1>4. ASSUME NEW j \in Jobs, PublishJob(j)
        PROVE  \E C \in SUBSET ALL_DEPS : Reads!Announce(C)
    BY <1>2, <1>4 DEF PublishJob, threadVars, TypeOK
  <1>5. ASSUME NEW w \in Requests, NEW D \in RequestWrites, RespondRequest(w, D)
        PROVE  \E C \in SUBSET ALL_DEPS : Reads!Announce(C)
    BY <1>2, <1>5 DEF RespondRequest, threadVars
  <1>6. ASSUME NEW w \in Requests, CommitRequest(w)
        PROVE  \E C \in SUBSET ALL_DEPS : Reads!Commit(C)
    BY <1>1, <1>6 DEF CommitRequest, threadVars, TypeOK
  <1>7. CASE PassTime \/ UNCHANGED vars
    <2>1. UNCHANGED <<db, bumped, pc, call>>
      BY <1>7 DEF PassTime, vars, dataVars, threadVars
    <2> QED
      BY <2>1, SameRequest DEF Reads!vars
  <1>8. CASE Restart
    <2>1. Mapped' = [c \in Readers |-> Reads!None]
      BY <1>8 DEF Restart, Mapped, AsRequest, Reads!None
    <2> QED
      BY <1>8, <2>1 DEF Restart, Reads!Next, Reads!Restart, Mapped
  <1> QED
    BY <1>3, <1>4, <1>5, <1>6, <1>7, <1>8 DEF Write, Reads!Next

\* The initial state maps to an initial state of FreshReads.
LEMMA InitMaps == Init => Reads!Init
  <1> SUFFICES ASSUME Init PROVE Reads!Init
    OBVIOUS
  <1>1. Mapped = [c \in Readers |-> Reads!None]
    BY DEF Init, Mapped, AsRequest, Reads!None
  <1> QED
    BY <1>1 DEF Init, Reads!Init, Mapped

\* The read cache keeps the promise of FreshReads: whatever hits, ETags, shared computations,
\* bumps and restarts do, an answer is made of committed data at least as new as everything
\* announced before its request came in (read_cache.py:1-18, 116-248).
THEOREM PromiseKept ==
    ASSUME SharedSession = {}
    PROVE  Spec => KeepsPromise
  <1>1. TypeOK /\ TypeOK' /\ FreshInv /\ FreshInv' /\ [Next]_vars => [Reads!Next]_(Reads!vars)
    <2> SUFFICES ASSUME TypeOK, TypeOK', FreshInv, FreshInv', [Next]_vars
                 PROVE  [Reads!Next]_(Reads!vars)
      OBVIOUS
    <2>1. CASE Write \/ PassTime \/ Restart \/ UNCHANGED vars
      BY <2>1, SystemStep
    <2>2. ASSUME NEW r \in Readers, NEW k \in Keys, NotModified(r, k) \/ Open(r, k)
          PROVE  Reads!Next
      BY <2>2, ArrivalStep DEF Reads!Next
    <2>3. ASSUME NEW r \in Readers, Proceed(r) \/ Raise(r) \/ CloseSession(r)
          PROVE  [Reads!Next]_(Reads!vars)
      BY <2>3, ThreadStep DEF Reads!Next
    <2> QED
      BY <2>1, <2>2, <2>3 DEF Next
  <1>2. Spec => [][Reads!Next]_(Reads!vars)
    BY <1>1, TypeCorrect, Freshness, PTL DEF Spec
  <1> QED
    BY <1>2, InitMaps, PTL DEF Spec, KeepsPromise, Reads!Spec
=============================================================================
