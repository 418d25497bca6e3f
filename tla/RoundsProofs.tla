---------------------------- MODULE RoundsProofs ----------------------------
(***************************************************************************)
(* Proofs about Rounds, for any number of pending rounds, any finite book  *)
(* and any delays: the refresh flags belong to one round in flight; an     *)
(* unlocked page on screen has a round of its session in flight or a       *)
(* timer, unless the loop was let go; the stored queue is the live one;    *)
(* and what the user asked to pull again is not forgotten.  Inductive: the *)
(* first two together with the types of the rounds and the timer, and of   *)
(* the queue that it is bounded, holds a symbol once and is stored.        *)
(***************************************************************************)
EXTENDS Rounds, FiniteSetTheorems, TLAPS

Types == rounds \in [RoundIds -> Round] /\ timer \in Int /\ refreshing \in Kinds \cup {"none"}

RoundsInv == Types /\ OneOwner /\ LoopHeld

\* The rest of the state that the invariant reads.
unseen == <<unlocked, shown, timer, refreshing, rounds, letGo>>

LEMMA RoundsInit == Init => RoundsInv
  BY RoundsAssumption DEF Init, RoundsInv, Types, OneOwner, LoopHeld, Idle, Round, Await, Kinds, Off, Working

LEMMA RoundsRest == RoundsInv /\ UNCHANGED unseen => RoundsInv'
  BY DEF RoundsInv, Types, OneOwner, LoopHeld, Working, unseen

----------------------------------------------------------------------------
\* What a step does to the flags and the rounds.
Owners == rounds \in [RoundIds -> Round] /\ refreshing \in Kinds \cup {"none"} /\ OneOwner

\* The rounds as a new session finds them, or as they are.
AsBefore(rs) == rs = rounds \/ rs = Foreign(rounds)

LEMMA ForeignGives ==
    ASSUME NEW rs \in [RoundIds -> Round]
    PROVE  /\ Foreign(rs) \in [RoundIds -> Round]
           /\ \A r \in RoundIds : Foreign(rs)[r].own = rs[r].own /\ Foreign(rs)[r].at = rs[r].at
  BY DEF Foreign, Round

LEMMA ForeignKeeps ==
    ASSUME NEW rs, AsBefore(rs), rounds \in [RoundIds -> Round]
    PROVE  /\ rs \in [RoundIds -> Round]
           /\ \A r \in RoundIds : rs[r].own = rounds[r].own /\ rs[r].at = rounds[r].at
  BY ForeignGives DEF AsBefore

\* After an abort no round owns the flags.
LEMMA AbandonedGives ==
    ASSUME NEW rs \in [RoundIds -> Round]
    PROVE  /\ Abandoned(rs) \in [RoundIds -> Round]
           /\ \A r \in RoundIds : ~ Abandoned(rs)[r].own
  BY DEF Abandoned, Round

LEMMA AbortKeeps ==
    ASSUME Owners, NEW rs, AsBefore(rs), abortInFlightRound(rs) PROVE Owners' /\ refreshing' = "none"
  <1>1. CASE refreshing = "none"
    <2>1. rounds' = rs /\ refreshing' = refreshing
      BY <1>1 DEF abortInFlightRound
    <2> QED
      BY <1>1, <2>1, ForeignKeeps DEF Owners, OneOwner
  <1>2. CASE refreshing # "none"
    <2>1. refreshing' = "none" /\ rounds' = Abandoned(rs)
      BY <1>2 DEF abortInFlightRound
    <2> QED
      BY <2>1, ForeignKeeps, AbandonedGives DEF Owners, OneOwner
  <1> QED
    BY <1>1, <1>2

LEMMA ClaimKeeps ==
    ASSUME Owners, NEW rs, AsBefore(rs),
           NEW kind \in Kinds, NEW force \in BOOLEAN, NEW kickoff \in BOOLEAN,
           Claim(rs, kind, force, kickoff)
    PROVE  Owners' /\ Working' /\ letGo' = "no"
  <1>1. refreshing' = kind /\ letGo' = "no"
    BY DEF Claim
  <1>2. PICK r \in RoundIds, await \in {"warm", "prime"} :
           rounds' = [Abandoned(rs) EXCEPT ![r] =
                        [at |-> await, own |-> TRUE, same |-> TRUE, late |-> FALSE, force |-> force]]
    BY DEF Claim
  <1>3. rs \in [RoundIds -> Round]
    BY ForeignKeeps DEF Owners
  <1>4. rounds' \in [RoundIds -> Round]
    BY <1>2, <1>3, AbandonedGives DEF Round, Await
  <1>5. /\ rounds'[r].own /\ rounds'[r].same /\ rounds'[r].at # "idle"
        /\ \A q \in RoundIds \ {r} : ~ rounds'[q].own
    BY <1>2, <1>3, AbandonedGives
  <1>6. kind # "none"
    BY DEF Kinds
  <1>7. OneOwner'
    BY <1>1, <1>5, <1>6 DEF OneOwner
  <1>8. Working'
    BY <1>5 DEF Working
  <1> QED
    BY <1>1, <1>4, <1>7, <1>8 DEF Owners

LEMMA OwnersOfInv == RoundsInv => Owners
  BY DEF RoundsInv, Types, Owners

\* Enough of the next state: the flags with their owner, the loop held or let go.
LEMMA InvOfHeld ==
    ASSUME Owners', timer' \in Int, timer' # Off \/ Working' \/ letGo' # "no"
    PROVE  RoundsInv'
  BY DEF RoundsInv, Types, Owners, LoopHeld

\* Afterwards a round of the session is in flight, the timer is armed or the loop let go.
LEMMA RoundsOfRun ==
    ASSUME RoundsInv, NEW kind \in Kinds, NEW force \in BOOLEAN, NEW kickoff \in BOOLEAN, NEW left \in Int,
           runScheduledRefresh(kind, force, kickoff, left)
    PROVE  RoundsInv'
  <1> AsBefore(rounds)
    BY DEF AsBefore
  <1>1. CASE Yield(left)
    <2>1. /\ UNCHANGED <<refreshing, rounds>> /\ timer' = left
          /\ letGo' = IF left = Off /\ ~Working THEN "lost" ELSE letGo
      BY <1>1 DEF Yield, owner
    <2>2. Owners' /\ Working' = Working
      BY <2>1, OwnersOfInv DEF Owners, OneOwner, Working
    <2> QED
      BY <2>1, <2>2, InvOfHeld
  <1>2. CASE Rest(rounds)
    BY <1>2, OwnersOfInv, AbortKeeps, InvOfHeld, RoundsAssumption DEF Rest, scheduleNext, Off
  <1>3. CASE timer' = left /\ Claim(rounds, kind, force, kickoff)
    BY <1>3, OwnersOfInv, ClaimKeeps, InvOfHeld
  <1> QED
    BY <1>1, <1>2, <1>3 DEF runScheduledRefresh

LEMMA RoundsOfRest == ASSUME RoundsInv, NEW rs, AsBefore(rs), Rest(rs) PROVE RoundsInv'
  BY OwnersOfInv, AbortKeeps, InvOfHeld, RoundsAssumption DEF Rest, scheduleNext, Off

LEMMA RoundsOfClaim ==
    ASSUME RoundsInv, NEW rs, AsBefore(rs),
           NEW kind \in Kinds, NEW force \in BOOLEAN, NEW kickoff \in BOOLEAN,
           timer' = timer \/ timer' = Off, Claim(rs, kind, force, kickoff)
    PROVE  RoundsInv'
  BY OwnersOfInv, ClaimKeeps, InvOfHeld DEF RoundsInv, Types, Off

----------------------------------------------------------------------------
LEMMA RoundsTick == ASSUME RoundsInv, Tick PROVE RoundsInv'
  <1>1. CASE shown
    <2>1. runScheduledRefresh("auto", FALSE, FALSE, Off)
      BY <1>1 DEF Tick
    <2>2. Off \in Int /\ "auto" \in Kinds
      BY DEF Kinds, Off
    <2> QED
      BY <2>1, <2>2, RoundsOfRun
  <1>2. CASE ~ shown
    BY <1>2, RoundsAssumption
       DEF Tick, scheduleNext, owner, page, Off, RoundsInv, Types, OneOwner, LoopHeld
  <1> QED
    BY <1>1, <1>2

\* A superseded round goes; its flags, if it had them, go with it.
LEMMA RoundsGone ==
    ASSUME RoundsInv, NEW r \in RoundIds, Superseded(r),
           UNCHANGED <<unlocked, shown, timer, letGo>>, releaseIfOwned(r),
           rounds' \in [RoundIds -> Round], ~ rounds'[r].own,
           \A q \in RoundIds \ {r} : /\ rounds'[q].own = rounds[q].own
                                     /\ rounds'[q].same = rounds[q].same
                                     /\ rounds'[q].at = rounds[q].at
    PROVE  RoundsInv'
  <1>1. refreshing' = IF rounds[r].own THEN "none" ELSE refreshing
    BY DEF releaseIfOwned
  <1>2. Types'
    BY <1>1 DEF RoundsInv, Types
  <1>3. OneOwner'
    BY <1>1 DEF RoundsInv, Types, OneOwner
  <1>4. Working => Working'
    BY DEF Working, Superseded
  <1>5. LoopHeld'
    BY <1>4 DEF RoundsInv, LoopHeld
  <1> QED
    BY <1>2, <1>3, <1>5 DEF RoundsInv

LEMMA RoundsLeave == ASSUME RoundsInv, NEW r \in RoundIds, RoundLeaves(r) PROVE RoundsInv'
  <1>1. rounds' = [rounds EXCEPT ![r] = Idle] /\ rounds \in [RoundIds -> Round]
    BY DEF RoundLeaves, RoundsInv, Types
  <1>2. Idle \in Round /\ ~ Idle.own
    BY DEF Idle, Round, Await
  <1>3. /\ rounds' \in [RoundIds -> Round] /\ rounds'[r] = Idle
        /\ \A q \in RoundIds \ {r} : rounds'[q] = rounds[q]
    BY <1>1, <1>2
  <1> QED
    BY <1>2, <1>3, RoundsGone DEF RoundLeaves, page

LEMMA RoundsAbandonedLands == ASSUME RoundsInv, NEW r \in RoundIds, AbandonedLands(r) PROVE RoundsInv'
  <1>1. /\ rounds' = [q \in RoundIds |->
                        IF q = r THEN Idle
                        ELSE IF rounds[q] = Idle \/ ~rounds[r].same THEN rounds[q]
                        ELSE [rounds[q] EXCEPT !.late = TRUE]]
        /\ rounds \in [RoundIds -> Round]
    BY DEF AbandonedLands, RoundsInv, Types
  <1>2. Idle \in Round /\ ~ Idle.own
    BY DEF Idle, Round, Await
  <1>3. \A q \in RoundIds : /\ [rounds[q] EXCEPT !.late = TRUE] \in Round
                            /\ [rounds[q] EXCEPT !.late = TRUE].own = rounds[q].own
                            /\ [rounds[q] EXCEPT !.late = TRUE].same = rounds[q].same
                            /\ [rounds[q] EXCEPT !.late = TRUE].at = rounds[q].at
    BY <1>1 DEF Round
  <1>4. /\ rounds' \in [RoundIds -> Round] /\ rounds'[r] = Idle
        /\ \A q \in RoundIds \ {r} : /\ rounds'[q].own = rounds[q].own
                                     /\ rounds'[q].same = rounds[q].same
                                     /\ rounds'[q].at = rounds[q].at
    BY <1>1, <1>2, <1>3
  <1> QED
    BY <1>2, <1>4, RoundsGone DEF AbandonedLands, page

\* A round that goes on keeps what it is.
LEMMA RoundsGoesOn ==
    ASSUME RoundsInv, NEW r \in RoundIds, RoundWarmed(r) \/ RoundPrimed(r) PROVE RoundsInv'
  <1>1. PICK await \in {"prime", "prices"} : rounds' = [rounds EXCEPT ![r].at = await]
    BY DEF RoundWarmed, RoundPrimed
  <1>2. UNCHANGED <<unlocked, shown, timer, refreshing, letGo>>
    BY DEF RoundWarmed, RoundPrimed, page
  <1>3. /\ rounds' \in [RoundIds -> Round] /\ rounds'[r].at = await
        /\ \A q \in RoundIds : rounds'[q].own = rounds[q].own /\ rounds'[q].same = rounds[q].same
        /\ \A q \in RoundIds \ {r} : rounds'[q].at = rounds[q].at
    BY <1>1 DEF RoundsInv, Types, Round, Await
  <1> QED
    BY <1>2, <1>3 DEF RoundsInv, Types, OneOwner, LoopHeld, Working

\* The owner lands: the flags go down and the next round is armed.
LEMMA RoundsLands == ASSUME RoundsInv, NEW r \in RoundIds, RoundLands(r) PROVE RoundsInv'
  <1>1. /\ rounds' = [q \in RoundIds |->
                        IF q = r THEN Idle
                        ELSE IF rounds[q] = Idle THEN Idle ELSE [rounds[q] EXCEPT !.late = TRUE]]
        /\ rounds \in [RoundIds -> Round]
    BY DEF RoundLands, RoundsInv, Types
  <1>2. Idle \in Round /\ ~ Idle.own
    BY DEF Idle, Round, Await
  <1>3. \A q \in RoundIds : /\ [rounds[q] EXCEPT !.late = TRUE] \in Round
                            /\ [rounds[q] EXCEPT !.late = TRUE].own = rounds[q].own
    BY <1>1 DEF Round
  <1>4. rounds[r].own
    BY DEF RoundLands, Superseded
  <1>5. rounds' \in [RoundIds -> Round] /\ \A q \in RoundIds : ~ rounds'[q].own
    BY <1>1, <1>2, <1>3, <1>4 DEF RoundsInv, OneOwner
  <1>6. PICK d \in 1 .. MaxDelay : timer' = d
    BY DEF RoundLands, scheduleNext
  <1>7. timer' \in Int /\ timer' # Off /\ refreshing' = "none"
    BY <1>6, RoundsAssumption DEF Off, RoundLands
  <1> QED
    BY <1>5, <1>7 DEF RoundsInv, Types, OneOwner, LoopHeld

\* The owner meets the error screen: the flags go down, and the loop with them.
LEMMA RoundsFails == ASSUME RoundsInv, NEW r \in RoundIds, RoundFails(r) PROVE RoundsInv'
  <1>1. /\ rounds' = [rounds EXCEPT ![r] = Idle] /\ rounds \in [RoundIds -> Round]
        /\ refreshing' = "none" /\ timer' = timer
        /\ letGo' = IF timer = Off THEN "failed" ELSE letGo
    BY DEF RoundFails, RoundsInv, Types
  <1>2. Idle \in Round /\ ~ Idle.own
    BY DEF Idle, Round, Await
  <1>3. rounds[r].own
    BY DEF RoundFails, Superseded
  <1>4. rounds' \in [RoundIds -> Round] /\ \A q \in RoundIds : ~ rounds'[q].own
    BY <1>1, <1>2, <1>3 DEF RoundsInv, OneOwner
  <1> QED
    BY <1>1, <1>4 DEF RoundsInv, Types, OneOwner, LoopHeld

----------------------------------------------------------------------------
LEMMA RoundsHide == ASSUME RoundsInv, Hide PROVE RoundsInv'
  <1>1. CASE unlocked
    <2>1. abortInFlightRound(rounds) /\ timer' = Off /\ ~ shown' /\ AsBefore(rounds)
      BY <1>1 DEF Hide, clearRefreshTimer, AsBefore
    <2> QED
      BY <2>1, OwnersOfInv, AbortKeeps DEF RoundsInv, Types, Owners, LoopHeld, Off
  <1>2. CASE ~ unlocked
    BY <1>2 DEF Hide, owner, RoundsInv, Types, OneOwner, LoopHeld
  <1> QED
    BY <1>1, <1>2

\* A coalesced wake leaves the loop as it is, which is what letGo is about.
LEMMA RoundsWakes == ASSUME RoundsInv, Wake PROVE RoundsInv'
  <1>1. CASE wakeAge < WakeWindow
    <2>1. /\ letGo' = IF timer = Off /\ ~Working THEN "lost" ELSE letGo
          /\ UNCHANGED <<timer, refreshing, rounds>>
      BY <1>1 DEF Wake, wakeRefresh, owner
    <2> QED
      BY <2>1 DEF RoundsInv, Types, OneOwner, LoopHeld, Working
  <1>2. CASE ~ (wakeAge < WakeWindow)
    <2>1. runScheduledRefresh("auto", FALSE, FALSE, timer) /\ timer \in Int /\ "auto" \in Kinds
      BY <1>2 DEF Wake, wakeRefresh, RoundsInv, Types, Kinds
    <2> QED
      BY <2>1, RoundsOfRun
  <1> QED
    BY <1>1, <1>2

\* A login, the one after the settings were saved included.
LEMMA RoundsLogin == ASSUME RoundsInv, Unlock \/ SaveSettings PROVE RoundsInv'
  <1>1. PICK rs : AsBefore(rs) /\ afterUnlock(rs)
    BY DEF Unlock, SaveSettings, AsBefore
  <1>2. \/ /\ rounds' = rs /\ refreshing' = refreshing
           /\ \/ scheduleNext(Interval)
              \/ timer' = Off /\ letGo' = "lost"
        \/ Rest(rs)
        \/ \E quick \in BOOLEAN : timer' = Off /\ Claim(rs, "start", quick, TRUE)
    BY <1>1 DEF afterUnlock
  <1>3. ASSUME rounds' = rs, refreshing' = refreshing,
               scheduleNext(Interval) \/ (timer' = Off /\ letGo' = "lost")
        PROVE  RoundsInv'
    <2>1. Owners'
      BY <1>1, <1>3, OwnersOfInv, ForeignKeeps DEF Owners, OneOwner
    <2> QED
      BY <1>3, <2>1, InvOfHeld, RoundsAssumption DEF scheduleNext, Off
  <1>4. CASE Rest(rs)
    BY <1>1, <1>4, RoundsOfRest
  <1>5. ASSUME NEW quick \in BOOLEAN, timer' = Off, Claim(rs, "start", quick, TRUE) PROVE RoundsInv'
    BY <1>1, <1>5, RoundsOfClaim DEF Kinds
  <1> QED
    BY <1>2, <1>3, <1>4, <1>5

LEMMA RoundsLock == ASSUME RoundsInv, lock PROVE RoundsInv'
  <1>1. ~ unlocked' /\ refreshing' = "none" /\ timer' = Off /\ rounds' = Foreign(Abandoned(rounds))
    BY DEF lock
  <1>2. Abandoned(rounds) \in [RoundIds -> Round] /\ \A r \in RoundIds : ~ Abandoned(rounds)[r].own
    BY AbandonedGives DEF RoundsInv, Types
  <1>3. rounds' \in [RoundIds -> Round] /\ \A r \in RoundIds : ~ rounds'[r].own
    BY <1>1, <1>2, ForeignGives
  <1> QED
    BY <1>1, <1>3 DEF RoundsInv, Types, OneOwner, LoopHeld, Off

\* The rounds a tap or the settings start.
LEMMA RoundsTap ==
    ASSUME RoundsInv, manualRefresh \/ SettingsPull \/ updateAllFromScratch PROVE RoundsInv'
  <1>1. \/ UNCHANGED unseen
        \/ \E force \in BOOLEAN : runScheduledRefresh("manual", force, FALSE, timer)
        \/ Rest(rounds)
        \/ timer' = timer /\ Claim(rounds, "reset", TRUE, FALSE)
    BY DEF manualRefresh, SettingsPull, updateAllFromScratch, unseen, page, owner
  <1>2. timer \in Int /\ {"manual", "reset"} \subseteq Kinds
    BY DEF RoundsInv, Types, Kinds
  <1>3. ASSUME NEW force \in BOOLEAN, runScheduledRefresh("manual", force, FALSE, timer) PROVE RoundsInv'
    BY <1>2, <1>3, RoundsOfRun
  <1>4. CASE timer' = timer /\ Claim(rounds, "reset", TRUE, FALSE)
    BY <1>2, <1>4, RoundsOfClaim DEF AsBefore
  <1> QED
    BY <1>1, <1>3, <1>4, RoundsRest, RoundsOfRest DEF AsBefore

\* What nobody of the loop does: the page and the network, the warm-up, time, a reload.
LEMMA RoundsAround ==
    ASSUME RoundsInv,
           Environment \/ startPrefetch \/ PrefetchEnds \/ Repaint \/ Reload \/ PassTime
    PROVE  RoundsInv'
  <1>1. CASE startPrefetch \/ PrefetchEnds \/ Repaint
    BY <1>1, RoundsRest DEF startPrefetch, PrefetchEnds, Repaint, unseen, page, owner
  <1>2. CASE Environment
    BY <1>2 DEF Environment, owner, RoundsInv, Types, OneOwner, LoopHeld, Working
  <1>3. CASE Reload
    BY <1>3 DEF Reload, Idle, Round, Await, Off, RoundsInv, Types, OneOwner, LoopHeld
  <1>4. CASE PassTime
    BY <1>4 DEF PassTime, page, Off, RoundsInv, Types, OneOwner, LoopHeld, Working
  <1> QED
    BY <1>1, <1>2, <1>3, <1>4

----------------------------------------------------------------------------
LEMMA RoundsNext == RoundsInv /\ [Next]_vars => RoundsInv'
  <1> SUFFICES ASSUME RoundsInv, [Next]_vars PROVE RoundsInv'
    OBVIOUS
  <1>1. CASE UNCHANGED vars
    BY <1>1, RoundsRest DEF vars, unseen, page, owner
  <1>2. ASSUME NEW r \in RoundIds, RoundStep(r) PROVE RoundsInv'
    BY <1>2, RoundsLeave, RoundsGoesOn, RoundsAbandonedLands, RoundsLands, RoundsFails DEF RoundStep
  <1> QED
    BY <1>1, <1>2, RoundsTick, RoundsHide, RoundsWakes, RoundsLogin, RoundsLock, RoundsTap, RoundsAround
       DEF Next

LEMMA RoundsInvariant == Spec => []RoundsInv
  BY RoundsInit, RoundsNext, PTL DEF Spec

\* The refresh flags belong to exactly one round in flight, however rounds are abandoned,
\* locked out, outlived or left to an earlier session (app.ts releaseIfOwned).
THEOREM RoundsOneOwner == Spec => []OneOwner
  <1>1. RoundsInv => OneOwner
    BY DEF RoundsInv
  <1> QED
    BY <1>1, RoundsInvariant, PTL

\* A visible, unlocked page has a round of its session in flight or the next one armed,
\* unless the loop was let go (app.ts refreshTickAction).
THEOREM RoundsLoopHeld == Spec => []LoopHeld
  <1>1. RoundsInv => LoopHeld
    BY DEF RoundsInv
  <1> QED
    BY <1>1, RoundsInvariant, PTL

----------------------------------------------------------------------------
(***************************************************************************)
(* The queue.  Its operators are loops over a sequence: a recursive        *)
(* function is the CHOSEN solution of its equation, so a solution is shown *)
(* to exist (LoopRuns), and what every pass keeps holds of the chosen one  *)
(* (LoopStays), both by a least counterexample.                            *)
(***************************************************************************)
LEMMA FirstOf ==
    ASSUME NEW T \in SUBSET Nat, T # {}
    PROVE  \E n \in T : \A m \in T : n <= m
  <1> DEFINE Below(n) == 0 .. n - 1
             Belows == {Below(n) : n \in T}
             R == StrictSubsetOrdering(Nat)
  <1>1. IsWellFoundedOn(R, FiniteSubsetsOf(Nat))
    BY FS_StrictSubsetOrderingWellFounded
  <1>2. Belows \subseteq FiniteSubsetsOf(Nat) /\ Belows # {}
    <2>1. \A n \in T : Below(n) \in SUBSET Nat /\ IsFiniteSet(Below(n))
      BY FS_Interval
    <2> QED
      BY <2>1 DEF FiniteSubsetsOf
  <1>3. \E x \in Belows : \A y \in Belows : <<y, x>> \notin R
    <2> HIDE DEF R, Belows
    <2> QED
      BY <1>1, <1>2, WFMin
  <1>4. PICK n \in T : \A m \in T : <<Below(m), Below(n)>> \notin R
    <2> HIDE DEF R, Below
    <2> QED
      BY <1>3
  <1>5. ASSUME NEW m \in T, m < n PROVE FALSE
    <2>1. Below(m) \subseteq Below(n) /\ m \in Below(n) /\ m \notin Below(m)
      BY <1>5
    <2>2. <<Below(m), Below(n)>> \in R
      BY <2>1 DEF StrictSubsetOrdering
    <2> QED
      BY <1>4, <2>2
  <1> QED
    BY <1>5


\* u is what a loop over 1 .. n makes of base.
LoopOf(u, n, base, step) == u = [i \in 0 .. n |-> IF i = 0 THEN base ELSE step[i][u[i - 1]]]

\* A loop whose every pass takes A[i - 1] to A[i] has run to its end.
LEMMA LoopRuns ==
    ASSUME NEW n \in Nat, NEW A, NEW base \in A[0], NEW step,
           \A i \in 1 .. n : \A x \in A[i - 1] : step[i][x] \in A[i]
    PROVE  \E u : LoopOf(u, n, base, step) /\ \A i \in 0 .. n : u[i] \in A[i]
  <1> DEFINE Runs(k) == \E u : LoopOf(u, k, base, step) /\ \A i \in 0 .. k : u[i] \in A[i]
             T == {k \in 0 .. n : ~ Runs(k)}
  <1>1. SUFFICES ASSUME T # {} PROVE FALSE
    BY n \in 0 .. n
  <1>2. PICK k \in T : \A m \in T : k <= m
    <2>1. T \in SUBSET Nat
      OBVIOUS
    <2> HIDE DEF T
    <2> QED
      BY <1>1, <2>1, FirstOf
  <1>3. k \in Nat /\ k <= n /\ ~ Runs(k)
    OBVIOUS
  <1>4. CASE k = 0
    <2> DEFINE u == [i \in 0 .. 0 |-> base]
    <2>1. LoopOf(u, 0, base, step) /\ \A i \in 0 .. 0 : u[i] \in A[i]
      BY DEF LoopOf
    <2> QED
      BY <1>3, <1>4, <2>1
  <1>5. CASE k # 0
    <2>1. k - 1 \in 0 .. n /\ ~ (k <= k - 1) /\ k - 1 \in Nat /\ k \in 1 .. n
      BY <1>3, <1>5
    <2>2. k - 1 \notin T
      BY <1>2, <2>1
    <2>3. Runs(k - 1)
      BY <2>1, <2>2
    <2>4. PICK v : LoopOf(v, k - 1, base, step) /\ \A i \in 0 .. k - 1 : v[i] \in A[i]
      BY <2>3
    <2> DEFINE u == [i \in 0 .. k |-> IF i < k THEN v[i] ELSE step[k][v[k - 1]]]
    <2>5. v[k - 1] \in A[k - 1] /\ step[k][v[k - 1]] \in A[k]
      BY <2>1, <2>4
    <2>6. \A i \in 0 .. k - 1 : u[i] = v[i] /\ v[i] = IF i = 0 THEN base ELSE step[i][v[i - 1]]
      BY <1>3, <2>4 DEF LoopOf
    <2>7. u[k] = step[k][v[k - 1]] /\ u[k - 1] = v[k - 1]
      BY <1>3, <1>5
    <2>8. \A i \in 0 .. k : u[i] \in A[i]
      <3>1. \A i \in 0 .. k : i # k => i \in 0 .. k - 1
        BY <1>3
      <3> HIDE DEF u
      <3> QED
        BY <2>4, <2>5, <2>6, <2>7, <3>1
    <2>9. \A i \in 0 .. k : u[i] = IF i = 0 THEN base ELSE step[i][u[i - 1]]
      <3> SUFFICES ASSUME NEW i \in 0 .. k PROVE u[i] = IF i = 0 THEN base ELSE step[i][u[i - 1]]
        OBVIOUS
      <3>1. CASE i = k
        <4> HIDE DEF u
        <4> QED
          BY <1>5, <2>7, <3>1
      <3>2. CASE i # k
        <4>1. i \in 0 .. k - 1 /\ (i # 0 => i - 1 \in 0 .. k - 1)
          BY <1>3, <3>2
        <4> HIDE DEF u
        <4> QED
          BY <2>6, <4>1
      <3> QED
        BY <3>1, <3>2
    <2>10. LoopOf(u, k, base, step)
      <3>1. u = [i \in 0 .. k |-> u[i]]
        OBVIOUS
      <3> HIDE DEF u
      <3> QED
        BY <2>9, <3>1 DEF LoopOf
    <2>11. Runs(k)
      <3> HIDE DEF u
      <3> QED
        BY <2>8, <2>10
    <2> QED
      BY <1>3, <2>11
  <1> QED
    BY <1>4, <1>5

\* What every pass keeps, the loop keeps.
LEMMA LoopStays ==
    ASSUME NEW n \in Nat, NEW A, NEW u, u[0] \in A[0],
           \A i \in 1 .. n : u[i - 1] \in A[i - 1] => u[i] \in A[i]
    PROVE  u[n] \in A[n]
  <1> DEFINE T == {k \in 0 .. n : u[k] \notin A[k]}
  <1>1. SUFFICES ASSUME T # {} PROVE FALSE
    BY n \in 0 .. n
  <1>2. PICK k \in T : \A m \in T : k <= m
    <2>1. T \in SUBSET Nat
      OBVIOUS
    <2> HIDE DEF T
    <2> QED
      BY <1>1, <2>1, FirstOf
  <1>3. k \in Nat /\ k <= n /\ u[k] \notin A[k]
    OBVIOUS
  <1>4. k # 0 => k - 1 \in 0 .. n /\ ~ (k <= k - 1) /\ k \in 1 .. n
    BY <1>3
  <1>5. k # 0 => u[k - 1] \in A[k - 1]
    BY <1>2, <1>4
  <1> QED
    BY <1>3, <1>4, <1>5

----------------------------------------------------------------------------
\* The queues the loop can hold.
Queues ==
    {q \in Seq(Entry) : /\ Len(q) <= QueueMax
                        /\ \A i, j \in DOMAIN q : q[i].symbol = q[j].symbol => i = j}

\* What parking one more symbol keeps, parking them all keeps.
LEMMA EnqueueKeeps ==
    ASSUME NEW W, NEW q \in W, NEW symbols \in Seq(Symbols), NEW force,
           \A x \in W : \A s \in Symbols : enqueueOne(x, s, force) \in W
    PROVE  enqueue(q, symbols, force) \in W
  <1> DEFINE n == Len(symbols)
             E(u) == u = [i \in 0 .. n |-> IF i = 0 THEN q ELSE enqueueOne(u[i - 1], symbols[i], force)]
             A == [i \in 0 .. n |-> W]
             step == [i \in 1 .. n |-> [x \in W |-> enqueueOne(x, symbols[i], force)]]
             after == CHOOSE u : E(u)
  <1>1. n \in Nat /\ \A i \in 1 .. n : symbols[i] \in Symbols
    OBVIOUS
  <1>2. \A i \in 1 .. n : i - 1 \in 0 .. n /\ i \in 0 .. n /\ i # 0
    BY <1>1
  <1>3. \E u : E(u)
    <2>1. \A i \in 1 .. n : \A x \in A[i - 1] : step[i][x] \in A[i]
      BY <1>1, <1>2
    <2>2. q \in A[0]
      BY <1>1
    <2>3. PICK u : LoopOf(u, n, q, step) /\ \A i \in 0 .. n : u[i] \in A[i]
      <3> HIDE DEF A, step, n
      <3> QED
        BY <1>1, <2>1, <2>2, LoopRuns
    <2>4. u = [i \in 0 .. n |-> IF i = 0 THEN q ELSE step[i][u[i - 1]]]
      BY <2>3 DEF LoopOf
    <2>5. \A i \in 0 .. n : i # 0 => i - 1 \in 0 .. n /\ i \in 1 .. n
      BY <1>1
    <2>6. \A i \in 0 .. n : i # 0 => step[i][u[i - 1]] = enqueueOne(u[i - 1], symbols[i], force)
      BY <2>3, <2>5
    <2>7. E(u)
      <3> HIDE DEF step, A, n
      <3> QED
        BY <2>4, <2>6
    <2> QED
      BY <2>7
  <1>4. E(after)
    BY <1>3
  <1>5. enqueue(q, symbols, force) = after[n]
    BY DEF enqueue
  <1>6. after[0] = q /\ \A i \in 1 .. n : after[i] = enqueueOne(after[i - 1], symbols[i], force)
    <2> HIDE DEF after
    <2> QED
      BY <1>1, <1>2, <1>4
  <1>7. after[0] \in A[0] /\ \A i \in 1 .. n : after[i - 1] \in A[i - 1] => after[i] \in A[i]
    <2> HIDE DEF after
    <2> QED
      BY <1>1, <1>2, <1>6
  <1>8. after[n] \in A[n]
    <2> HIDE DEF after, A, n
    <2> QED
      BY <1>1, <1>7, LoopStays
  <1> QED
    BY <1>1, <1>5, <1>8

\* What taking the places one by one keeps, the whole selection has.
LEMMA AtKeeps ==
    ASSUME NEW S, NEW q \in Seq(S), NEW places, NEW A, <<>> \in A[0],
           \A i \in 1 .. Len(q) : \A x \in A[i - 1] : (IF i \in places THEN Append(x, q[i]) ELSE x) \in A[i]
    PROVE  At(q, places) \in A[Len(q)]
  <1> DEFINE n == Len(q)
             E(u) == u = [i \in 0 .. n |->
                            IF i = 0 THEN <<>>
                            ELSE IF i \in places THEN Append(u[i - 1], q[i]) ELSE u[i - 1]]
             step == [i \in 1 .. n |-> [x \in A[i - 1] |-> IF i \in places THEN Append(x, q[i]) ELSE x]]
             upTo == CHOOSE u : E(u)
  <1>1. n \in Nat
    OBVIOUS
  <1>2. \A i \in 1 .. n : i - 1 \in 0 .. n /\ i \in 0 .. n /\ i # 0
    BY <1>1
  <1>3. \E u : E(u)
    <2>1. \A i \in 1 .. n : \A x \in A[i - 1] : step[i][x] \in A[i]
      BY <1>1, <1>2
    <2>3. PICK u : LoopOf(u, n, <<>>, step) /\ \A i \in 0 .. n : u[i] \in A[i]
      <3> HIDE DEF step, n
      <3> QED
        BY <1>1, <2>1, LoopRuns
    <2>4. u = [i \in 0 .. n |-> IF i = 0 THEN <<>> ELSE step[i][u[i - 1]]]
      BY <2>3 DEF LoopOf
    <2>5. \A i \in 0 .. n : i # 0 => i - 1 \in 0 .. n /\ i \in 1 .. n
      BY <1>1
    <2>6. \A i \in 0 .. n : i # 0 => step[i][u[i - 1]] = IF i \in places THEN Append(u[i - 1], q[i]) ELSE u[i - 1]
      BY <2>3, <2>5
    <2>7. E(u)
      <3> HIDE DEF step, n
      <3> QED
        BY <2>4, <2>6
    <2> QED
      BY <2>7
  <1>4. E(upTo)
    BY <1>3
  <1>5. At(q, places) = upTo[n]
    BY DEF At
  <1>6. /\ upTo[0] = <<>>
        /\ \A i \in 1 .. n : upTo[i] = IF i \in places THEN Append(upTo[i - 1], q[i]) ELSE upTo[i - 1]
    <2>1. upTo = [i \in 0 .. n |->
                    IF i = 0 THEN <<>>
                    ELSE IF i \in places THEN Append(upTo[i - 1], q[i]) ELSE upTo[i - 1]]
      BY <1>4
    <2> HIDE DEF upTo, n
    <2>2. upTo[0] = <<>>
      BY <1>1, <2>1
    <2>3. ASSUME NEW i \in 1 .. n
          PROVE  upTo[i] = IF i \in places THEN Append(upTo[i - 1], q[i]) ELSE upTo[i - 1]
      BY <1>2, <2>1
    <2> QED
      BY <2>2, <2>3
  <1>7. upTo[0] \in A[0] /\ \A i \in 1 .. n : upTo[i - 1] \in A[i - 1] => upTo[i] \in A[i]
    <2> HIDE DEF upTo
    <2> QED
      BY <1>1, <1>2, <1>6
  <1>8. upTo[n] \in A[n]
    <2> HIDE DEF upTo, n
    <2> QED
      BY <1>1, <1>7, LoopStays
  <1> QED
    BY <1>5, <1>8

\* An empty queue takes a stored one as it is.
LEMMA RestoreTakes ==
    ASSUME NEW q \in Queues PROVE restore(<<>>, q) = q
  <1> DEFINE n == Len(q)
             F(x, i) == IF q[i].symbol \in Parked(x) THEN x ELSE Bounded(Append(x, q[i]))
             E(u) == u = [i \in 0 .. n |->
                            IF i = 0 THEN <<>>
                            ELSE IF q[i].symbol \in Parked(u[i - 1]) THEN u[i - 1]
                            ELSE Bounded(Append(u[i - 1], q[i]))]
             A == [i \in 0 .. n |-> {SubSeq(q, 1, i)}]
             step == [i \in 1 .. n |-> [x \in Seq(Entry) |->
                        IF q[i].symbol \in Parked(x) THEN x ELSE Bounded(Append(x, q[i]))]]
             after == CHOOSE u : E(u)
  <1>1. n \in Nat /\ q \in Seq(Entry) /\ n <= QueueMax
    BY DEF Queues
  <1>2. \A i \in 1 .. n : i - 1 \in 0 .. n /\ i \in 0 .. n /\ i # 0
    BY <1>1
  <1>3. ASSUME NEW i \in 1 .. n
        PROVE  /\ SubSeq(q, 1, i - 1) \in Seq(Entry)
               /\ F(SubSeq(q, 1, i - 1), i) = SubSeq(q, 1, i)
    <2> DEFINE x == SubSeq(q, 1, i - 1)
    <2>1. x \in Seq(Entry) /\ Len(x) = i - 1 /\ \A j \in 1 .. i - 1 : x[j] = q[j]
      BY <1>1
    <2>2. q[i].symbol \notin Parked(x)
      <3> SUFFICES ASSUME NEW j \in DOMAIN x, x[j].symbol = q[i].symbol PROVE FALSE
        BY DEF Parked
      <3>1. j \in 1 .. i - 1 /\ x[j] = q[j]
        BY <2>1
      <3> QED
        BY <1>1, <3>1 DEF Queues
    <2>3. Append(x, q[i]) = SubSeq(q, 1, i)
      BY <1>1
    <2>4. Len(SubSeq(q, 1, i)) = i /\ ~ (i > QueueMax)
      BY <1>1, QueueAssumption
    <2> QED
      BY <2>1, <2>2, <2>3, <2>4 DEF Bounded
  <1>4. SubSeq(q, 1, 0) = <<>> /\ SubSeq(q, 1, n) = q
    BY <1>1
  <1>5. \E u : E(u)
    <2>1. \A i \in 1 .. n : \A x \in A[i - 1] : step[i][x] \in A[i]
      BY <1>1, <1>2, <1>3
    <2>2. <<>> \in A[0]
      BY <1>1, <1>4
    <2>3. PICK u : LoopOf(u, n, <<>>, step) /\ \A i \in 0 .. n : u[i] \in A[i]
      <3> HIDE DEF A, step, n
      <3> QED
        BY <1>1, <2>1, <2>2, LoopRuns
    <2>4. u = [i \in 0 .. n |-> IF i = 0 THEN <<>> ELSE step[i][u[i - 1]]]
      BY <2>3 DEF LoopOf
    <2>5. \A i \in 0 .. n : i # 0 => i - 1 \in 0 .. n /\ i \in 1 .. n
      BY <1>1
    <2>6. \A i \in 0 .. n : i # 0 => u[i - 1] \in Seq(Entry)
      BY <1>3, <2>3, <2>5
    <2>7. \A i \in 0 .. n : i # 0 =>
              step[i][u[i - 1]] = IF q[i].symbol \in Parked(u[i - 1]) THEN u[i - 1] ELSE Bounded(Append(u[i - 1], q[i]))
      BY <2>5, <2>6
    <2>8. E(u)
      <3> HIDE DEF step, A, n
      <3> QED
        BY <2>4, <2>7
    <2> QED
      BY <2>8
  <1>6. E(after)
    BY <1>5
  <1>7. restore(<<>>, q) = after[n]
    BY DEF restore
  <1>8. after[0] = <<>> /\ \A i \in 1 .. n : after[i] = F(after[i - 1], i)
    <2> HIDE DEF after
    <2> QED
      BY <1>1, <1>2, <1>6
  <1>9. after[0] \in A[0] /\ \A i \in 1 .. n : after[i - 1] \in A[i - 1] => after[i] \in A[i]
    <2> HIDE DEF after, F
    <2>1. after[0] \in A[0]
      BY <1>1, <1>4, <1>8
    <2>2. ASSUME NEW i \in 1 .. n, after[i - 1] \in A[i - 1] PROVE after[i] \in A[i]
      <3>1. after[i - 1] = SubSeq(q, 1, i - 1) /\ A[i] = {SubSeq(q, 1, i)}
        BY <1>2, <2>2
      <3> HIDE DEF A
      <3> QED
        BY <1>3, <1>8, <3>1
    <2> QED
      BY <2>1, <2>2
  <1>10. after[n] \in A[n]
    <2> HIDE DEF after, A, n
    <2> QED
      BY <1>1, <1>9, LoopStays
  <1> QED
    BY <1>1, <1>4, <1>7, <1>10

----------------------------------------------------------------------------
LEMMA QueueSeq ==
    ASSUME NEW q \in Queues
    PROVE  q \in Seq(Entry) /\ Len(q) \in Nat /\ DOMAIN q = 1 .. Len(q) /\ \A i \in 1 .. Len(q) : q[i] \in Entry
  BY DEF Queues

\* The user's request for a symbol, and how often it has been tried, are in w as in q.
KeepsForced(q, w) ==
    \A i \in DOMAIN q : q[i].force =>
       \E k \in DOMAIN w : w[k].symbol = q[i].symbol /\ w[k].force /\ w[k].attempts = q[i].attempts

\* A queue holds at most every symbol once.
LEMMA QueueFits ==
    ASSUME NEW q \in Queues, NEW s \in Symbols, s \notin Parked(q)
    PROVE  Len(q) < Cardinality(Symbols)
  <1> DEFINE n == Len(q)
             g == [i \in 1 .. n + 1 |-> IF i <= n THEN q[i].symbol ELSE s]
  <1>1. n \in Nat /\ \A i \in 1 .. n : q[i].symbol \in Symbols /\ q[i].symbol # s
    BY QueueSeq DEF Entry, Parked
  <1>2. \A i, j \in 1 .. n : q[i].symbol = q[j].symbol => i = j
    BY QueueSeq DEF Queues
  <1> HIDE DEF n
  <1>3. g \in [1 .. n + 1 -> Symbols]
    BY <1>1
  <1>4. \A i, j \in 1 .. n + 1 : g[i] = g[j] => i = j
    BY <1>1, <1>2
  <1>5. g \in Injection(1 .. n + 1, Symbols)
    <2> HIDE DEF g
    <2> QED
      BY <1>3, <1>4 DEF Injection, IsInjective
  <1>6. IsFiniteSet(1 .. n + 1) /\ Cardinality(1 .. n + 1) = n + 1
    BY <1>1, FS_Interval, 1 \in Int, n + 1 \in Int
  <1>7. Cardinality(1 .. n + 1) <= Cardinality(Symbols)
    <2> HIDE DEF g
    <2> QED
      BY <1>5, FS_Injection, RoundsAssumption
  <1>8. Cardinality(Symbols) \in Nat
    BY FS_CardinalityType, RoundsAssumption
  <1> QED
    BY <1>1, <1>6, <1>7, <1>8 DEF n

\* Parking a symbol gives a queue; with room for every symbol, none is pushed out.
LEMMA EnqueueOneGives ==
    ASSUME NEW q \in Queues, NEW s \in Symbols, NEW force \in BOOLEAN
    PROVE  /\ enqueueOne(q, s, force) \in Queues
           /\ Cardinality(Symbols) <= QueueMax => KeepsForced(q, enqueueOne(q, s, force))
  <1> DEFINE n == Len(q)
             w == enqueueOne(q, s, force)
  <1>1. n \in Nat /\ DOMAIN q = 1 .. n /\ q \in Seq(Entry) /\ n <= QueueMax
        /\ \A i \in 1 .. n : q[i] \in Entry
    BY QueueSeq DEF Queues
  <1>2. \A i, j \in 1 .. n : q[i].symbol = q[j].symbol => i = j
    BY <1>1 DEF Queues
  <1>3. CASE s \in Parked(q)
    <2> DEFINE e(i) == IF q[i].symbol = s THEN [q[i] EXCEPT !.force = @ \/ force] ELSE q[i]
    <2>1. w = [i \in 1 .. n |-> e(i)]
      BY <1>1, <1>3 DEF enqueueOne
    <2>2. ASSUME NEW i \in 1 .. n
          PROVE  /\ e(i) \in Entry /\ e(i).symbol = q[i].symbol /\ e(i).attempts = q[i].attempts
                 /\ q[i].force => e(i).force
      BY <1>1 DEF Entry
    <2> HIDE DEF e
    <2>3. w \in Seq(Entry) /\ Len(w) = n /\ DOMAIN w = 1 .. n /\ \A i \in 1 .. n : w[i] = e(i)
      <3> HIDE DEF w, n
      <3> QED
        BY <1>1, <2>1, <2>2
    <2> HIDE DEF w
    <2>4. w \in Queues
      BY <1>1, <1>2, <2>2, <2>3 DEF Queues
    <2>5. KeepsForced(q, w)
      BY <1>1, <2>2, <2>3 DEF KeepsForced
    <2> QED
      BY <2>4, <2>5 DEF w
  <1>4. CASE s \notin Parked(q)
    <2> DEFINE e == [symbol |-> s, attempts |-> 0, force |-> force]
               p == Append(q, e)
    <2>1. e \in Entry /\ e.symbol = s
      BY QueueAssumption DEF Entry
    <2>2. w = Bounded(p)
      BY <1>4 DEF enqueueOne
    <2> HIDE DEF e
    <2>3. /\ p \in Seq(Entry) /\ Len(p) = n + 1 /\ p[n + 1] = e
          /\ \A i \in 1 .. n : p[i] = q[i]
      BY <1>1, <2>1
    <2>4. \A i \in 1 .. n : q[i].symbol # s
      BY <1>1, <1>4 DEF Parked
    <2> HIDE DEF p, w, n
    <2>5. \A i, j \in 1 .. n + 1 : p[i].symbol = p[j].symbol => i = j
      BY <1>1, <1>2, <2>1, <2>3, <2>4
    <2>6. CASE n + 1 > QueueMax
      <3>1. w = Tail(p)
        BY <2>2, <2>3, <2>6 DEF Bounded
      <3>2. /\ w \in Seq(Entry) /\ Len(w) = n /\ DOMAIN w = 1 .. n
            /\ \A i \in 1 .. n : w[i] = p[i + 1]
        BY <1>1, <2>3, <3>1
      <3>3. \A i \in 1 .. n : i + 1 \in 1 .. n + 1
        BY <1>1
      <3>4. \A i, j \in 1 .. n : i + 1 = j + 1 => i = j
        BY <1>1
      <3>5. w \in Queues
        BY <1>1, <2>5, <3>2, <3>3, <3>4 DEF Queues
      <3>6. ~ Cardinality(Symbols) <= QueueMax
        <4>1. n < Cardinality(Symbols)
          BY <1>4, QueueFits DEF n
        <4>2. Cardinality(Symbols) \in Nat
          BY FS_CardinalityType, RoundsAssumption
        <4> QED
          BY <1>1, <2>6, <4>1, <4>2, QueueAssumption
      <3> QED
        BY <3>5, <3>6 DEF w
    <2>7. CASE ~ (n + 1 > QueueMax)
      <3>1. w = p
        BY <2>2, <2>3, <2>7 DEF Bounded
      <3>2. DOMAIN w = 1 .. n + 1 /\ n + 1 <= QueueMax
        BY <1>1, <2>3, <2>7, <3>1, QueueAssumption
      <3>3. w \in Queues
        BY <2>3, <2>5, <3>1, <3>2 DEF Queues
      <3>4. \A i \in 1 .. n : i \in 1 .. n + 1 /\ w[i] = q[i]
        BY <1>1, <2>3, <3>1
      <3>5. KeepsForced(q, w)
        BY <1>1, <3>2, <3>4 DEF KeepsForced
      <3> QED
        BY <3>3, <3>5 DEF w
    <2> QED
      BY <2>6, <2>7
  <1> QED
    BY <1>3, <1>4

LEMMA EnqueueGives ==
    ASSUME NEW q \in Queues, NEW symbols \in Seq(Symbols), NEW force \in BOOLEAN
    PROVE  /\ enqueue(q, symbols, force) \in Queues
           /\ Cardinality(Symbols) <= QueueMax => KeepsForced(q, enqueue(q, symbols, force))
  <1>1. enqueue(q, symbols, force) \in Queues
    BY EnqueueKeeps, EnqueueOneGives
  <1>2. ASSUME Cardinality(Symbols) <= QueueMax PROVE KeepsForced(q, enqueue(q, symbols, force))
    <2> DEFINE W == {w \in Queues : KeepsForced(q, w)}
    <2>1. q \in W
      BY DEF KeepsForced
    <2>2. ASSUME NEW x \in W, NEW s \in Symbols PROVE enqueueOne(x, s, force) \in W
      <3>1. enqueueOne(x, s, force) \in Queues /\ KeepsForced(x, enqueueOne(x, s, force))
        BY <1>2, EnqueueOneGives
      <3>2. KeepsForced(q, x)
        OBVIOUS
      <3>3. \A w : KeepsForced(q, x) /\ KeepsForced(x, w) => KeepsForced(q, w)
        BY DEF KeepsForced
      <3> QED
        BY <3>1, <3>2, <3>3
    <2>3. enqueue(q, symbols, force) \in W
      <3> HIDE DEF W
      <3> QED
        BY <2>1, <2>2, EnqueueKeeps
    <2> QED
      BY <2>3
  <1> QED
    BY <1>1, <1>2

\* A selection is a queue of the entries at its places.
LEMMA AtGives ==
    ASSUME NEW q \in Queues, NEW places
    PROVE  /\ At(q, places) \in Queues
           /\ \A k \in DOMAIN At(q, places) : \E j \in DOMAIN q : j \in places /\ At(q, places)[k] = q[j]
           /\ \A j \in DOMAIN q : j \in places => \E k \in DOMAIN At(q, places) : At(q, places)[k] = q[j]
  <1> DEFINE n == Len(q)
             Chosen(w, i) ==
                /\ Len(w) <= i
                /\ \A k \in 1 .. Len(w) : \E j \in 1 .. i : j \in places /\ w[k] = q[j]
                /\ \A j \in 1 .. i : j \in places => \E k \in 1 .. Len(w) : w[k] = q[j]
                /\ \A k, l \in 1 .. Len(w) : w[k].symbol = w[l].symbol => k = l
             A == [i \in 0 .. n |-> {w \in Seq(Entry) : Chosen(w, i)}]
  <1>1. n \in Nat /\ DOMAIN q = 1 .. n /\ q \in Seq(Entry) /\ n <= QueueMax
        /\ \A i \in 1 .. n : q[i] \in Entry
    BY QueueSeq DEF Queues
  <1>2. \A i, j \in 1 .. n : q[i].symbol = q[j].symbol => i = j
    BY <1>1 DEF Queues
  <1>3. <<>> \in A[0]
    BY <1>1
  <1>4. ASSUME NEW i \in 1 .. n, NEW x \in A[i - 1]
        PROVE  (IF i \in places THEN Append(x, q[i]) ELSE x) \in A[i]
    <2>1. i \in 0 .. n /\ i - 1 \in 0 .. n /\ i \in Nat /\ i - 1 \in Nat
      BY <1>1
    <2>2. x \in Seq(Entry) /\ Chosen(x, i - 1) /\ Len(x) \in Nat
      BY <2>1
    <2>3. \A j \in 1 .. i : j # i => j \in 1 .. i - 1
      BY <2>1
    <2>4. \A j \in 1 .. i - 1 : j \in 1 .. i /\ j \in 1 .. n /\ j # i
      BY <1>1, <2>1
    <2>5. CASE i \notin places
      <3>1. Chosen(x, i)
        BY <2>1, <2>2, <2>3, <2>4, <2>5
      <3> QED
        BY <2>1, <2>2, <2>5, <3>1
    <2>6. CASE i \in places
      <3> DEFINE w == Append(x, q[i])
                 m == Len(x)
      <3>1. w \in Seq(Entry) /\ Len(w) = m + 1 /\ w[m + 1] = q[i] /\ \A k \in 1 .. m : w[k] = x[k]
        BY <1>1, <2>2
      <3>2. m \in Nat /\ m <= i - 1
        BY <2>2
      <3> HIDE DEF w
      <3>3. \A k \in 1 .. m + 1 : k # m + 1 => k \in 1 .. m
        BY <3>2
      <3>3a. m + 1 \in 1 .. m + 1 /\ i \in 1 .. i /\ \A k \in 1 .. m : k \in 1 .. m + 1
        BY <3>2, <2>1
      <3>4. \A k \in 1 .. m : x[k].symbol # q[i].symbol
        BY <1>2, <2>2, <2>4
      <3>5. Len(w) <= i
        BY <2>1, <3>1, <3>2
      <3>6. \A k \in 1 .. Len(w) : \E j \in 1 .. i : j \in places /\ w[k] = q[j]
        <4> SUFFICES ASSUME NEW k \in 1 .. m + 1 PROVE \E j \in 1 .. i : j \in places /\ w[k] = q[j]
          BY <3>1
        <4>1. CASE k = m + 1
          BY <2>6, <3>1, <3>3a, <4>1
        <4>2. CASE k # m + 1
          <5>1. k \in 1 .. m /\ w[k] = x[k]
            BY <3>1, <3>3, <4>2
          <5>2. PICK j \in 1 .. i - 1 : j \in places /\ x[k] = q[j]
            BY <2>2, <5>1
          <5> QED
            BY <2>4, <5>1, <5>2
        <4> QED
          BY <4>1, <4>2
      <3>7. \A j \in 1 .. i : j \in places => \E k \in 1 .. Len(w) : w[k] = q[j]
        <4> SUFFICES ASSUME NEW j \in 1 .. i, j \in places PROVE \E k \in 1 .. m + 1 : w[k] = q[j]
          BY <3>1
        <4>1. CASE j = i
          BY <3>1, <3>3a, <4>1
        <4>2. CASE j # i
          <5>1. PICK k \in 1 .. m : x[k] = q[j]
            BY <2>2, <2>3, <4>2
          <5> QED
            BY <3>1, <3>3a, <5>1
        <4> QED
          BY <4>1, <4>2
      <3>8. \A k, l \in 1 .. Len(w) : w[k].symbol = w[l].symbol => k = l
        BY <2>2, <3>1, <3>3, <3>4
      <3>9. Chosen(w, i)
        BY <3>5, <3>6, <3>7, <3>8
      <3> HIDE DEF Chosen
      <3>10. w \in A[i]
        BY <2>1, <3>1, <3>9
      <3> QED
        BY <2>6, <3>10 DEF w
    <2> QED
      BY <2>5, <2>6
  <1>5. At(q, places) \in A[n]
    <2> HIDE DEF A
    <2> QED
      BY <1>1, <1>3, <1>4, AtKeeps
  <1>6. At(q, places) \in Seq(Entry) /\ Chosen(At(q, places), n) /\ DOMAIN At(q, places) = 1 .. Len(At(q, places))
        /\ Len(At(q, places)) \in Nat
    <2> HIDE DEF Chosen
    <2> QED
      BY <1>1, <1>5
  <1>7. Len(At(q, places)) <= QueueMax
    BY <1>1, <1>6, QueueAssumption
  <1> QED
    BY <1>1, <1>6, <1>7 DEF Queues

LEMMA ClearGives == ASSUME NEW q \in Queues, NEW done PROVE clear(q, done) \in Queues
  BY AtGives DEF clear

\* A drain leaves a queue, and in it what the user asked for, unless it was tried often enough.
LEMMA DrainGives ==
    ASSUME NEW q \in Queues, NEW fresh
    PROVE  /\ drained(q, fresh) \in Queues
           /\ \A i \in DOMAIN q : q[i].force /\ q[i].attempts # MaxAttempts
                => q[i].symbol \in Parked(drained(q, fresh))
  <1> DEFINE places == {i \in DOMAIN q : Stays(q[i], fresh)}
             left == At(q, places)
             w == drained(q, fresh)
  <1>1. /\ left \in Queues
        /\ \A k \in DOMAIN left : \E j \in DOMAIN q : j \in places /\ left[k] = q[j]
        /\ \A j \in DOMAIN q : j \in places => \E k \in DOMAIN left : left[k] = q[j]
    <2> HIDE DEF places
    <2> QED
      BY AtGives
  <1>2. w = [i \in DOMAIN left |-> [left[i] EXCEPT !.attempts = @ + 1]]
    BY DEF drained
  <1>3. /\ Len(left) \in Nat /\ DOMAIN left = 1 .. Len(left) /\ Len(left) <= QueueMax
        /\ \A i \in 1 .. Len(left) : left[i] \in Entry
        /\ \A i, j \in 1 .. Len(left) : left[i].symbol = left[j].symbol => i = j
    <2> HIDE DEF left
    <2> QED
      BY <1>1, QueueSeq DEF Queues
  <1>4. \A j \in DOMAIN q : q[j] \in Entry
    BY QueueSeq
  <1>5. \A k \in DOMAIN left : left[k].attempts < MaxAttempts
    <2> HIDE DEF left
    <2> QED
      BY <1>1 DEF Stays
  <1> HIDE DEF left
  <1>6. ASSUME NEW i \in 1 .. Len(left)
        PROVE  /\ [left[i] EXCEPT !.attempts = @ + 1] \in Entry
               /\ [left[i] EXCEPT !.attempts = @ + 1].symbol = left[i].symbol
    BY <1>3, <1>5, QueueAssumption DEF Entry
  <1> HIDE DEF w
  <1>7. /\ w \in Seq(Entry) /\ Len(w) = Len(left) /\ DOMAIN w = 1 .. Len(left)
        /\ \A i \in 1 .. Len(left) : w[i].symbol = left[i].symbol
    <2> DEFINE e(i) == [left[i] EXCEPT !.attempts = @ + 1]
    <2>1. w = [i \in 1 .. Len(left) |-> e(i)]
      BY <1>2, <1>3
    <2>2. \A i \in 1 .. Len(left) : e(i) \in Entry /\ e(i).symbol = left[i].symbol
      BY <1>6
    <2> HIDE DEF e
    <2> QED
      BY <1>3, <2>1, <2>2
  <1>8. w \in Queues
    BY <1>3, <1>7 DEF Queues
  <1>9. ASSUME NEW i \in DOMAIN q, q[i].force, q[i].attempts # MaxAttempts
        PROVE  q[i].symbol \in Parked(w)
    <2>1. q[i].attempts < MaxAttempts
      BY <1>4, <1>9, QueueAssumption DEF Entry
    <2>2. PICK k \in DOMAIN left : left[k] = q[i]
      BY <1>1, <1>9, <2>1 DEF Stays
    <2> QED
      BY <1>3, <1>7, <2>2 DEF Parked
  <1> QED
    BY <1>8, <1>9 DEF w

\* Symbols put in some order are a sequence of symbols.
LEMMA InOrder == ASSUME NEW S \in SUBSET Symbols PROVE SetToSeq(S) \in Seq(Symbols)
  <1>1. IsFiniteSet(S)
    BY FS_Subset, RoundsAssumption
  <1>2. Cardinality(S) \in Nat /\ ExistsBijection(1 .. Cardinality(S), S)
    BY <1>1, FS_CardinalityType
  <1>3. PICK f \in [1 .. Cardinality(S) -> S] : IsInjective(f)
    BY <1>2 DEF ExistsBijection, Bijection, Injection, IsInjective
  <1>4. SetToSeq(S) \in [1 .. Cardinality(S) -> S]
    BY <1>3 DEF SetToSeq
  <1> HIDE DEF SetToSeq
  <1>5. SetToSeq(S) \in [1 .. Cardinality(S) -> Symbols]
    BY <1>4
  <1> QED
    BY <1>2, <1>5

----------------------------------------------------------------------------
QueueInv == queue \in Queues /\ stored = queue

\* All that a step does to the queue: nothing, or a drain, perhaps of a queue that more
\* symbols were parked in; a round that completes; a lock or a reload.
Landed ==
    \E fetched, deferred \in SUBSET Symbols, force \in BOOLEAN :
       queue' = enqueue(clear(queue, fetched), SetToSeq(deferred), force) /\ stored' = queue'
Emptied == queue' = <<>> /\ stored' = <<>>
Reloaded == (stored' = <<>> \/ stored' = stored) /\ queue' = restore(<<>>, stored')

WorkStep ==
    \/ UNCHANGED work
    \/ drainDeferredQueue(queue)
    \/ \E mismatch \in SUBSET Symbols : drainDeferredQueue(enqueue(queue, SetToSeq(mismatch), FALSE))
    \/ Landed /\ Completes
    \/ (Emptied \/ Reloaded) /\ ~ unlocked'

LEMMA WorkOfClaim ==
    ASSUME NEW rs, NEW kind, NEW force, NEW kickoff, Claim(rs, kind, force, kickoff)
    PROVE  UNCHANGED work \/ drainDeferredQueue(queue)
  BY DEF Claim

LEMMA WorkOfRun ==
    ASSUME NEW kind, NEW force, NEW kickoff, NEW left, runScheduledRefresh(kind, force, kickoff, left)
    PROVE  UNCHANGED work \/ drainDeferredQueue(queue)
  BY WorkOfClaim DEF runScheduledRefresh, Yield

LEMMA WorkSteps == rounds \in [RoundIds -> Round] /\ [Next]_vars => WorkStep
  <1> SUFFICES ASSUME rounds \in [RoundIds -> Round], [Next]_vars PROVE WorkStep
    OBVIOUS
  <1>1. CASE UNCHANGED vars
    BY <1>1 DEF vars, WorkStep
  <1>2. CASE Tick
    BY <1>2, WorkOfRun DEF Tick, WorkStep
  <1>3. CASE Wake
    BY <1>3, WorkOfRun DEF Wake, wakeRefresh, WorkStep
  <1>4. CASE Unlock \/ SaveSettings
    <2>1. PICK rs : afterUnlock(rs)
      BY <1>4 DEF Unlock, SaveSettings
    <2> QED
      BY <2>1, WorkOfClaim DEF afterUnlock, WorkStep
  <1>5. CASE manualRefresh \/ SettingsPull
    BY <1>5, WorkOfRun DEF manualRefresh, SettingsPull, WorkStep
  <1>6. CASE updateAllFromScratch
    BY <1>6, WorkOfClaim DEF updateAllFromScratch, WorkStep
  <1>7. CASE lock
    BY <1>7 DEF lock, WorkStep, Emptied
  <1>8. CASE Reload
    BY <1>8 DEF Reload, WorkStep, Reloaded
  <1>9. CASE Hide \/ Environment \/ startPrefetch \/ PrefetchEnds \/ Repaint \/ PassTime
    BY <1>9 DEF Hide, Environment, startPrefetch, PrefetchEnds, Repaint, PassTime, WorkStep
  <1>10. ASSUME NEW r \in RoundIds, RoundStep(r) PROVE WorkStep
    <2>1. CASE RoundLeaves(r) \/ RoundPrimed(r) \/ AbandonedLands(r) \/ RoundFails(r)
      BY <2>1 DEF RoundLeaves, RoundPrimed, AbandonedLands, RoundFails, WorkStep
    <2>2. CASE RoundWarmed(r)
      BY <2>2 DEF RoundWarmed, WorkStep
    <2>3. CASE RoundLands(r)
      <3>1. rounds[r].at = "prices" /\ rounds[r].own /\ rounds'[r] = Idle
        BY <2>3 DEF RoundLands, Superseded
      <3>2. rounds[r].force \in BOOLEAN
        BY DEF Round
      <3>3. Landed
        BY <2>3, <3>2 DEF RoundLands, Landed
      <3> QED
        BY <3>1, <3>3 DEF Completes, WorkStep
    <2> QED
      BY <1>10, <2>1, <2>2, <2>3 DEF RoundStep
  <1> QED
    BY <1>1, <1>2, <1>3, <1>4, <1>5, <1>6, <1>7, <1>8, <1>9, <1>10 DEF Next

LEMMA EmptyQueue == <<>> \in Queues
  BY QueueAssumption DEF Queues

LEMMA QueueNext == ASSUME QueueInv, WorkStep PROVE QueueInv'
  <1>0. queue \in Queues /\ stored = queue
    BY DEF QueueInv
  <1>1. CASE UNCHANGED work
    BY <1>0, <1>1 DEF work, QueueInv
  <1>2. ASSUME NEW q \in Queues, drainDeferredQueue(q) PROVE QueueInv'
    BY <1>2, DrainGives DEF drainDeferredQueue, QueueInv
  <1>3. ASSUME NEW mismatch \in SUBSET Symbols PROVE enqueue(queue, SetToSeq(mismatch), FALSE) \in Queues
    BY <1>0, InOrder, EnqueueGives
  <1>4. CASE Landed
    BY <1>0, <1>4, ClearGives, InOrder, EnqueueGives DEF Landed, QueueInv
  <1>5. CASE Emptied
    BY <1>5, EmptyQueue DEF Emptied, QueueInv
  <1>6. CASE Reloaded
    BY <1>0, <1>6, EmptyQueue, RestoreTakes DEF Reloaded, QueueInv
  <1> QED
    BY <1>0, <1>1, <1>2, <1>3, <1>4, <1>5, <1>6 DEF WorkStep

----------------------------------------------------------------------------
\* What DeferralKept says of one step.
KeepsAsked ==
    unlocked /\ unlocked' /\ ~Completes =>
       \A i \in DOMAIN queue :
          queue[i].force => \/ queue[i].symbol \in Parked(queue')
                            \/ queue[i].attempts = MaxAttempts

LEMMA KeepsAskedStep ==
    ASSUME Cardinality(Symbols) <= QueueMax, QueueInv, WorkStep PROVE KeepsAsked
  <1> SUFFICES ASSUME unlocked', ~Completes, NEW i \in DOMAIN queue, queue[i].force,
                      queue[i].attempts # MaxAttempts
               PROVE  queue[i].symbol \in Parked(queue')
    BY DEF KeepsAsked
  <1>0. queue \in Queues
    BY DEF QueueInv
  <1>1. CASE UNCHANGED work
    BY <1>1 DEF work, Parked
  <1>2. CASE drainDeferredQueue(queue)
    BY <1>0, <1>2, DrainGives DEF drainDeferredQueue
  <1>3. ASSUME NEW mismatch \in SUBSET Symbols, drainDeferredQueue(enqueue(queue, SetToSeq(mismatch), FALSE))
        PROVE  queue[i].symbol \in Parked(queue')
    <2> DEFINE q == enqueue(queue, SetToSeq(mismatch), FALSE)
    <2>1. q \in Queues /\ KeepsForced(queue, q)
      BY <1>0, InOrder, EnqueueGives
    <2> HIDE DEF q
    <2>2. PICK k \in DOMAIN q : q[k].symbol = queue[i].symbol /\ q[k].force /\ q[k].attempts = queue[i].attempts
      BY <2>1 DEF KeepsForced
    <2>3. PICK fresh : queue' = drained(q, fresh)
      BY <1>3 DEF q, drainDeferredQueue
    <2> QED
      BY <2>1, <2>2, <2>3, DrainGives
  <1> QED
    BY <1>1, <1>2, <1>3 DEF WorkStep

----------------------------------------------------------------------------
LEMMA RoundsTyped == RoundsInv => rounds \in [RoundIds -> Round]
  BY DEF RoundsInv, Types

LEMMA QueueInvariant == Spec => []QueueInv
  <1>1. Init => QueueInv
    BY EmptyQueue DEF Init, QueueInv
  <1>2. RoundsInv /\ QueueInv /\ [Next]_vars => QueueInv'
    BY RoundsTyped, WorkSteps, QueueNext
  <1> QED
    BY <1>1, <1>2, RoundsInvariant, PTL DEF Spec

\* The stored queue is the live one, through drains, completed rounds, a lock and a reload,
\* whose restored queue is the stored one entry by entry (app.ts persistDeferredQueue).
THEOREM RoundsQueueSaved == Spec => []QueueSaved
  <1>1. QueueInv => QueueSaved
    BY DEF QueueInv, QueueSaved
  <1> QED
    BY <1>1, QueueInvariant, PTL

\* A symbol the user asked to pull again leaves the queue only with a round that completes
\* or with its attempts, when the queue has room for the whole book (a larger book pushes
\* the oldest out: deferred-queue.ts enqueue).
THEOREM RoundsDeferralKept == Cardinality(Symbols) <= QueueMax => (Spec => DeferralKept)
  <1> SUFFICES ASSUME Cardinality(Symbols) <= QueueMax PROVE Spec => DeferralKept
    OBVIOUS
  <1>1. RoundsInv /\ QueueInv /\ [Next]_vars => [KeepsAsked]_vars
    BY RoundsTyped, WorkSteps, KeepsAskedStep
  <1>2. Spec => [][KeepsAsked]_vars
    BY <1>1, RoundsInvariant, QueueInvariant, PTL DEF Spec
  <1> QED
    BY <1>2 DEF DeferralKept, KeepsAsked

----------------------------------------------------------------------------
\* The types of the rest: the loop's own state, and what is around it.
LoopTyped ==
    /\ timer \in Off .. MaxDelay /\ refreshing \in Kinds \cup {"none"} /\ started \in Off .. Interval
    /\ rounds \in [RoundIds -> Round] /\ letGo \in {"no", "failed", "lost"}
    /\ promote \in BOOLEAN /\ planned \in BOOLEAN

AroundTyped ==
    /\ unlocked \in BOOLEAN /\ shown \in BOOLEAN /\ online \in BOOLEAN /\ open \in BOOLEAN
    /\ held \subseteq Symbols /\ prefetch \in {"none", "running", "settled"}
    /\ tapAge \in 0 .. Cooldown /\ wakeAge \in 0 .. WakeWindow

Delays == Off .. MaxDelay

LEMMA DelayTypes == Off \in Delays /\ Interval \in Delays /\ Off \in Off .. Interval /\ 0 \in Off .. Interval
                    /\ 1 .. MaxDelay \subseteq Delays
  BY RoundsAssumption DEF Off, Delays

LEMMA RestTyped ==
    ASSUME LoopTyped, NEW rs, AsBefore(rs), Rest(rs),
           promote' \in BOOLEAN, planned' \in BOOLEAN
    PROVE  LoopTyped'
  <1>1. rs \in [RoundIds -> Round]
    BY ForeignKeeps DEF LoopTyped
  <1>2. timer' = Interval /\ letGo' = "no"
    BY DEF Rest, scheduleNext
  <1>3. /\ rounds' = rs \/ rounds' = Abandoned(rs)
        /\ refreshing' = refreshing \/ refreshing' = "none"
        /\ started' = started \/ started' = Off
    BY DEF Rest, abortInFlightRound
  <1> QED
    BY <1>1, <1>2, <1>3, AbandonedGives, DelayTypes DEF LoopTyped, Delays

LEMMA ClaimTyped ==
    ASSUME LoopTyped, NEW rs, AsBefore(rs),
           NEW kind \in Kinds, NEW force \in BOOLEAN, NEW kickoff \in BOOLEAN,
           timer' \in Delays, planned' \in BOOLEAN, Claim(rs, kind, force, kickoff)
    PROVE  LoopTyped'
  <1>1. rs \in [RoundIds -> Round]
    BY ForeignKeeps DEF LoopTyped
  <1>2. refreshing' = kind /\ started' = 0 /\ letGo' = "no" /\ promote' = (promote /\ kind # "manual")
    BY DEF Claim
  <1>3. PICK r \in RoundIds, await \in {"warm", "prime"} :
           rounds' = [Abandoned(rs) EXCEPT ![r] =
                        [at |-> await, own |-> TRUE, same |-> TRUE, late |-> FALSE, force |-> force]]
    BY DEF Claim
  <1>4. rounds' \in [RoundIds -> Round]
    BY <1>1, <1>3, AbandonedGives DEF Round, Await
  <1>5. promote' \in BOOLEAN
    BY <1>2 DEF LoopTyped
  <1> QED
    BY <1>2, <1>4, <1>5, DelayTypes DEF LoopTyped, Delays

LEMMA RunTyped ==
    ASSUME LoopTyped, NEW kind \in Kinds, NEW force \in BOOLEAN, NEW kickoff \in BOOLEAN, NEW left \in Delays,
           runScheduledRefresh(kind, force, kickoff, left)
    PROVE  LoopTyped'
  <1> AsBefore(rounds)
    BY DEF AsBefore
  <1>1. CASE Yield(left)
    BY <1>1 DEF Yield, owner, LoopTyped, Delays
  <1>2. CASE Rest(rounds) /\ UNCHANGED <<promote, work, planned>>
    BY <1>2, RestTyped DEF LoopTyped
  <1>3. CASE Rest(rounds) /\ planned' = TRUE /\ UNCHANGED <<promote, work>>
    BY <1>3, RestTyped DEF LoopTyped
  <1>4. CASE timer' = left /\ Claim(rounds, kind, force, kickoff) /\ UNCHANGED planned
    BY <1>4, ClaimTyped DEF LoopTyped
  <1> QED
    BY <1>1, <1>2, <1>3, <1>4 DEF runScheduledRefresh

LEMMA LoginTyped == ASSUME LoopTyped, NEW rs, AsBefore(rs), afterUnlock(rs) PROVE LoopTyped'
  <1>1. rs \in [RoundIds -> Round] /\ planned' = TRUE
    BY ForeignKeeps DEF LoopTyped, afterUnlock
  <1>2. \/ scheduleNext(Interval) /\ rounds' = rs /\ UNCHANGED <<refreshing, started, promote, work>>
        \/ timer' = Off /\ letGo' = "lost" /\ rounds' = rs /\ UNCHANGED <<refreshing, started, promote, work>>
        \/ Rest(rs) /\ UNCHANGED <<promote, work>>
        \/ \E quick \in BOOLEAN : timer' = Off /\ Claim(rs, "start", quick, TRUE)
    BY DEF afterUnlock
  <1>3. CASE scheduleNext(Interval) /\ rounds' = rs /\ UNCHANGED <<refreshing, started, promote, work>>
    BY <1>1, <1>3, DelayTypes DEF LoopTyped, scheduleNext, Delays
  <1>4. CASE timer' = Off /\ letGo' = "lost" /\ rounds' = rs /\ UNCHANGED <<refreshing, started, promote, work>>
    BY <1>1, <1>4, DelayTypes DEF LoopTyped, Delays
  <1>5. CASE Rest(rs) /\ UNCHANGED <<promote, work>>
    BY <1>1, <1>5, RestTyped DEF LoopTyped
  <1>6. ASSUME NEW quick \in BOOLEAN, timer' = Off, Claim(rs, "start", quick, TRUE) PROVE LoopTyped'
    BY <1>1, <1>6, ClaimTyped, DelayTypes DEF Kinds
  <1> QED
    BY <1>2, <1>3, <1>4, <1>5, <1>6

LEMMA StepTyped == ASSUME LoopTyped, AroundTyped, NEW r \in RoundIds, RoundStep(r) PROVE LoopTyped' /\ AroundTyped'
  <1>0. Idle \in Round /\ timer \in Delays
    BY DEF Idle, Round, Await, LoopTyped, Delays
  <1>1. \A q \in RoundIds : [rounds[q] EXCEPT !.late = TRUE] \in Round
    BY DEF LoopTyped, Round
  <1>2. CASE RoundLeaves(r)
    BY <1>0, <1>2, DelayTypes DEF RoundLeaves, releaseIfOwned, page, book, taps, LoopTyped, AroundTyped
  <1>3. CASE RoundWarmed(r)
    <2>1. rounds' = [rounds EXCEPT ![r].at = "prime"]
      BY <1>3 DEF RoundWarmed
    <2>2. rounds' \in [RoundIds -> Round]
      BY <2>1 DEF LoopTyped, Round, Await
    <2> QED
      BY <1>3, <2>2 DEF RoundWarmed, page, book, taps, LoopTyped, AroundTyped
  <1>4. CASE RoundPrimed(r)
    <2>1. rounds' = [rounds EXCEPT ![r].at = "prices"]
      BY <1>4 DEF RoundPrimed
    <2>2. rounds' \in [RoundIds -> Round]
      BY <2>1 DEF LoopTyped, Round, Await
    <2> QED
      BY <1>4, <2>2 DEF RoundPrimed, page, taps, LoopTyped, AroundTyped
  <1>5. CASE AbandonedLands(r)
    <2>1. rounds' \in [RoundIds -> Round]
      BY <1>0, <1>1, <1>5 DEF AbandonedLands, LoopTyped
    <2>2. held' \subseteq Symbols
      BY <1>5 DEF AbandonedLands, AroundTyped
    <2>3. promote' \in BOOLEAN
      BY <1>5 DEF AbandonedLands
    <2>4. refreshing' \in Kinds \cup {"none"} /\ started' \in Off .. Interval
      BY <1>5, DelayTypes DEF AbandonedLands, releaseIfOwned, LoopTyped
    <2> QED
      BY <1>5, <2>1, <2>2, <2>3, <2>4 DEF AbandonedLands, page, LoopTyped, AroundTyped
  <1>6. CASE RoundLands(r)
    <2>1. rounds' \in [RoundIds -> Round]
      BY <1>0, <1>1, <1>6 DEF RoundLands, LoopTyped
    <2>2. held' \subseteq Symbols
      BY <1>6 DEF RoundLands, AroundTyped
    <2>3. PICK d \in 1 .. MaxDelay : scheduleNext(d)
      BY <1>6 DEF RoundLands
    <2> QED
      BY <1>6, <2>1, <2>2, <2>3, DelayTypes
         DEF RoundLands, scheduleNext, page, LoopTyped, AroundTyped, Delays
  <1>7. CASE RoundFails(r)
    <2>1. rounds' \in [RoundIds -> Round]
      BY <1>0, <1>7 DEF RoundFails, LoopTyped
    <2>2. held' \subseteq Symbols
      BY <1>7 DEF RoundFails, AroundTyped
    <2> QED
      BY <1>7, <2>1, <2>2, DelayTypes DEF RoundFails, page, LoopTyped, AroundTyped
  <1> QED
    BY <1>2, <1>3, <1>4, <1>5, <1>6, <1>7 DEF RoundStep

LEMMA TypedNext == LoopTyped /\ AroundTyped /\ [Next]_vars => LoopTyped' /\ AroundTyped'
  <1> SUFFICES ASSUME LoopTyped, AroundTyped, [Next]_vars PROVE LoopTyped' /\ AroundTyped'
    OBVIOUS
  <1>0. /\ timer \in Delays /\ Off \in Delays /\ {"auto", "manual", "reset"} \subseteq Kinds
        /\ AsBefore(rounds) /\ AsBefore(Foreign(rounds))
    BY DelayTypes DEF LoopTyped, Delays, Kinds, AsBefore
  <1>1. CASE UNCHANGED vars
    BY <1>1 DEF vars, page, book, owner, taps, LoopTyped, AroundTyped
  <1>2. CASE Tick
    <2>1. AroundTyped'
      BY <1>2 DEF Tick, page, AroundTyped
    <2>2. CASE shown
      <3>1. runScheduledRefresh("auto", FALSE, FALSE, Off)
        BY <1>2, <2>2 DEF Tick
      <3> QED
        BY <1>0, <2>1, <3>1, RunTyped
    <2>3. CASE ~ shown
      <3>1. timer' = Interval /\ letGo' = "no" /\ UNCHANGED <<refreshing, started, rounds, planned, promote>>
        BY <1>2, <2>3 DEF Tick, scheduleNext, owner
      <3> QED
        BY <2>1, <3>1, DelayTypes DEF LoopTyped, Delays
    <2> QED
      BY <2>1, <2>2, <2>3
  <1>3. CASE Hide
    <2>1. AroundTyped'
      BY <1>3 DEF Hide, book, taps, AroundTyped
    <2>2. CASE unlocked
      <3>1. abortInFlightRound(rounds) /\ timer' = Off /\ letGo' = letGo /\ UNCHANGED <<planned, promote>>
        BY <1>3, <2>2 DEF Hide, clearRefreshTimer, book, taps
      <3>2. /\ rounds' = rounds \/ rounds' = Abandoned(rounds)
            /\ refreshing' = refreshing \/ refreshing' = "none"
            /\ started' = started \/ started' = Off
        BY <3>1 DEF abortInFlightRound
      <3> QED
        <4>1. rounds' \in [RoundIds -> Round]
          BY <3>2, AbandonedGives DEF LoopTyped
        <4> QED
          BY <2>1, <3>1, <3>2, <4>1, DelayTypes DEF LoopTyped, Delays
    <2>3. CASE ~ unlocked
      <3>1. UNCHANGED <<timer, refreshing, started, rounds, letGo, planned, promote>>
        BY <1>3, <2>3 DEF Hide, owner, book, taps
      <3> QED
        BY <2>1, <3>1 DEF LoopTyped
    <2> QED
      BY <2>1, <2>2, <2>3
  <1>4. CASE Wake
    <2>1. CASE wakeAge < WakeWindow
      BY <1>4, <2>1 DEF Wake, wakeRefresh, owner, LoopTyped, AroundTyped
    <2>2. CASE ~ (wakeAge < WakeWindow)
      <3>1. AroundTyped'
        <4>1. shown' \in BOOLEAN /\ online' \in BOOLEAN
          BY <1>4 DEF Wake, AroundTyped
        <4>2. wakeAge' = 0 /\ UNCHANGED <<unlocked, open, held, prefetch, tapAge>>
          BY <1>4, <2>2 DEF Wake, wakeRefresh
        <4> QED
          BY <4>1, <4>2, RoundsAssumption DEF AroundTyped
      <3> QED
        BY <1>0, <1>4, <2>2, <3>1, RunTyped DEF Wake, wakeRefresh
    <2> QED
      BY <2>1, <2>2
  <1>5. CASE Environment \/ startPrefetch \/ PrefetchEnds \/ Repaint
    BY <1>5 DEF Environment, startPrefetch, PrefetchEnds, Repaint, page, book, owner, taps, LoopTyped, AroundTyped
  <1>6. CASE Unlock
    BY <1>0, <1>6, LoginTyped DEF Unlock, AroundTyped
  <1>7. CASE SaveSettings
    BY <1>0, <1>7, LoginTyped DEF SaveSettings, page, AroundTyped
  <1>8. CASE lock
    <2>1. rounds' \in [RoundIds -> Round]
      <3>1. Abandoned(rounds) \in [RoundIds -> Round]
        BY AbandonedGives DEF LoopTyped
      <3> QED
        BY <1>8, <3>1, ForeignGives DEF lock
    <2>2. started' \in Off .. Interval
      BY <1>8, DelayTypes DEF lock, LoopTyped
    <2> QED
      BY <1>8, <2>1, <2>2, DelayTypes DEF lock, book, LoopTyped, AroundTyped, Delays
  <1>9. CASE manualRefresh
    <2>1. AroundTyped'
      BY <1>9, RoundsAssumption DEF manualRefresh, page, AroundTyped
    <2>2. CASE refreshing = "auto"
      <3>1. promote' = TRUE /\ UNCHANGED <<timer, refreshing, started, rounds, letGo, planned>>
        BY <1>9, <2>2 DEF manualRefresh, owner
      <3> QED
        BY <2>1, <3>1 DEF LoopTyped
    <2>3. CASE refreshing # "auto"
      <3>1. PICK force \in BOOLEAN : runScheduledRefresh("manual", force /\ online, FALSE, timer)
        BY <1>9, <2>3 DEF manualRefresh
      <3>2. (force /\ online) \in BOOLEAN
        OBVIOUS
      <3> QED
        BY <1>0, <2>1, <3>1, <3>2, RunTyped
    <2> QED
      BY <2>1, <2>2, <2>3
  <1>10. CASE SettingsPull
    BY <1>0, <1>10, RunTyped DEF SettingsPull, page, AroundTyped
  <1>11. CASE updateAllFromScratch
    <2>1. AroundTyped'
      BY <1>11 DEF updateAllFromScratch, page, AroundTyped
    <2>2. CASE planned' = FALSE /\ UNCHANGED <<timer, owner, promote, work, letGo>>
      <3>1. planned' = FALSE /\ UNCHANGED <<timer, refreshing, started, rounds, letGo, promote>>
        BY <2>2 DEF owner
      <3> QED
        BY <2>1, <3>1 DEF LoopTyped
    <2>3. CASE Rest(rounds) /\ planned' = TRUE /\ UNCHANGED <<promote, work>>
      <3>1. Rest(rounds) /\ promote' \in BOOLEAN /\ planned' \in BOOLEAN
        BY <2>3 DEF LoopTyped
      <3> QED
        BY <1>0, <2>1, <3>1, RestTyped
    <2>4. CASE planned' = FALSE /\ timer' = timer /\ Claim(rounds, "reset", TRUE, FALSE)
      <3>1. timer' \in Delays /\ planned' \in BOOLEAN /\ "reset" \in Kinds /\ TRUE \in BOOLEAN /\ FALSE \in BOOLEAN
        BY <1>0, <2>4
      <3> QED
        BY <1>0, <2>1, <2>4, <3>1, ClaimTyped
    <2> QED
      BY <1>11, <2>1, <2>2, <2>3, <2>4 DEF updateAllFromScratch
  <1>12. CASE Reload
    <2>1. Idle \in Round
      BY DEF Idle, Round, Await
    <2>2. rounds' \in [RoundIds -> Round] /\ started' \in Off .. Interval
      BY <1>12, <2>1, DelayTypes DEF Reload, LoopTyped
    <2> QED
      <3>1. /\ timer' = Off /\ refreshing' = "none" /\ letGo' = "no" /\ promote' = FALSE
            /\ unlocked' = FALSE /\ shown' = TRUE /\ tapAge' = Cooldown /\ wakeAge' = WakeWindow
            /\ prefetch' = "none" /\ UNCHANGED <<online, open, held, planned>>
        BY <1>12 DEF Reload, book
      <3>2. LoopTyped'
        BY <2>2, <3>1, DelayTypes DEF LoopTyped, Delays
      <3>3. AroundTyped'
        <4>1. tapAge' \in 0 .. Cooldown /\ wakeAge' \in 0 .. WakeWindow
          BY <3>1, RoundsAssumption
        <4> QED
          BY <3>1, <4>1 DEF AroundTyped
      <3> QED
        BY <3>2, <3>3
  <1>13. CASE PassTime
    <2>1. timer' \in Off .. MaxDelay
      BY <1>13, RoundsAssumption DEF PassTime, LoopTyped, Off
    <2>2. /\ started' \in Off .. Interval /\ tapAge' \in 0 .. Cooldown /\ wakeAge' \in 0 .. WakeWindow
      BY <1>13, RoundsAssumption DEF PassTime, Older, LoopTyped, AroundTyped, Off
    <2> QED
      BY <1>13, <2>1, <2>2 DEF PassTime, page, book, LoopTyped, AroundTyped
  <1>14. ASSUME NEW r \in RoundIds, RoundStep(r) PROVE LoopTyped' /\ AroundTyped'
    BY <1>14, StepTyped
  <1> QED
    BY <1>1, <1>2, <1>3, <1>4, <1>5, <1>6, <1>7, <1>8, <1>9, <1>10, <1>11, <1>12, <1>13, <1>14 DEF Next

\* Every variable has its type, and the queue is bounded and holds a symbol once
\* (app.ts App's fields, deferred-queue.ts enqueue).
THEOREM RoundsTypeCorrect == Spec => []TypeOK
  <1>1. Init => LoopTyped /\ AroundTyped
    <2>1. Idle \in Round
      BY DEF Idle, Round, Await
    <2> QED
      <3> SUFFICES ASSUME Init PROVE LoopTyped /\ AroundTyped
        OBVIOUS
      <3>1. LoopTyped
        BY <2>1, DelayTypes DEF Init, LoopTyped, Delays
      <3>2. AroundTyped
        <4>1. tapAge \in 0 .. Cooldown /\ wakeAge \in 0 .. WakeWindow
          BY RoundsAssumption DEF Init
        <4> QED
          BY <4>1 DEF Init, AroundTyped
      <3> QED
        BY <3>1, <3>2
  <1>2. LoopTyped /\ AroundTyped /\ QueueInv => TypeOK
    BY QueueSeq DEF LoopTyped, AroundTyped, QueueInv, Queues, TypeOK, page
  <1> QED
    BY <1>1, <1>2, TypedNext, QueueInvariant, PTL DEF Spec
=============================================================================
