------------------------------ MODULE Credits ------------------------------
(***************************************************************************)
(* The companion's provider budgets (web/src/cache.ts, reservation.ts,     *)
(* provider-breaker.ts, tiingo-gate.ts): a ledger of credits spent and     *)
(* handed back per provider, what the caps leave of it, and the freeze a   *)
(* 429 puts on a provider.                                                 *)
(*                                                                         *)
(* A ledger is [spent, back]: the credits booked and refunded at each      *)
(* instant.  The source appends entries {at, n}, refunds with n < 0; only  *)
(* sums over intervals are ever read, so an instant's entries are added up *)
(* here.  Instants are counted in a unit that divides the minute; the      *)
(* horizon stays inside one UTC day and one ET day, so "today" is all of   *)
(* it and no entry is a day old.                                           *)
(***************************************************************************)
EXTENDS Integers, FiniteSets

CONSTANTS
    MaxTime,    \* bound: the last instant
    Minute,     \* instants to a minute
    Hour,       \* instants to a clock hour
    TdCap,      \* FREE_TIER.creditsPerMinute
    TdDayCap,   \* FREE_TIER.creditsPerDay
    TiCap,      \* WEB_HOURLY_CAP
    TiDayCap    \* WEB_DAILY_CAP

ASSUME CreditsAssumption ==
    /\ MaxTime \in Nat /\ Minute \in Nat \ {0} /\ Hour \in Nat \ {0}
    /\ TdCap \in Nat /\ TdDayCap \in Nat /\ TiCap \in Nat /\ TiDayCap \in Nat

Time == 0 .. MaxTime
Providers == {"twelvedata", "tiingo"}
Ledger == [spent : [Time -> Nat], back : [Time -> Nat]]
EmptyLedger == [spent |-> [t \in Time |-> 0], back |-> [t \in Time |-> 0]]

Least(a, b) == IF a < b THEN a ELSE b
AtLeastZero(n) == IF n > 0 THEN n ELSE 0

\* What f adds up to from one instant to another.
Sum(f, from, to) ==
    LET upTo[t \in Time] == (IF t = 0 THEN 0 ELSE upTo[t - 1])
                             + (IF from <= t /\ t <= to THEN f[t] ELSE 0)
    IN upTo[MaxTime]
Net(log, from, to) == Sum(log.spent, from, to) - Sum(log.back, from, to)

startOfHour(t) == Hour * (t \div Hour)
creditsSpentWithin(log, t) == Net(log, t - Minute + 1, t)
creditsSpentThisHour(log, t) == Net(log, startOfHour(t), t)
creditsSpentToday(log, t) == Net(log, 0, t)
outstandingCredits(log) == AtLeastZero(Net(log, 0, MaxTime))

recordCredits(log, n, t) == [log EXCEPT !.spent[t] = @ + n]

\* MUTANT: a refund does not reach the ledger.
releaseCredits_Lost(log, n, t) == log

\* Never more than the ledger still holds.
releaseCredits(log, n, t) ==
    [log EXCEPT !.back[t] = @ + Least(n, outstandingCredits(log))]

----------------------------------------------------------------------------
\* MUTANT: the daily pool is read, the minute's is forgotten.
twelveDataAvailable_DayOnly(log, frozenUntil, t) ==
    IF frozenUntil > t THEN 0 ELSE AtLeastZero(TdDayCap - AtLeastZero(creditsSpentToday(log, t)))

twelveDataAvailable(log, frozenUntil, t) ==
    IF frozenUntil > t THEN 0
    ELSE Least(AtLeastZero(TdCap - AtLeastZero(creditsSpentWithin(log, t))),
               AtLeastZero(TdDayCap - AtLeastZero(creditsSpentToday(log, t))))

\* Budget.remaining() with the caps lowered by what the caller must not touch;
\* a frozen Tiingo reads as spent.
tiingoRemaining(log, frozenUntil, t, reserve) ==
    IF frozenUntil > t THEN 0
    ELSE AtLeastZero(Least(
            AtLeastZero(TiCap - reserve) - AtLeastZero(creditsSpentThisHour(log, t)),
            AtLeastZero(TiDayCap - reserve) - AtLeastZero(creditsSpentToday(log, t))))

\* What a reservation of either provider may grant at t.
available(provider, log, frozenUntil, t) ==
    IF provider = "twelvedata" THEN twelveDataAvailable(log, frozenUntil, t)
                               ELSE tiingoRemaining(log, frozenUntil, t, 0)

\* MUTANT: the first entry to leave is waited for, whatever stays.
twelveDataMinuteReadyDelay_First(log, t) ==
    LET ends == {u \in (t + 1) .. (t + Minute) :
                    /\ u - Minute \in Time
                    /\ log.spent[u - Minute] + log.back[u - Minute] > 0}
    IN IF creditsSpentWithin(log, t) <= 0 \/ ends = {} THEN 0
       ELSE (CHOOSE u \in ends : \A w \in ends : u <= w) - t

\* How long until the minute's whole pool is spendable: the first instant an
\* entry leaves the window and nothing is left in it.
twelveDataMinuteReadyDelay(log, t) ==
    LET ends == {u \in (t + 1) .. (t + Minute) :
                    /\ u - Minute \in Time
                    /\ log.spent[u - Minute] + log.back[u - Minute] > 0
                    /\ creditsSpentWithin(log, u) <= 0}
    IN IF creditsSpentWithin(log, t) <= 0 \/ ends = {} THEN 0
       ELSE (CHOOSE u \in ends : \A w \in ends : u <= w) - t

----------------------------------------------------------------------------
\* The breaker of a provider: until when it is frozen, and Twelve Data's strikes.
Breaker == [frozenUntil : Nat, streak : {0, 1}]

\* One minute, two on a second strike, which also starts the count over.
recordTwelveData429(b, t) ==
    IF b.streak = 1 THEN [frozenUntil |-> t + 2 * Minute, streak |-> 0]
                    ELSE [frozenUntil |-> t + Minute, streak |-> 1]

\* Until the next full hour.
recordTiingo429(b, t) == [b EXCEPT !.frozenUntil = startOfHour(t) + Hour]

record429(provider, b, t) ==
    IF provider = "twelvedata" THEN recordTwelveData429(b, t) ELSE recordTiingo429(b, t)
=============================================================================
