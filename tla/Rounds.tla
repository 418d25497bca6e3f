------------------------------- MODULE Rounds -------------------------------
(***************************************************************************)
(* The companion's refresh loop (web/src/app.ts): one round at a time,     *)
(* started by the timer, by a login, by a wake of the page, by a tap or    *)
(* from the settings; aborted when the page is hidden or locked; and the   *)
(* queue of what it could not pay for, which outlives the page.            *)
(*                                                                         *)
(* The counters sessionId and refreshGeneration only grow and are only     *)
(* compared for equality: kept is whether a round's copy still matches     *)
(* (same, own).  Stamps are kept as ages, up to the age that matters.      *)
(* Awaits of the device's own storage end at once; an await of the network *)
(* is a step of its own.  A lock is by hand or by the idle timer.          *)
(***************************************************************************)
EXTENDS DeferredQueue, Integers

CONSTANTS
    RoundIds,   \* bound: rounds whose awaits are pending at the same time
    Symbols,    \* what is held
    Interval,   \* updateMinutes, also the age at which a round is stale
    MaxDelay,   \* bound: the longest delay a back-off asks for
    WakeWindow, \* DEFAULT_WAKE_COALESCE_MS
    Cooldown    \* MANUAL_REFRESH_COOLDOWN_MS

ASSUME RoundsAssumption ==
    /\ Interval \in Nat \ {0} /\ MaxDelay \in Nat /\ MaxDelay >= Interval
    /\ WakeWindow \in Nat /\ Cooldown \in Nat
    /\ IsFiniteSet(Symbols)

Off == -1
Kinds == {"start", "auto", "manual", "reset"}
Await == {"idle", "warm", "prime", "prices"}
Round == [at : Await, own : BOOLEAN, same : BOOLEAN, late : BOOLEAN, force : BOOLEAN]
Idle == [at |-> "idle", own |-> FALSE, same |-> FALSE, late |-> FALSE, force |-> FALSE]

VARIABLES
    unlocked,   \* state.passphrase and state.data are set, the listeners installed
    shown,      \* not document.hidden
    online,     \* navigator.onLine
    open,       \* isUsMarketOpen()
    held,       \* symbols whose settled close the quote cache holds
    planned,    \* the symbol plan is stored
    prefetch,   \* prefetchPromise: none, running or settled
    timer,      \* refreshTimer: what is left of its delay, or Off
    refreshing, \* refreshing and refreshingKind
    started,    \* how long ago refreshStartedAt was, and the stored stamp of it, or Off
    rounds,     \* calls of runScheduledRefresh past the claim
    promote,    \* promoteToManual
    tapAge,     \* age of lastManualAt
    wakeAge,    \* age of lastAutoWakeAt
    queue,      \* deferredQueue
    stored,     \* its copy in localStorage
    letGo       \* history: since anything was last armed, the loop was let go: "no",
                \* "failed" (the error screen) or "lost" (a wake or a login relied on
                \* a refresh that will not go on)

page == <<unlocked, shown, online, open>>
book == <<held, planned>>
owner == <<refreshing, started, rounds>>
taps == <<promote, tapAge>>
work == <<queue, stored>>
vars == <<page, book, prefetch, timer, owner, taps, wakeAge, work, letGo>>

Init ==
    /\ unlocked = FALSE /\ shown = TRUE /\ online = TRUE
    /\ open \in BOOLEAN
    /\ held = {} /\ planned = FALSE
    /\ prefetch = "none"
    /\ timer = Off
    /\ refreshing = "none" /\ started = Off
    /\ rounds = [r \in RoundIds |-> Idle]
    /\ promote = FALSE /\ tapAge = Cooldown
    /\ wakeAge = WakeWindow
    /\ queue = <<>> /\ stored = <<>>
    /\ letGo = "no"

\* The market is shut and every symbol of the plan has its settled close.
fullyUpToDate == ~open /\ (planned => held = Symbols)

----------------------------------------------------------------------------
\* MUTANT: an abort leaves the generation as it was.
Abandoned_Owning(rs) == rs

\* refreshGeneration++: no round in flight is the owner any more.
Abandoned(rs) == [r \in RoundIds |-> [rs[r] EXCEPT !.own = FALSE]]

\* The same with rs for the rounds, here and below: a new session has begun.
Foreign(rs) == [r \in RoundIds |-> [rs[r] EXCEPT !.same = FALSE]]

abortInFlightRound(rs) ==
    IF refreshing = "none"
    THEN rounds' = rs /\ UNCHANGED <<refreshing, started>>
    ELSE /\ refreshing' = "none" /\ started' = Off
         /\ rounds' = Abandoned(rs)

scheduleNext(d) == timer' = d /\ letGo' = "no"
clearRefreshTimer == timer' = Off /\ UNCHANGED letGo

\* MUTANT: the drained queue is not stored.
drainDeferredQueue_Unsaved(q) ==
    \E fresh \in SUBSET Symbols : queue' = drained(q, fresh) /\ UNCHANGED stored

\* Whichever parked symbols other pulls have priced are satisfied.
drainDeferredQueue(q) ==
    \E fresh \in SUBSET Symbols : queue' = drained(q, fresh) /\ stored' = queue'

\* MUTANT: a tick that finds nothing to do is the last one.
Rest_Silent(rs) == abortInFlightRound(rs) /\ timer' = Off /\ UNCHANGED letGo

\* Nothing to fetch, or no network: another look in one interval.
Rest(rs) == abortInFlightRound(rs) /\ scheduleNext(Interval)

\* Claim the round; a kickoff lets the login warm-up end first, any other round
\* drains the queue at once.
Claim(rs, kind, force, kickoff) ==
    \E r \in RoundIds :
       /\ rounds[r] = Idle
       /\ refreshing' = kind /\ started' = 0
       /\ LET warm == kickoff /\ prefetch # "none"
          IN /\ rounds' = [Abandoned(rs) EXCEPT ![r] =
                             [at |-> IF warm THEN "warm" ELSE "prime", own |-> TRUE,
                              same |-> TRUE, late |-> FALSE, force |-> force]]
             /\ IF warm THEN UNCHANGED work ELSE drainDeferredQueue(queue)
       /\ promote' = (promote /\ kind # "manual")
       /\ letGo' = "no"

\* A round in flight is left alone: it arms the next one, if its session is this one.
Working == \E r \in RoundIds : rounds[r].own /\ rounds[r].same
Yield(left) ==
    /\ timer' = left
    /\ letGo' = IF left = Off /\ ~Working THEN "lost" ELSE letGo
    /\ UNCHANGED <<owner, promote, work, planned>>

\* runScheduledRefresh up to its first await; the timer is left as it is unless
\* something arms it.  A round in flight is left alone until it is stale.  (online'
\* is what an online event has just made of it.)
runScheduledRefresh(kind, force, kickoff, left) ==
    IF refreshing # "none" /\ started < Interval
    THEN Yield(left)
    ELSE IF kind \in {"auto", "start"} /\ fullyUpToDate /\ ~hasForced(queue)
    THEN Rest(rounds) /\ UNCHANGED <<promote, work, planned>>
    ELSE IF ~online'
    THEN Rest(rounds) /\ planned' = TRUE /\ UNCHANGED <<promote, work>>
    ELSE timer' = left /\ Claim(rounds, kind, force, kickoff) /\ UNCHANGED planned

----------------------------------------------------------------------------
\* The timer: a hidden page puts the tick off, it does not lose it.
Tick ==
    /\ timer = 0
    /\ UNCHANGED page
    /\ IF shown
       THEN runScheduledRefresh("auto", FALSE, FALSE, Off)
       ELSE scheduleNext(Interval) /\ UNCHANGED <<owner, promote, work, planned>>
    /\ UNCHANGED <<held, prefetch, tapAge, wakeAge>>

\* A round that a later one, an abort or a new session took the state from goes away;
\* the flags go down if they are still its own, and nothing is armed.
Superseded(r) == ~rounds[r].own \/ ~rounds[r].same
releaseIfOwned(r) ==
    IF rounds[r].own THEN refreshing' = "none" /\ started' = Off ELSE UNCHANGED <<refreshing, started>>

RoundLeaves(r) ==
    /\ rounds[r].at \in {"warm", "prime"}
    /\ rounds[r].at = "warm" /\ rounds[r].same => prefetch # "running"
    /\ Superseded(r)
    /\ rounds' = [rounds EXCEPT ![r] = Idle]
    /\ releaseIfOwned(r)
    /\ UNCHANGED <<page, book, prefetch, timer, taps, wakeAge, work, letGo>>

\* The warm-up ended; symbols it booked in the wrong currency are parked.
RoundWarmed(r) ==
    /\ rounds[r].at = "warm" /\ prefetch # "running" /\ ~Superseded(r)
    /\ rounds' = [rounds EXCEPT ![r].at = "prime"]
    /\ \E mismatch \in SUBSET Symbols : drainDeferredQueue(enqueue(queue, SetToSeq(mismatch), FALSE))
    /\ UNCHANGED <<page, book, prefetch, timer, refreshing, started, taps, wakeAge, letGo>>

\* The graph bars are primed; refreshPrices starts and stores the symbol plan.
RoundPrimed(r) ==
    /\ rounds[r].at = "prime" /\ ~Superseded(r)
    /\ rounds' = [rounds EXCEPT ![r].at = "prices"]
    /\ planned' = TRUE
    /\ UNCHANGED <<page, held, prefetch, timer, refreshing, started, taps, wakeAge, work, letGo>>

\* refreshPrices looks at the session alone: the pull of an abandoned round still
\* lands in the cache and on the screen, but decides nothing any more.
AbandonedLands(r) ==
    /\ rounds[r].at = "prices" /\ Superseded(r)
    /\ \E fetched \in SUBSET Symbols : held' = IF open THEN held ELSE held \cup fetched
    /\ rounds' = [q \in RoundIds |->
                    IF q = r THEN Idle
                    ELSE IF rounds[q] = Idle \/ ~rounds[r].same THEN rounds[q]
                    ELSE [rounds[q] EXCEPT !.late = TRUE]]
    /\ releaseIfOwned(r)
    /\ promote' = (promote /\ ~rounds[r].own)
    /\ UNCHANGED <<page, planned, prefetch, timer, tapAge, wakeAge, work, letGo>>

\* The round completes: the flags go down, what it fetched leaves the queue, what
\* it could not pay for joins it, and the next round is armed: soon while symbols
\* are missing, never before a full interval when a tap took the round over.
RoundLands(r) ==
    /\ rounds[r].at = "prices" /\ ~Superseded(r)
    /\ \E fetched, deferred \in SUBSET Symbols :
          /\ fetched \cap deferred = {}
          /\ held' = IF open THEN held ELSE held \cup fetched
          /\ queue' = enqueue(clear(queue, fetched), SetToSeq(deferred), rounds[r].force)
          /\ stored' = queue'
    /\ rounds' = [q \in RoundIds |->
                    IF q = r THEN Idle
                    ELSE IF rounds[q] = Idle THEN Idle ELSE [rounds[q] EXCEPT !.late = TRUE]]
    /\ refreshing' = "none" /\ started' = Off
    /\ \E d \in 1 .. MaxDelay : (promote => d >= Interval) /\ scheduleNext(d)
    /\ promote' = FALSE
    /\ UNCHANGED <<page, planned, prefetch, tapAge, wakeAge>>

\* The key was rejected: the error screen, and no next round until the user or a wake
\* asks for one.
RoundFails(r) ==
    /\ rounds[r].at = "prices" /\ ~Superseded(r)
    /\ \E fetched \in SUBSET Symbols : held' = IF open THEN held ELSE held \cup fetched
    /\ rounds' = [rounds EXCEPT ![r] = Idle]
    /\ refreshing' = "none" /\ started' = Off
    /\ promote' = FALSE
    /\ letGo' = IF timer = Off THEN "failed" ELSE letGo
    /\ UNCHANGED <<page, planned, prefetch, timer, tapAge, wakeAge, work>>

----------------------------------------------------------------------------
Hide ==
    /\ shown /\ shown' = FALSE
    /\ IF unlocked THEN abortInFlightRound(rounds) /\ clearRefreshTimer
                   ELSE UNCHANGED <<owner, timer, letGo>>
    /\ UNCHANGED <<unlocked, online, open, book, prefetch, taps, wakeAge, work>>

\* One refresh for all the events a return to the page fires.
wakeRefresh ==
    IF wakeAge < WakeWindow
    THEN /\ letGo' = IF timer = Off /\ ~Working THEN "lost" ELSE letGo
         /\ UNCHANGED <<wakeAge, timer, owner, promote, work, planned>>
    ELSE wakeAge' = 0 /\ runScheduledRefresh("auto", FALSE, FALSE, timer)

\* visibilitychange, pageshow or online, on a page that is then visible.
Wake ==
    /\ unlocked
    /\ \/ shown' = TRUE /\ UNCHANGED online
       \/ shown /\ ~online /\ online' = TRUE /\ UNCHANGED shown
    /\ wakeRefresh
    /\ UNCHANGED <<unlocked, open, held, prefetch, tapAge>>

\* The network goes, or comes back with nobody to tell; the unlock screen is shown;
\* the market opens, or shuts and has a new close for every symbol.
Environment ==
    /\ \/ online /\ online' = FALSE /\ UNCHANGED <<shown, open, held>>
       \/ ~online /\ online' = TRUE /\ ~(unlocked /\ shown) /\ UNCHANGED <<shown, open, held>>
       \/ ~unlocked /\ ~shown /\ shown' = TRUE /\ UNCHANGED <<online, open, held>>
       \/ open /\ open' = FALSE /\ held' = {} /\ UNCHANGED <<shown, online>>
       \/ ~open /\ open' = TRUE /\ UNCHANGED <<shown, online, held>>
    /\ UNCHANGED <<unlocked, planned, prefetch, timer, owner, taps, wakeAge, work, letGo>>

\* The unlock screen starts the login warm-up, unless one ran a moment ago.
startPrefetch ==
    /\ ~unlocked /\ prefetch = "none" /\ prefetch' = "running"
    /\ UNCHANGED <<page, book, timer, owner, taps, wakeAge, work, letGo>>

PrefetchEnds ==
    /\ prefetch = "running" /\ prefetch' = "settled"
    /\ UNCHANGED <<page, book, timer, owner, taps, wakeAge, work, letGo>>

\* A login paints from the cache and kicks the first round off; a stale book is
\* forced, one that is up to date rests.  A timer of an earlier session only stops
\* when it fires: it is as good as off.
afterUnlock(rs) ==
    LET current == ~open /\ held = Symbols
    IN /\ planned' = TRUE
       /\ \E quick \in BOOLEAN :
             IF ~quick /\ current
             THEN scheduleNext(Interval) /\ rounds' = rs /\ UNCHANGED <<refreshing, started, promote, work>>
             ELSE IF refreshing # "none" /\ started < Interval
             THEN timer' = Off /\ letGo' = "lost" /\ rounds' = rs /\ UNCHANGED <<refreshing, started, promote, work>>
             ELSE IF (current /\ ~hasForced(queue)) \/ ~online
             THEN Rest(rs) /\ UNCHANGED <<promote, work>>
             ELSE timer' = Off /\ Claim(rs, "start", quick, TRUE)

Unlock ==
    /\ ~unlocked /\ unlocked' = TRUE
    /\ afterUnlock(rounds)
    /\ UNCHANGED <<shown, online, open, held, prefetch, tapAge, wakeAge>>

\* Saving the settings logs in again beside whatever round is in flight.
SaveSettings ==
    /\ unlocked /\ shown
    /\ afterUnlock(Foreign(rounds))
    /\ UNCHANGED <<page, held, prefetch, tapAge, wakeAge>>

lock ==
    /\ unlocked /\ unlocked' = FALSE
    /\ refreshing' = "none" /\ started' = (IF refreshing = "none" THEN started ELSE Off)
    /\ rounds' = Foreign(Abandoned(rounds))
    /\ queue' = <<>> /\ stored' = <<>>
    /\ timer' = Off /\ letGo' = "no"
    /\ promote' = FALSE
    /\ prefetch' = "none"
    /\ UNCHANGED <<shown, online, open, book, tapAge, wakeAge>>

\* A tap of the Refresh button: within the cooldown or during a manual round it is
\* only acknowledged, an automatic round is taken over, otherwise it is a round.
manualRefresh ==
    /\ unlocked /\ shown
    /\ UNCHANGED page
    /\ refreshing # "manual" /\ tapAge >= Cooldown
    /\ tapAge' = 0
    /\ IF refreshing = "auto"
       THEN promote' = TRUE /\ UNCHANGED <<timer, owner, work, letGo, planned>>
       ELSE \E force \in BOOLEAN : runScheduledRefresh("manual", force /\ online, FALSE, timer)
    /\ UNCHANGED <<held, prefetch, wakeAge>>

\* From the settings, every one of which yields to a round in flight: a forced pull
\* or one through the backup.
SettingsPull ==
    /\ unlocked /\ shown /\ refreshing = "none"
    /\ UNCHANGED page
    /\ \E force \in BOOLEAN : runScheduledRefresh("manual", force, FALSE, timer)
    /\ UNCHANGED <<held, prefetch, tapAge, wakeAge>>

\* "Update all data now": the caches and the plan are wiped first, and the pull
\* that is to fill them again yields to a round in flight as well.
updateAllFromScratch ==
    /\ unlocked /\ shown
    /\ held' = {}
    /\ IF refreshing # "none"
       THEN planned' = FALSE /\ UNCHANGED <<timer, owner, promote, work, letGo>>
       ELSE IF ~online
       THEN Rest(rounds) /\ planned' = TRUE /\ UNCHANGED <<promote, work>>
       ELSE planned' = FALSE /\ timer' = timer /\ Claim(rounds, "reset", TRUE, FALSE)
    /\ UNCHANGED <<page, prefetch, tapAge, wakeAge>>

\* A currency toggle or a newer export paints from the cache.
Repaint ==
    /\ unlocked /\ ~planned /\ planned' = TRUE
    /\ UNCHANGED <<page, held, prefetch, timer, owner, taps, wakeAge, work, letGo>>

\* The page is reloaded, or the browser ends it: the memory is lost.  A round that
\* had been in flight for an interval takes the stored queue with it.
Reload ==
    /\ unlocked' = FALSE /\ shown' = TRUE
    /\ rounds' = [r \in RoundIds |-> Idle]
    /\ refreshing' = "none"
    /\ LET stale == started >= Interval
       IN /\ stored' = IF stale THEN <<>> ELSE stored
          /\ queue' = restore(<<>>, stored')
          /\ started' = IF stale THEN Off ELSE started
    /\ timer' = Off /\ letGo' = "no"
    /\ promote' = FALSE /\ tapAge' = Cooldown /\ wakeAge' = WakeWindow
    /\ prefetch' = "none"
    /\ UNCHANGED <<online, open, book>>

Older(a, cap) == IF a = Off \/ a >= cap THEN a ELSE a + 1

\* A visible page fires a timer that is due before time goes on; a hidden one may sleep.
PassTime ==
    /\ shown => timer # 0
    /\ timer' = IF timer > 0 THEN timer - 1 ELSE timer
    /\ started' = Older(started, Interval)
    /\ tapAge' = Older(tapAge, Cooldown) /\ wakeAge' = Older(wakeAge, WakeWindow)
    /\ UNCHANGED <<page, book, prefetch, refreshing, rounds, promote, work, letGo>>

RoundStep(r) == RoundLeaves(r) \/ RoundWarmed(r) \/ RoundPrimed(r) \/ AbandonedLands(r) \/ RoundLands(r) \/ RoundFails(r)

Next ==
    \/ Tick \/ Hide \/ Wake \/ Environment \/ startPrefetch \/ PrefetchEnds
    \/ Unlock \/ SaveSettings \/ lock \/ manualRefresh \/ SettingsPull \/ updateAllFromScratch
    \/ Repaint \/ Reload \/ PassTime
    \/ \E r \in RoundIds : RoundStep(r)

Spec == Init /\ [][Next]_vars

----------------------------------------------------------------------------
Entry == [symbol : Symbols, attempts : 0 .. MaxAttempts, force : BOOLEAN]

\* Every variable has its type; the queue is bounded and holds a symbol once.
TypeOK ==
    /\ page \in BOOLEAN \X BOOLEAN \X BOOLEAN \X BOOLEAN
    /\ held \subseteq Symbols /\ planned \in BOOLEAN
    /\ prefetch \in {"none", "running", "settled"}
    /\ timer \in Off .. MaxDelay
    /\ refreshing \in Kinds \cup {"none"}
    /\ started \in Off .. Interval
    /\ rounds \in [RoundIds -> Round]
    /\ promote \in BOOLEAN /\ tapAge \in 0 .. Cooldown /\ wakeAge \in 0 .. WakeWindow
    /\ letGo \in {"no", "failed", "lost"}
    /\ Len(queue) <= QueueMax
    /\ \A i, j \in DOMAIN queue : queue[i] \in Entry /\ (queue[i].symbol = queue[j].symbol => i = j)

\* The refresh flags belong to exactly one round in flight, which takes them down when it
\* ends: no round is ever locked out by flags nobody will take down (app.ts releaseIfOwned).
OneOwner ==
    /\ refreshing # "none" <=> \E r \in RoundIds : rounds[r].own
    /\ \A r, q \in RoundIds : rounds[r].own /\ rounds[q].own => r = q
    /\ \A r \in RoundIds : rounds[r].own => rounds[r].at # "idle"

\* On a visible, unlocked page a round of its session is in flight or the next one is armed,
\* unless the loop was let go: on the error screen, or by a wake or a login that left the
\* refresh to a round that will not arm the next one (app.ts refreshTickAction).
LoopHeld == unlocked /\ shown => timer # Off \/ Working \/ letGo # "no"

\* The same with the error screen for the only exception: a login "always run[s] this first
\* live refresh" and "arms the auto-refresh loop via the scheduleNext at the end of the round"
\* (app.ts 4194-4199).  TLC refutes it: settings are saved beside a round in flight.
LoopArmed == unlocked /\ shown => timer # Off \/ refreshing # "none" \/ letGo = "failed"

\* The stored queue is the live one: a reload forgets nothing (app.ts persistDeferredQueue).
QueueSaved == stored = queue

\* While the session lasts, a symbol the user asked to pull again leaves the queue only
\* with a round that completes, or when its attempts ran out (deferred-queue.ts drain).
Completes == \E r \in RoundIds : rounds[r].at = "prices" /\ rounds[r].own /\ rounds'[r] = Idle
DeferralKept ==
    [][unlocked /\ unlocked' /\ ~Completes =>
         \A i \in DOMAIN queue :
            queue[i].force => \/ queue[i].symbol \in Parked(queue')
                              \/ queue[i].attempts = MaxAttempts]_vars

\* "Whether the whole book is genuinely current and there is nothing to fetch"
\* (app.ts 6236): between rounds the loop rests only on a book it holds.  TLC refutes it:
\* a reset empties the book and the round that was to fill it is aborted.
RestEarned == unlocked /\ refreshing = "none" /\ fullyUpToDate => held = Symbols

\* "Bails instead of clobbering the round that took over" (app.ts 6455-6458): what an
\* abandoned round pulled is not painted over what a later one painted.  TLC refutes it.
PaintForward ==
    [][\A r \in RoundIds : rounds[r].at = "prices" /\ rounds'[r] = Idle /\ rounds[r].same /\ unlocked'
          => ~(rounds[r].late /\ ~rounds[r].own)]_vars
=============================================================================
