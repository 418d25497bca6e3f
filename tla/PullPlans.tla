----------------------------- MODULE PullPlans -----------------------------
(***************************************************************************)
(* What a pull of the companion fetches: the grading of the data's age     *)
(* (web/src/freshness.ts), the orchestrator's plan of legs                 *)
(* (data-orchestrator.ts), the ages app.ts feeds them, and the delays and  *)
(* scopes between rounds (refresh-policy.ts, refresh-window.ts).           *)
(*                                                                         *)
(* Ages and instants are numbers of one unit; NoAge stands for the source's *)
(* infinite age and None for null.  A round's input is a record            *)
(*   [open, sinceOpen, interval, dataAge, quoteAge, fxAge, missing,        *)
(*    blobDays, navHeld, anchorMissing, barAge]                            *)
(* where barAge is the time since the last bar pull, or None.              *)
(***************************************************************************)
EXTENDS Integers, FiniteSets, FiniteSetsExt

CONSTANTS
    OneHour,      \* ONE_HOUR_MS
    Warmup,       \* MARKET_WARMUP_MS
    BarStaleness, \* BAR_STALENESS_MS
    FullWeek,     \* FULL_WEEK_SESSIONS
    NoAge         \* older than anything

ASSUME PlansAssumption ==
    /\ OneHour \in Nat \ {0} /\ Warmup \in Nat /\ BarStaleness \in Nat
    /\ FullWeek \in Nat /\ FullWeek > 1 /\ NoAge \in Nat

None == -1

Smaller(a, b) == IF a < b THEN a ELSE b
Larger(a, b) == IF a > b THEN a ELSE b

----------------------------------------------------------------------------
(* The legs of a pull; one session of bars is the day's, more are the week's. *)
Legs == [bars : 0 .. FullWeek, quotes : BOOLEAN, nav : BOOLEAN, fx : BOOLEAN, fxBars : BOOLEAN]
noLegs == [bars |-> 0, quotes |-> FALSE, nav |-> FALSE, fx |-> FALSE, fxBars |-> FALSE]
allLegs == [bars |-> FullWeek, quotes |-> TRUE, nav |-> TRUE, fx |-> TRUE, fxBars |-> TRUE]
hasAnyLeg(l) == l.bars > 0 \/ l.quotes \/ l.nav \/ l.fx \/ l.fxBars

setBarWindow(l, sessions) == [l EXCEPT !.bars = Larger(0, Smaller(sessions, FullWeek))]

barStalenessPromotionDue(i) ==
    IF i.barAge = None THEN i.sinceOpen >= Warmup ELSE i.barAge >= BarStaleness

\* How old the data is, and what that asks for.
gradedPull(i) ==
    LET recent == i.missing <= 1 /\ i.blobDays <= 1
        prices == [noLegs EXCEPT !.quotes = TRUE, !.fx = TRUE]
    IN CASE i.missing > 1 /\ i.blobDays > 1 ->
              [tier |-> "outdated", legs |-> allLegs]
         [] recent /\ i.dataAge > OneHour ->
              [tier |-> "outdated",
               legs |-> setBarWindow([prices EXCEPT !.nav = ~i.open /\ ~i.navHeld],
                                     IF i.open /\ i.sinceOpen < Warmup THEN 0 ELSE 1)]
         [] ~(i.missing > 1 /\ i.blobDays > 1) /\ ~(recent /\ i.dataAge > OneHour)
              /\ i.dataAge > i.interval ->
              [tier |-> "relatively-fresh",
               legs |-> IF i.open THEN prices ELSE [prices EXCEPT !.quotes = FALSE, !.nav = ~i.navHeld]]
         [] OTHER -> [tier |-> "fresh", legs |-> noLegs]

\* What a tap adds: prices while the market trades, the funds while theirs are
\* outstanding, everything when nothing is.
Tapped(l, i) == [l EXCEPT !.quotes = @ \/ i.open \/ i.navHeld, !.nav = @ \/ ~i.open]

\* MUTANT: the day's bars are pulled beside the quotes they price.
Barred_Beside(l, scheduled, i) ==
    IF ~i.open THEN l
    ELSE IF ~barStalenessPromotionDue(i) THEN (IF l.bars = 1 THEN setBarWindow(l, 0) ELSE l)
    ELSE IF ~scheduled THEN l ELSE setBarWindow(l, Larger(1, l.bars))

\* While the market trades a day's bars go stale after half an hour; then a
\* scheduled pull takes them, and they price the symbols too.
Barred(l, scheduled, i) ==
    IF ~i.open THEN l
    ELSE IF ~barStalenessPromotionDue(i) THEN (IF l.bars = 1 THEN setBarWindow(l, 0) ELSE l)
    ELSE IF ~scheduled THEN l
    ELSE [setBarWindow(l, Larger(1, l.bars)) EXCEPT !.quotes = @ /\ l.bars > 1]

\* What is younger than the interval is not pulled again, except by a tap.
Unheld(l, manual, i) ==
    [l EXCEPT !.quotes = @ /\ (manual \/ i.quoteAge >= i.interval),
              !.fx = manual \/ (@ /\ i.fxAge >= i.interval),
              !.fxBars = @ \/ manual \/ i.anchorMissing]

planPull(kind, i) ==
    IF kind = "reset" THEN [tier |-> "outdated", legs |-> allLegs]
    ELSE LET graded == gradedPull(i)
             manual == kind = "manual"
             asked == IF manual THEN Tapped(graded.legs, i) ELSE graded.legs
         IN [graded EXCEPT !.legs = Unheld(Barred(asked, ~manual, i), manual, i)]

\* The week's bars of every stale symbol, or of a few beside another leg.
targetedWeekBackfill(weekLeg, stale, max) ==
    IF weekLeg THEN stale ELSE Smaller(stale, Larger(max, 0))

----------------------------------------------------------------------------
(* The ages app.ts plans with.  A book is a set of entries [market, known, at]: *)
(* priced by the market or once a day, its currency known or not, and when its  *)
(* cached quote was pulled, or None.                                            *)
Stamps(book) == {e.at : e \in book} \ {None}
Oldest(book, now) == IF Stamps(book) = {} THEN NoAge ELSE now - Min(Stamps(book))

deviceDaysMissing(anyMarketMissing, marketStale, dataAge) ==
    IF anyMarketMissing THEN 10
    ELSE IF ~marketStale THEN 0
    ELSE IF dataAge > 26 * OneHour THEN 2 ELSE 1

fxAgeOf(fxAt, now) == IF fxAt = None THEN NoAge ELSE now - fxAt

\* Without the export nothing is due but the rate, whose age is not told.
noFreshness == [quoteAge |-> 0, fxAge |-> NoAge, dataAge |-> 0, missing |-> 0, blobDays |-> 0,
                navHeld |-> TRUE, anchorMissing |-> FALSE]

\* Once it is decrypted the market's quotes set the age, if it has all.
buildPullFreshness(data, book, fxAt, marketStale, navHeld, anchorMissing, now) ==
    IF ~data THEN noFreshness ELSE
    LET market == {e \in book : e.market}
        lacking == \E e \in market : e.at = None /\ e.known
        quoteAge == IF lacking \/ Stamps(market) = {} THEN Oldest(book, now) ELSE Oldest(market, now)
        dataAge == Larger(quoteAge, fxAgeOf(fxAt, now))
        missing == deviceDaysMissing(lacking, marketStale, dataAge)
    IN [quoteAge |-> quoteAge, fxAge |-> fxAgeOf(fxAt, now), dataAge |-> dataAge,
        missing |-> missing, blobDays |-> missing, navHeld |-> navHeld, anchorMissing |-> anchorMissing]

currencyKnown(book) == \A e \in book : e.market => e.known

\* Before it is: nothing is known of the book but the stored plan, so that one
\* missing quote makes all of it old.
buildPrefetchFreshness(book, fxAt, outdated, awaiting, blobAge, anchorMissing, now) ==
    LET lacking == currencyKnown(book) /\ \E e \in book : e.market /\ e.at = None
        quoteAge == IF \E e \in book : e.at = None THEN NoAge ELSE Oldest(book, now)
        dataAge == Larger(quoteAge, fxAgeOf(fxAt, now))
        missing == deviceDaysMissing(lacking, currencyKnown(book) /\ outdated, dataAge)
    IN [quoteAge |-> quoteAge, fxAge |-> fxAgeOf(fxAt, now), dataAge |-> dataAge,
        missing |-> missing, blobDays |-> Larger(blobAge, missing), navHeld |-> ~awaiting,
        anchorMissing |-> anchorMissing]

\* The settled sessions since the export was published, or was stored here.
blobDaysOld(publishedAge, storedAge) ==
    IF publishedAge # None THEN publishedAge ELSE IF storedAge # None THEN storedAge ELSE 10

\* The kind a round plans as.
pullKind(kind, force, forceAll) ==
    IF kind = "reset" \/ forceAll THEN "reset"
    ELSE IF kind = "manual" \/ force THEN "manual"
    ELSE IF kind = "start" THEN "start" ELSE "auto"

----------------------------------------------------------------------------
(* Between rounds. *)
refreshTickAction(sessionMatches, kind, hidden, kickoff) ==
    IF ~sessionMatches THEN "stop"
    ELSE IF kind = "auto" /\ ~kickoff /\ hidden THEN "defer" ELSE "run"

manualRefreshDecision(inFlight, sinceTap, cooldown) ==
    IF inFlight = "manual" \/ sinceTap < cooldown THEN "cooldown"
    ELSE IF inFlight = "auto" THEN "promote" ELSE "run"

classifyRefreshPhase(open, navOutstanding) ==
    IF open THEN "market" ELSE IF navOutstanding THEN "pre-nav" ELSE "settled"

manualFetchScope(phase) == [market |-> phase # "pre-nav", nav |-> phase # "market"]
autoFetchScope(phase) == [market |-> phase = "market", nav |-> phase = "pre-nav"]

\* The book turns stale one interval after its oldest price; None if it is already.
jumpstartDelay(oldestAt, interval, now, floor) ==
    IF oldestAt = None \/ oldestAt + interval <= now THEN None
    ELSE Larger(oldestAt + interval - now, floor)

msUntilOldestFreshExpires(book, fxAt, interval, now, floor) ==
    LET stamps == Stamps({e \in book : e.market}) \cup {fxAt}
    IN IF fxAt = None \/ (\E e \in book : e.market /\ e.at = None) THEN None
       ELSE jumpstartDelay(Min(stamps), interval, now, floor)

prefetchDebounceActive(lastAt, now, interval, floor) ==
    /\ lastAt # None /\ lastAt <= now
    /\ now - lastAt < Larger(floor, (interval + 1) \div 2)

staleRoundAbort(interval, fallback) == IF interval > 0 THEN interval ELSE fallback
roundIsStale(startedAt, now, interval, fallback) ==
    startedAt # None /\ now > startedAt /\ now - startedAt >= staleRoundAbort(interval, fallback)
wakeCoalesceActive(lastAt, now, window) == lastAt # None /\ lastAt <= now /\ now - lastAt < window

\* When the first credit of the last minute comes free; a frozen provider has none.
minuteBudgetRelief(spends, now, window, floor) ==
    LET inWindow == {t \in spends : now - t < window}
    IN IF inWindow = {} THEN None ELSE Larger(Min(inWindow) + window - now, floor)
burstRelief(spends, now, frozen, window, floor) ==
    IF frozen THEN None ELSE minuteBudgetRelief(spends, now, window, floor)

\* Up to eightfold once three quarters of the day's credits are gone; the factor
\* is 1 + 7 * (4 * used / limit - 3), rounded with the base.
dailyBudgetSlowdown(left, limit, base) ==
    IF left = None \/ limit <= 0 THEN base
    ELSE LET used == limit - Smaller(limit, Larger(left, 0))
         IN IF 4 * used <= 3 * limit THEN base
            ELSE LET n == base * (limit + 7 * (4 * used - 3 * limit)) IN (2 * n + limit) \div (2 * limit)

nextRefreshDelay(deferred, left, limit, slow, burst, jitter) ==
    dailyBudgetSlowdown(left, limit, IF deferred > 0 THEN burst ELSE slow) + jitter

\* What is left of the auto-lock's idle time when the page is shown again; None locks.
autoLockReturn(now, lastActivityAt, timeout) ==
    IF timeout <= 0 THEN 0
    ELSE LET elapsed == Larger(0, now - lastActivityAt)
         IN IF elapsed >= timeout THEN None ELSE timeout - elapsed

----------------------------------------------------------------------------
\* What is older than the interval is fetched by the next scheduled pull: prices
\* or the day's bars while the market trades, the funds once it is shut and they
\* are outstanding, the rate at any time (data-orchestrator.ts planPull).
NothingStarves(kind, i) ==
    LET l == planPull(kind, i).legs
    IN i.dataAge > i.interval =>
         /\ i.open /\ i.quoteAge > i.interval => l.quotes \/ l.bars > 0
         /\ ~i.open /\ ~i.navHeld => l.nav
         /\ i.fxAge > i.interval => l.fx

\* And no scheduled pull spends credits twice on one price or on one it has:
\* quotes that are young, a rate that is young, or quotes beside the day's bars.
NothingTwice(kind, i) ==
    LET l == planPull(kind, i).legs
    IN kind \in {"auto", "start"} =>
         /\ i.quoteAge < i.interval => ~l.quotes
         /\ i.fxAge < i.interval => ~l.fx
         /\ i.open /\ barStalenessPromotionDue(i) => ~(l.quotes /\ l.bars = 1)

\* A round that is brought forward finds what it came for: a credit that was not free
\* before, or a price that has expired; one that is put off for want of credits comes
\* within eight times its interval, and earlier the more credits are left; and a warm-up
\* that is skipped leaves prices young enough to bring the next round forward
\* (refresh-policy.ts minuteBudgetReliefMs, jumpstartDelayMs, dailyBudgetSlowdown,
\* prefetchDebounceActive).
DelaysSound(d) ==
    LET relief == minuteBudgetRelief(d.spends, d.now, d.window, d.floor)
        InWindow(t) == {s \in d.spends : t - s < d.window}
        jump == jumpstartDelay(d.at, d.interval, d.now, d.floor)
        wait(left) == nextRefreshDelay(0, left, d.limit, d.interval, d.interval, 0)
    IN /\ relief # None => /\ InWindow(d.now + relief) # InWindow(d.now)
                           /\ relief > d.floor => InWindow(d.now + relief - 1) = InWindow(d.now)
       /\ jump # None => d.at + d.interval <= d.now + jump
       /\ wait(d.left + 1) <= wait(d.left) /\ wait(d.left) \in d.interval .. 8 * d.interval
       /\ d.interval >= d.floor /\ prefetchDebounceActive(d.at, d.now, d.interval, d.floor) => jump # None
=============================================================================
