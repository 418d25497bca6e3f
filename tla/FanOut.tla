------------------------------- MODULE FanOut -------------------------------
(***************************************************************************)
(* Which provider prices which symbol (web/src/provider-fanout.ts,         *)
(* tiingo-gate.ts, the planners of tiingo-fallback.ts and the holdings'    *)
(* waiting times of holding-status.ts), as pure operators over sequences   *)
(* of symbols in the order they are to be priced.                          *)
(***************************************************************************)
EXTENDS Integers, SequencesExt

CONSTANTS
    Batch,      \* TWELVE_DATA_BATCH, also FREE_TIER.creditsPerMinute
    Reserve,    \* TIINGO_RESERVE_CREDITS
    LoginReserve, \* STARTUP_TIINGO_RESERVE
    ProbesADay, \* NAV_MAX_PROBES_PER_DAY
    ProbeCooldown,   \* NAV_PROBE_COOLDOWN_MS
    PeerGrace,  \* NAV_PEER_GRACE_MS
    FirstProbe, \* NAV_FIRST_PROBE_FLOOR_MIN
    ProbeGrace  \* NAV_PROBE_GRACE_MS

ASSUME FanOutAssumption ==
    /\ Batch \in Nat \ {0} /\ Reserve \in Nat /\ LoginReserve \in Nat /\ ProbesADay \in Nat
    /\ FirstProbe \in Nat /\ ProbeGrace \in Nat

Null == -1
Lower(a, b) == IF a < b THEN a ELSE b
Positive(n) == IF n > 0 THEN n ELSE 0
Without(s, T) == SelectSeq(s, LAMBDA x : x \notin T)
Only(s, T) == SelectSeq(s, LAMBDA x : x \in T)
First(s, n) == SubSeq(s, 1, Lower(Len(s), Positive(n)))
After(s, n) == SubSeq(s, Lower(Len(s), Positive(n)) + 1, Len(s))

\* Only a login may touch the reserve of the backup.
backupUsable(priority, tiingo) == IF priority THEN Positive(tiingo) ELSE Positive(tiingo - Reserve)

isPriorityPull(kind) == kind = "start"

\* The market's symbols before the funds: one request of Twelve Data leads, the
\* backup takes the rest of a sleeve too long for the next minute, what is left waits.
planFanout(kind, market, funds, twelveData, tiingo, hasBackup, threshold) ==
    LET sleeve == market \o funds
        lead == Lower(Batch, Positive(twelveData))
        spills == hasBackup /\ (isPriorityPull(kind) \/ Len(sleeve) > threshold)
        second == IF spills THEN backupUsable(isPriorityPull(kind), tiingo) ELSE 0
        taken == First(After(sleeve, lead), second)
    IN [twelveData |-> First(sleeve, lead), tiingo |-> taken,
        deferred |-> After(After(sleeve, lead), second), fannedOut |-> taken # <<>>]

\* Whether a deferred symbol is worth a credit of the backup.
efficiencySpillEligible(symbol, requested, deferred, threshold, tiingo, priority) ==
    /\ priority \/ requested > threshold
    /\ symbol \in deferred
    /\ tiingo # Null => tiingo - (IF priority THEN 0 ELSE Reserve) >= 1

\* A symbol the primary failed on, or has an older close of, if there is a newer one.
marketSymbolEligible(held, expected) == held = Null \/ held < expected

\* The backup answered lately that it has nothing newer than this close.
suppressedByNoNewer(stamp, expected, now, cooldown) ==
    stamp # Null /\ stamp.expected = expected /\ now - stamp.at < cooldown

planTwelveDataSafetyNet(via, unfilled, filled) == IF via THEN Without(unfilled, filled) ELSE <<>>

----------------------------------------------------------------------------
selectWithinBudget(symbols, room) == First(symbols, room)
firstProbe(habit) == (IF habit = Null THEN FirstProbe ELSE IF habit > FirstProbe THEN habit ELSE FirstProbe)
                      + ProbeGrace

Wait == [action |-> "wait", symbols |-> <<>>]

\* Once one fund of the day is out, the others follow within a grace.
decideNavPeer(missing, publishedAt, now, room) ==
    IF (publishedAt # Null /\ now - publishedAt < PeerGrace) \/ room <= 0 THEN Wait
    ELSE [action |-> "fetch_laggards", symbols |-> selectWithinBudget(missing, room)]

\* Before that one fund is asked now and then whether the day's are out.
decideNavCanary(pick, habit, lastAt, count, now) ==
    IF \/ now < firstProbe(habit)
       \/ count >= ProbesADay
       \/ lastAt # Null /\ now - lastAt < ProbeCooldown
       \/ pick = Null
    THEN Wait ELSE [action |-> "canary", symbols |-> <<pick>>]

decideNav(missing, published, publishedAt, pick, habit, lastAt, count, now, room) ==
    IF missing = <<>> \/ room <= 0 THEN Wait
    ELSE IF published THEN decideNavPeer(missing, publishedAt, now, room)
    ELSE decideNavCanary(pick, habit, lastAt, count, now)

----------------------------------------------------------------------------
\* A quick pull through the backup, an hour after the last one at the earliest.
shouldQuickRefresh(now, open, lastAt, freshestAt, holdsClose, manual, hour) ==
    /\ manual \/ lastAt = Null \/ now - lastAt >= hour
    /\ IF open THEN freshestAt = Null \/ now - freshestAt > hour
       ELSE ~holdsClose /\ (manual \/ freshestAt = Null \/ now - freshestAt >= hour)

\* A login whose outdated symbols exceed one minute of Twelve Data splits them.
planStartupRefresh(outdated, tiingo, hasBackup) ==
    IF hasBackup /\ outdated > Batch /\ tiingo > LoginReserve
    THEN [route |-> "split", tiingoBudget |-> Lower(tiingo - LoginReserve, outdated - Batch)]
    ELSE [route |-> "twelve", tiingoBudget |-> 0]

\* What the login warm-up pulls: not what the graphs' bars will price anyway.
planPrefetch(open, market, outdated, awaiting, hasBackup, sessionStale, weekStale) ==
    LET graph == IF hasBackup THEN sessionStale \cup weekStale ELSE {}
        quotes == Without(IF open THEN market ELSE outdated, graph)
    IN [symbols |-> quotes,
        route |-> IF ~open /\ hasBackup /\ Len(quotes) > Batch THEN "tiingo" ELSE "twelve",
        navSymbols |-> IF open THEN <<>> ELSE awaiting,
        graph |-> graph]

\* When each waiting symbol gets its turn, some to a round.
computeQueueEtas(deferred, perRound, anchor, every) ==
    LET capacity == IF perRound > 1 THEN perRound ELSE 1
    IN [i \in DOMAIN deferred |-> anchor + ((i - 1) \div capacity + 1) * every]

\* A holding on its way shows that; one just updated flashes; others show a stamp.
resolveHoldingStatus(phase, readyAt, updatedAt, now, flash) ==
    CASE phase = "queued" -> [kind |-> "queued", countdown |-> IF readyAt # Null /\ readyAt > now
                                                               THEN readyAt - now ELSE Null]
      [] phase = "updating" -> [kind |-> "updating", countdown |-> Null]
      [] phase = "none" /\ updatedAt # Null /\ updatedAt <= now /\ now - updatedAt < flash ->
            [kind |-> "updated", countdown |-> Null]
      [] OTHER -> [kind |-> "idle", countdown |-> Null]

----------------------------------------------------------------------------
\* Every symbol of the sleeve has one place, in the sleeve's order; nobody is sent
\* where there is no credit; the reserve outlives all but a login; and nobody waits
\* while Twelve Data's request has room (provider-fanout.ts planFanout).
FanoutSound(kind, market, funds, twelveData, tiingo, hasBackup, threshold) ==
    LET p == planFanout(kind, market, funds, twelveData, tiingo, hasBackup, threshold)
    IN /\ p.twelveData \o p.tiingo \o p.deferred = market \o funds
       /\ Len(p.twelveData) <= Positive(twelveData) /\ Len(p.tiingo) <= Positive(tiingo)
       /\ p.fannedOut /\ kind # "start" => tiingo - Len(p.tiingo) >= Reserve
       /\ p.tiingo \o p.deferred # <<>> => Len(p.twelveData) = Lower(Batch, Positive(twelveData))

\* The two planners of a login agree with the fan-out on what the backup is for:
\* it never takes what one request of Twelve Data could, nor the last credits.
StartupSound(outdated, tiingo, hasBackup) ==
    LET p == planStartupRefresh(outdated, tiingo, hasBackup)
    IN p.tiingoBudget > 0 => /\ p.tiingoBudget + Batch <= outdated
                             /\ tiingo - p.tiingoBudget >= LoginReserve

\* The chase after the funds asks for no more than the room it has, for nothing that is
\* in, and for one fund until a first one is out; and no more symbols are promised to a
\* round than it can price (tiingo-gate.ts decideNav, holding-status.ts computeQueueEtas).
ChaseSound(missing, published, at, count, now, room, perRound) ==
    LET d == decideNav(missing, published, IF published THEN at ELSE Null,
                       IF missing = <<>> THEN Null ELSE Head(missing), Null, at, count, now, room)
        etas == computeQueueEtas(missing, perRound, now, 1)
    IN /\ Len(d.symbols) <= Positive(room) /\ ToSet(d.symbols) \subseteq ToSet(missing)
       /\ ~published => Len(d.symbols) <= 1 /\ (count >= ProbesADay => d = Wait)
       /\ \A t \in Range(etas) : t > now /\ Cardinality({i \in DOMAIN etas : etas[i] = t}) <= perRound
=============================================================================
