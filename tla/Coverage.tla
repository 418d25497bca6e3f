------------------------------ MODULE Coverage ------------------------------
(***************************************************************************)
(* What the companion tells its reader about the prices on screen (app.ts  *)
(* buildCoverageFacts to classifyConnectivity, coverage-check.ts).         *)
(*                                                                         *)
(* A painted book is a function from symbols to [market, quote, list]: its *)
(* entry and the list of the load report that names it, "fetched",         *)
(* "servedFresh", "deferred", "failed", or "none" for a symbol the round   *)
(* did not touch.  The sentence shown is a record of its counts.           *)
(***************************************************************************)
EXTENDS Staleness, Sequences

Touched == {"fetched", "servedFresh", "deferred", "failed"}

\* The rest of the book counts as served from the cache.
bookCoverageReport(painted) ==
    [s \in DOMAIN painted |-> IF painted[s].list = "none" THEN [painted[s] EXCEPT !.list = "servedFresh"]
                              ELSE painted[s]]

\* And keeps the price it has, if it has one.
preserveCachedQuotesForGatedLegs(quotes, cached) ==
    [s \in DOMAIN quotes |-> IF quotes[s] = NoQuote /\ cached[s].priced THEN cached[s] ELSE quotes[s]]

liveRefreshProgress(painted) ==
    LET total == {s \in DOMAIN painted : painted[s].list \in Touched}
        notLive == {s \in total : painted[s].list \in {"deferred", "failed"}}
    IN [live |-> Cardinality(total \ notLive), total |-> Cardinality(total)]

----------------------------------------------------------------------------
\* The first symbol of the queue is priced with the next burst; perRound and
\* burst are FREE_TIER.creditsPerMinute and DEFAULT_BURST_INTERVAL_MS.
coverageUpdatingEta(painted, burst) ==
    IF \E s \in DOMAIN painted : painted[s].list = "deferred" THEN burst ELSE Unseen

\* MUTANT: a fund counts as in with the net asset value of the session before.
behindSettled_Published(q, x) == ~holdsNav(q, x.published)
behindSettled(q, x) == ~holdsNav(q, x.settled)

stillLive(q, x, window) == x.open /\ q.priced /\ x.now >= q.at /\ x.now - q.at <= window

buildCoverageFacts(painted, x, window, burst, error, fx) ==
    LET shown == {s \in DOMAIN painted : painted[s].list \in Touched}
        quoteOf(s) == painted[s].quote
        market == {s \in shown : painted[s].market}
        nav == shown \ market
        held == {s \in market : quoteOf(s).priced}
        fresh == {s \in market : painted[s].list = "fetched" \/ stillLive(quoteOf(s), x, window)}
        awaiting == {s \in nav : behindSettled(quoteOf(s), x)}
    IN [marketOpen |-> x.open, error |-> error, fx |-> fx, fxClosed |-> ~x.fxOpen,
        eta |-> coverageUpdatingEta(painted, burst),
        marketTotal |-> Cardinality(market), marketHeld |-> Cardinality(held),
        marketFresh |-> Cardinality(fresh),
        marketUpdating |-> Cardinality({s \in held \ fresh : painted[s].list = "deferred"}),
        marketAtClose |-> Cardinality({s \in market : holdsSettledClose(quoteOf(s), x.settled)}),
        navTotal |-> Cardinality(nav), navAwaiting |-> Cardinality(awaiting),
        navExpectedTonight |->
            Cardinality({s \in nav \ awaiting : x.open /\ quoteOf(s).valueDate < x.started})]

----------------------------------------------------------------------------
\* Which of the funds' three clauses is shown.
navCoverageClause(f) ==
    CASE f.navTotal = 0 -> "none"
      [] f.navTotal > 0 /\ f.marketOpen /\ f.navExpectedTonight > 0 -> "expected tonight"
      [] f.navTotal > 0 /\ ~(f.marketOpen /\ f.navExpectedTonight > 0) /\ f.navAwaiting > 0 -> "awaiting"
      [] OTHER -> "in"

NotBelow(n) == IF n > 0 THEN n ELSE 0
Capped(a, b) == IF a < b THEN a ELSE b

\* The headline, and the market's counts behind it.
summarizeCoverage(f) ==
    LET updating == NotBelow(Capped(f.marketUpdating, f.marketHeld - f.marketFresh))
        missing == NotBelow(f.marketTotal - f.marketHeld)
        says(headline, buckets) == [headline |-> headline, buckets |-> buckets, nav |-> navCoverageClause(f),
                                    fx |-> IF f.fxClosed THEN "closed" ELSE f.fx]
    IN CASE f.marketTotal + f.navTotal = 0 -> says("no live-priced holdings", <<>>)
         [] f.marketTotal + f.navTotal > 0 /\ f.error -> says("showing last known", <<>>)
         [] f.marketTotal + f.navTotal > 0 /\ ~f.error /\ f.marketOpen ->
              says("open", <<f.marketFresh, updating,
                             NotBelow(f.marketHeld - f.marketFresh - updating), missing>>)
         [] f.marketTotal + f.navTotal > 0 /\ ~f.error /\ ~f.marketOpen
              /\ f.marketAtClose = f.marketTotal /\ f.navAwaiting = 0 -> says("closed, up to date", <<>>)
         [] OTHER -> says("closed", <<f.marketAtClose, NotBelow(f.marketHeld - f.marketAtClose), missing>>)

\* Whether the providers were reached: what arrived is proof, an error that can pass is not.
classifyConnectivity(online, fetched, fxFetched, passingError) ==
    CASE ~online -> "offline"
      [] online /\ (fetched > 0 \/ fxFetched) -> "online"
      [] online /\ fetched = 0 /\ ~fxFetched /\ passingError -> "unreachable"
      [] OTHER -> "online"

----------------------------------------------------------------------------
(* The sources each core value can be loaded from (coverage-check.ts). *)
CoreValues == {"prices", "fx", "oneDay", "oneWeek", "longRange"}
NoCache == {"empty-device", "first-login-currency-unknown"}

sourcesOf(value, market, freshness, blob) ==
    LET cache == freshness \notin NoCache
        holdings == blob # "absent" \/ cache
        orchestrated == CASE value = "prices" -> TRUE
                          [] value = "fx" -> market # "weekend"
                          [] value = "oneDay" -> market = "open-steady"
                          [] value = "oneWeek" -> market \notin {"weekend", "holiday"}
                          [] OTHER -> FALSE
    IN (IF blob # "absent" THEN {"blob"} ELSE {})
       \cup (IF cache THEN {IF value \in {"oneDay", "oneWeek"} THEN "reconstruction" ELSE "cache"} ELSE {})
       \cup (IF holdings /\ orchestrated THEN {"orchestrator"} ELSE {})
       \cup (IF holdings /\ value = "longRange" THEN {"reconstruction"} ELSE {})

checkDataCoverage(market, freshness, blob) ==
    LET missing == {v \in CoreValues : sourcesOf(v, market, freshness, blob) = {}}
        awaiting == blob = "absent" /\ freshness \in NoCache
    IN [ok |-> awaiting \/ missing = {}, missing |-> missing, awaitingBlob |-> awaiting]
coverageLogLevel(v) == IF v.awaitingBlob THEN "info" ELSE IF v.ok THEN "good" ELSE "warn"

marketConditionFrom(f) ==
    CASE f.weekend -> "weekend"
      [] ~f.weekend /\ f.holiday -> "holiday"
      [] ~f.weekend /\ ~f.holiday /\ f.open -> IF f.warmingUp THEN "open-lt-30m" ELSE "open-steady"
      [] ~f.weekend /\ ~f.holiday /\ ~f.open /\ f.navPending -> "after-close-nav-pending"
      [] ~f.weekend /\ ~f.holiday /\ ~f.open /\ ~f.navPending /\ f.tradingDay /\ ~f.beforeOpen -> "overnight"
      [] OTHER -> "pre-open"

----------------------------------------------------------------------------
\* Every value has a source on every kind of day and device, so that the warning of the
\* check is never logged: what it guards against is a source that is taken away
\* (coverage-check.ts checkDataCoverage).
NeverUncovered(market, freshness, blob) ==
    coverageLogLevel(checkDataCoverage(market, freshness, blob)) # "warn"

\* The headline does not reassure while the scheduler still has something to fetch, nor
\* worry when it has not: over the whole book it says "closed, up to date" exactly when
\* the scheduler rests, and then no symbol is on the list of outdated ones and every
\* holding bears its mark (app.ts summarizeCoverage, fullyUpToDate, freshness.ts
\* holdingCoversLatestClose).
HeadlineTrue(painted, x, window, burst) ==
    LET book == {[market |-> painted[s].market, quote |-> painted[s].quote] : s \in DOMAIN painted}
        f == buildCoverageFacts(bookCoverageReport(painted), x, window, burst, FALSE, "none")
    IN book # {} =>
         /\ summarizeCoverage(f).headline = "closed, up to date" <=> fullyUpToDate(book, x)
         /\ fullyUpToDate(book, x) =>
              \A e \in book : ~staleFetch(e, x) /\ holdingCoversLatestClose(e.quote, x, FALSE, TRUE)
=============================================================================
