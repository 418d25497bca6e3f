------------------------------ MODULE Staleness ------------------------------
(***************************************************************************)
(* When a cached price is old (web/src/quotes.ts, freshness.ts, app.ts).   *)
(*                                                                         *)
(* Five places of the companion answer that question: the time a cached    *)
(* quote may be served, what a tap forces, the list of outdated symbols,   *)
(* the phase of the scheduler, and the marks of the holdings.  A quote is   *)
(* a record [valueDate, live, late, at, priced]: the session it prices,    *)
(* whether it was stamped while the market traded, whether it was struck   *)
(* in the last two minutes of that session or later, when it was pulled,   *)
(* and whether it has a price; NoQuote is a symbol never pulled.  An entry  *)
(* of the book is [market, quote], priced by the market or once a day.     *)
(***************************************************************************)
EXTENDS Calendar

CONSTANTS
    Interval,    \* updateMinutes of the settings, the short time to live
    ClosedTtl    \* DEFAULT_CLOSED_MARKET_TTL_MS

ASSUME StalenessAssumption == Interval \in Nat \ {0} /\ ClosedTtl \in Nat /\ ClosedTtl > Interval

NoQuote == [valueDate |-> 0, live |-> FALSE, late |-> FALSE, at |-> 0, priced |-> FALSE]

\* What the calendar says at a moment.
Context(m) ==
    [now |-> At(m), day |-> m.day, open |-> isUsMarketOpen(m), settled |-> latestSettledSessionDate(m),
     published |-> latestPublishedNavDate(m), started |-> lastSessionDate(m),
     nextClose |-> nextSessionClose(m), fxOpen |-> isForexMarketOpen(m), fxReopen |-> lastForexReopen(m)]

----------------------------------------------------------------------------
\* A quote of the settled session that was not merely passing by.
holdsSettledClose(q, settled) ==
    q # NoQuote /\ q.valueDate >= settled /\ (~q.live \/ q.late)

holdsNav(q, floor) == q # NoQuote /\ q.valueDate >= floor

\* MUTANT: a fund is chased from the close on, hours before it is published.
navCacheTtl_Settled(q, x) == IF x.open \/ holdsNav(q, x.settled) THEN x.nextClose - q.at ELSE Interval

\* How long a quote is served without asking again.
navCacheTtl(q, x) == IF x.open \/ holdsNav(q, x.published) THEN x.nextClose - q.at ELSE Interval
marketCacheTtl(q, x) == IF ~x.open /\ holdsSettledClose(q, x.settled) THEN ClosedTtl ELSE Interval
cacheTtl(e, x) == IF e.market THEN marketCacheTtl(e.quote, x) ELSE navCacheTtl(e.quote, x)
servedFromCache(e, x) == e.quote # NoQuote /\ x.now - e.quote.at < cacheTtl(e, x)

\* What the app fetches anew whatever its age: all after a reset, what a round names,
\* and on a tap what is behind.
forceFetch(e, x, force, forceAll, named) ==
    \/ forceAll \/ named
    \/ force /\ IF e.market THEN x.open \/ ~holdsSettledClose(e.quote, x.settled)
                ELSE ~x.open /\ ~holdsNav(e.quote, x.published)

\* What the app calls outdated, to choose the provider and to order the queue.
staleFetch(e, x) ==
    x.open \/ IF e.market THEN ~holdsSettledClose(e.quote, x.settled) ELSE ~holdsNav(e.quote, x.published)

----------------------------------------------------------------------------
\* The scheduler's phase, on the book as the last export left it.
navOutstanding(book, x) == \E e \in book : ~e.market /\ ~holdsNav(e.quote, x.settled)
marketDataOutdated(book, x) == \E e \in book : e.market /\ ~holdsSettledClose(e.quote, x.settled)
currentRefreshPhase(book, x) ==
    IF x.open THEN "market" ELSE IF navOutstanding(book, x) THEN "pre-nav" ELSE "settled"
fullyUpToDate(book, x) == currentRefreshPhase(book, x) = "settled" /\ ~marketDataOutdated(book, x)
holdsLatestClose(book, x) == ~\E e \in book : staleFetch(e, [x EXCEPT !.open = FALSE])

----------------------------------------------------------------------------
\* The marks beside a holding and the rate: live, recent or aged; None is not known.
Unseen == -1
holdingFreshness(observedAt, now, open, window, boundary) ==
    LET within == observedAt <= now /\ now - observedAt <= window
    IN CASE observedAt = Unseen -> "aged"
         [] observedAt # Unseen /\ open /\ within -> "live"
         [] observedAt # Unseen /\ ~(open /\ within) /\ (within \/ observedAt >= boundary) -> "recent"
         [] OTHER -> "aged"

\* The last close of the market bounds what is recent, and the last reopening of the rate.
rowFreshness(e, x, window) ==
    holdingFreshness(IF e.quote = NoQuote THEN Unseen ELSE e.quote.at, x.now, x.open, window,
                     sessionClose(x.settled))
fxFreshness(hasRate, observedAt, x, interval) ==
    CASE ~hasRate -> "none"
      [] hasRate /\ observedAt = Unseen -> "eod"
      [] OTHER -> holdingFreshness(observedAt, x.now, x.fxOpen, interval, x.fxReopen)

isFxStale(rateAt, x) == rateAt = Unseen \/ x.now - rateAt > Interval

holdingCoversLatestClose(q, x, moneyMarket, hasValue) ==
    hasValue /\ (moneyMarket \/ holdsNav(q, x.settled))

----------------------------------------------------------------------------
\* While the market is shut the cache, the tap and the list of outdated symbols give one
\* verdict: what is outdated is fetched, at the next tap and once its interval is over, and
\* what is not rests until the next session closes, however long the weekend.  While it
\* trades a fund rests and a market price lives an interval (quotes.ts navCacheTtlMs and
\* marketCacheTtlMs, app.ts staleFetchSymbols and buildQuoteOptions).
OneVerdict(e, x) ==
    LET old == e.quote # NoQuote /\ x.now - e.quote.at >= Interval
        due == e.quote = NoQuote \/ (old /\ IF x.open THEN e.market ELSE staleFetch(e, x))
    IN /\ due <=> ~servedFromCache(e, x)
       /\ ~x.open => (forceFetch(e, x, TRUE, FALSE, FALSE) <=> staleFetch(e, x))
       /\ x.open => (forceFetch(e, x, TRUE, FALSE, FALSE) <=> e.market)
=============================================================================
