----------------------------- MODULE Valuation -----------------------------
(***************************************************************************)
(* What the book is worth and what it moved today (web/src/compute.ts),    *)
(* from the quotes the cache keeps (cache.ts).                              *)
(*                                                                         *)
(* A mark is a price with the close before it, [price, prev, date, struck,  *)
(* at]: the session it is of, when it was struck and when it was pulled; a  *)
(* day or an instant of 0 is unknown.  A holding is [fund, par, cur,        *)
(* shares, blob, quote, last]: priced once a day, a money-market fund, its  *)
(* currency, the export's mark, the cached one, and the value last exported *)
(* in each currency.  Rates are dollars for a thousand euros.               *)
(***************************************************************************)
EXTENDS Calendar, Sequences

Euro == "EUR"
Dollar == "USD"
Currencies == {Euro, Dollar}
Unit == 1000
Blank == -1000000000     \* an amount, a price or a rate that is null
NoMark == [price |-> Blank, prev |-> Blank, date |-> 0, struck |-> 0, at |-> 0]

Known(a) == a # Blank
Otherwise(a, b) == IF Known(a) THEN a ELSE b
Minus(a, b) == IF Known(a) /\ Known(b) THEN a - b ELSE Blank
dayOf(t) == t \div DayMinutes
inBoth(f(_)) == [EUR |-> f(Euro), USD |-> f(Dollar)]

convert(amount, from, to, rate) ==
    CASE from = to -> amount
      [] from # to /\ ~(Known(amount) /\ Known(rate)) -> Blank
      [] from # to /\ Known(amount) /\ Known(rate) /\ to = Euro -> (amount * Unit) \div rate
      [] OTHER -> (amount * rate) \div Unit

----------------------------------------------------------------------------
(* The cache: a pulled quote replaces what is there, a bar and an export only *)
(* what was struck before them.                                              *)
instantOf(m) == IF m.struck # 0 THEN m.struck ELSE m.at

writeCachedQuotes(cached, fresh, now) == IF Known(fresh.price) THEN [fresh EXCEPT !.at = now] ELSE cached

\* A bar brings no close before it: the cached one stays, whatever session it was of.
\* Without a cached quote the book's currency must be known.
primeQuotesFromBars(cached, bar, denominated, now) ==
    CASE cached # NoMark /\ bar.t = instantOf(cached) /\ now > cached.at -> [cached EXCEPT !.at = now]
      [] bar.t > instantOf(cached) /\ (cached # NoMark \/ denominated) ->
            [cached EXCEPT !.price = bar.price, !.date = dayOf(bar.t), !.struck = bar.t, !.at = now]
      [] OTHER -> cached

markNavChecked(cached, now) == IF cached # NoMark /\ cached.at < now THEN [cached EXCEPT !.at = now] ELSE cached

primeQuotesFromExport(cached, seed) ==
    IF Known(seed.price) /\ seed.struck > instantOf(cached) THEN [seed EXCEPT !.at = seed.struck] ELSE cached

----------------------------------------------------------------------------
fallbackDate(h, exported) == IF h.par \/ h.blob.date = 0 THEN exported ELSE h.blob.date

\* The quote, unless the export's price is of a later day.
quoteIsBehind(h, exported) ==
    LET from == fallbackDate(h, exported)
        q == h.quote
    IN /\ Known(h.blob.price)
       /\ IF h.fund THEN q.date = 0 \/ q.date < from \/ weekdayOf(q.date) \in Weekend
                    ELSE instantOf(q) # 0 /\ dayOf(instantOf(q)) < from

priceForHolding(h, exported) ==
    IF Known(h.quote.price) /\ ~quoteIsBehind(h, exported)
    THEN [price |-> h.quote.price, live |-> TRUE,
          date |-> IF h.quote.date # 0 THEN h.quote.date ELSE fallbackDate(h, exported)]
    ELSE [price |-> h.blob.price, live |-> FALSE, date |-> fallbackDate(h, exported)]

\* The two prices a holding's move is between; a fund's quote may move what the export
\* prices, when it is of the same day.
stepOf(h, shown) ==
    LET q == h.quote
        applies == /\ Known(q.price) /\ q.prev \notin {Blank, 0}
                   /\ IF h.fund THEN q.date # 0 /\ q.date >= shown.date ELSE shown.live
    IN CASE h.par -> [now |-> Blank, before |-> Blank]
         [] ~h.par /\ applies -> [now |-> q.price, before |-> q.prev]
         [] ~h.par /\ ~applies /\ ~shown.live /\ Known(shown.price) /\ h.blob.prev > 0 ->
               [now |-> shown.price, before |-> h.blob.prev]
         [] OTHER -> [now |-> Blank, before |-> Blank]

\* A view in both currencies: the value now, the value before the step at the rate before,
\* the move between them, and the move at today's rate alone.
buildHolding(h, exported, rate, prior) ==
    LET shown == priceForHolding(h, exported)
        step == stepOf(h, shown)
        worth(price, c, r) == IF Known(price) THEN convert(h.shares * price, h.cur, c, r) ELSE Blank
        before == inBoth(LAMBDA c : worth(step.before, c, prior))
    IN [cur |-> h.cur, date |-> shown.date,
        native |-> IF Known(shown.price) THEN h.shares * shown.price ELSE Blank,
        value |-> inBoth(LAMBDA c : Otherwise(worth(shown.price, c, rate), h.last[c])),
        before |-> before,
        move |-> inBoth(LAMBDA c : Minus(worth(step.now, c, rate), before[c])),
        priceMove |-> worth(Minus(step.now, step.before), Euro, rate)]

----------------------------------------------------------------------------
\* The holdings that moved in the session that began last.
movedToday(v, started) == (\E c \in Currencies : Known(v.move[c])) /\ v.date >= started

\* MUTANT: a holding that lags counts the move of its own last session.
valueBefore_Ungated(v, c, prior, started) ==
    CASE ~Known(v.value[c]) -> 0
      [] Known(v.value[c]) /\ Known(v.move[c]) -> v.value[c] - v.move[c]
      [] OTHER -> v.value[c]

\* What a holding adds to the baseline: its value before today's step, or what it is worth
\* now at the rate before.
valueBefore(v, c, prior, started) ==
    CASE ~Known(v.value[c]) -> 0
      [] Known(v.value[c]) /\ movedToday(v, started) /\ Known(v.move[c]) -> v.value[c] - v.move[c]
      [] OTHER -> Otherwise(convert(v.native, v.cur, c, prior), v.value[c])

fxPrev(r) == IF r.before > 0 THEN r.before ELSE r.now
views(b, r) == [i \in DOMAIN b.holdings |-> buildHolding(b.holdings[i], b.exported, r.now, fxPrev(r))]
sumOver(S, f) == IF \E i \in S : ~Known(f[i]) THEN Blank ELSE MapThenSumSet(LAMBDA i : f[i], S)

\* Cash without a rate to euros is left out; what counts in euros counts in dollars, or the
\* dollar total is unknown.
buildDashboard(V, b, r, started) ==
    LET prior == fxPrev(r)
        counted == {i \in DOMAIN V : Known(V[i].value[Euro])}
        rows == {i \in DOMAIN b.cash : Known(convert(b.cash[i].amount, b.cash[i].cur, Euro, r.now))}
        cash(c, rate) == sumOver(rows, [i \in rows |-> convert(b.cash[i].amount, b.cash[i].cur, c, rate)])
        held(c) == sumOver(counted, [i \in counted |-> V[i].value[c]])
        was(c) == sumOver(DOMAIN V, [i \in DOMAIN V |-> valueBefore(V[i], c, prior, started)])
        plus(x, y, z) == IF Known(x) /\ Known(y) /\ Known(z) THEN x + y ELSE Blank
        total == inBoth(LAMBDA c : plus(held(c), cash(c, r.now), held(c)))
        anchor == inBoth(LAMBDA c : plus(was(c), cash(c, prior), held(c)))
        moved == {i \in DOMAIN V : movedToday(V[i], started) /\ Known(V[i].move[Euro])}
        priceOnly == sumOver(moved, [i \in moved |-> V[i].priceMove])
    IN [total |-> total, anchor |-> anchor,
        move |-> inBoth(LAMBDA c : Minus(total[c], anchor[c])),
        fxMove |-> Minus(Minus(total[Euro], anchor[Euro]), priceOnly)]

----------------------------------------------------------------------------
(* The board of movers: of each side the largest move and the largest percentage, or *)
(* the next by percentage when one holding has both.                                  *)
moveForCurrency(v, c) == Otherwise(v.move[c], v.move[Euro])
share(v, c) == IF Known(v.move[c]) /\ v.before[c] > 0 THEN <<v.move[c], v.before[c]>>
                                                       ELSE <<v.move[Euro], v.before[Euro]>>
byMoney(V, sign, c, i, j) == sign * (moveForCurrency(V[i], c) - moveForCurrency(V[j], c))
byPct(V, sign, c, i, j) ==
    LET p == share(V[i], c)
        q == share(V[j], c)
    IN sign * (p[1] * q[2] - q[1] * p[2])
leads(i, j, difference) == difference > 0 \/ (difference = 0 /\ i < j)

pickMoverSide(V, pool, sign, c) ==
    LET first == CHOOSE i \in pool : \A j \in pool \ {i} : leads(i, j, byMoney(V, sign, c, i, j))
        rest == pool \ {first}
        second == CHOOSE i \in rest : \A j \in rest \ {i} : leads(i, j, byPct(V, sign, c, i, j))
    IN IF pool = {} THEN <<>> ELSE IF rest = {} THEN <<first>> ELSE <<first, second>>

\* The side is the sign of the move in euros, whatever the board is shown in.
buildMovers(V, c) ==
    LET moved == {i \in DOMAIN V : Known(V[i].move[Euro]) /\ V[i].before[Euro] > 0}
        eligible == {i \in moved : \A j \in moved : V[j].date <= V[i].date}
        side(sign) == pickMoverSide(V, {i \in eligible : sign * V[i].move[Euro] > 0}, sign, c)
    IN [eligible |-> eligible, winners |-> side(1), losers |-> side(-1)]

----------------------------------------------------------------------------
\* What a book was worth, its holdings each at their price of a day: a holding or some cash
\* that no rate converts is left out, or worth what was last exported.
seenDay(h) == Max({h.blob.date, h.quote.date})
heldAt(h, tape, day, c, rate) == Otherwise(convert(h.shares * tape[day], h.cur, c, rate), h.last[c])
KnownOrNone(a) == IF Known(a) THEN a ELSE 0
worthOn(b, prices, day, c, rate) ==
    LET held == [i \in DOMAIN b.holdings |-> KnownOrNone(heldAt(b.holdings[i], prices[i], day[i], c, rate))]
        cash == [i \in DOMAIN b.cash |-> KnownOrNone(convert(b.cash[i].amount, b.cash[i].cur, c, rate))]
    IN MapThenSumSet(LAMBDA i : held[i], DOMAIN held) + MapThenSumSet(LAMBDA i : cash[i], DOMAIN cash)

\* The baseline of a book whose marks carry the close of the session before their own: what
\* the holdings were worth, at the rate before, at the close before the session that began
\* last, or at their own last price when that is older (started is that session, before the
\* one before it).  It does not depend on which of
\* the day's prices have arrived, the total does not depend on the rate before, and the
\* move between them is the price's and, for what the baseline holds, the rate's alone.
BaselineTrue(V, b, r, started, before, prices) ==
    LET d == buildDashboard(V, b, r, started)
        seen == [i \in DOMAIN b.holdings |-> seenDay(b.holdings[i])]
        base == [i \in DOMAIN b.holdings |-> IF seen[i] > before THEN before ELSE seen[i]]
        worth(day, c, rate) == worthOn(b, prices, day, c, rate)
    IN /\ d.total[Euro] = worth(seen, Euro, r.now) /\ d.anchor[Euro] = worth(base, Euro, fxPrev(r))
       /\ d.fxMove = worth(base, Euro, r.now) - worth(base, Euro, fxPrev(r))
       /\ Known(r.now) => /\ d.total[Dollar] = worth(seen, Dollar, r.now)
                          /\ d.anchor[Dollar] = worth(base, Dollar, fxPrev(r))

\* The board: movers of one day, gainers and losers apart; none on a side moved more than
\* its first, nor by a larger share than all that is named.  In dollars a gainer has
\* gained when the rate stands still: the sides are those of the euro figures.
BoardTrue(V, r, c) ==
    LET m == buildMovers(V, c)
        named(side) == {side[n] : n \in DOMAIN side}
        Ranked(side, sign) ==
            /\ side = <<>> => \A i \in m.eligible : sign * V[i].move[Euro] <= 0
            /\ \A i \in m.eligible, n \in DOMAIN side :
                  sign * V[i].move[Euro] > 0 =>
                      /\ byMoney(V, sign, c, side[1], i) >= 0
                      /\ \E k \in named(side) : byPct(V, sign, c, k, i) >= 0
            /\ c = Euro \/ r.now = fxPrev(r) => \A k \in named(side) : sign * moveForCurrency(V[k], c) > 0
    IN /\ Ranked(m.winners, 1) /\ Ranked(m.losers, -1)
       /\ named(m.winners) \cap named(m.losers) = {}
       /\ \A i, j \in named(m.winners) \cup named(m.losers) : V[i].date = V[j].date

\* What the cache holds after an arrival.
Arrived(cached, a, now) ==
    CASE a.how = "quote" -> writeCachedQuotes(cached, a.mark, now)
      [] a.how = "export" -> primeQuotesFromExport(cached, a.mark)
      [] a.how = "check" -> markNavChecked(cached, now)
      [] OTHER -> primeQuotesFromBars(cached, [t |-> a.mark.struck, price |-> a.mark.price], a.denominated, now)

\* Only a pulled quote puts an older price in the place of a newer one, and a mark keeps the
\* close of the session before its own unless a bar has begun it or carried it over a close.
CacheTrue(cached, a, now, closes) ==
    LET after == Arrived(cached, a, now)
        paired(mark) == mark.prev = closes[mark.date]
    IN /\ a.how # "quote" => instantOf(after) >= instantOf(cached)
       /\ cached # NoMark /\ a.how = "check" => after = [cached EXCEPT !.at = Max({cached.at, now})]
       /\ /\ cached = NoMark \/ paired(cached)
          /\ a.how = "bar" => cached # NoMark /\ dayOf(a.mark.struck) <= cached.date
          => after = NoMark \/ paired(after)
=============================================================================
