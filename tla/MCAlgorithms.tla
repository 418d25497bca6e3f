---------------------------- MODULE MCAlgorithms ----------------------------
(***************************************************************************)
(* The companion's pure algorithms over bounded inputs: one step picks an   *)
(* algorithm and an input, and each property is about the case picked.      *)
(***************************************************************************)
EXTENDS Algorithms, Springboard

(* Moments around two long weekends and a half of the year's changes of clock. *)
Minutes == {0, 569, 570, 958, 960, 1110}
Moments ==
    [day : dayNumber(2021, 12, 30) .. dayNumber(2022, 1, 3), minutes : Minutes]
    \cup [day : dayNumber(2023, 12, 29) .. dayNumber(2024, 1, 2), minutes : Minutes]

(* Quotes as a provider may have answered up to a moment: of the session that *)
(* had begun when it was asked or of the one before, of a fund the newest     *)
(* published value or the one before.                                         *)
Contexts == {Context(m) : m \in Moments}
Pulled(x) == {y \in Contexts : y.now <= x.now /\ x.now - y.now < 6 * DayMinutes}
MarketQuotes(x) ==
    {NoQuote} \cup
    UNION {{[valueDate |-> y.started, live |-> y.open, late |-> y.now >= sessionClose(y.started) - 2,
             at |-> y.now, priced |-> TRUE],
            [valueDate |-> previousTradingSession(y.started), live |-> FALSE, late |-> TRUE,
             at |-> y.now, priced |-> TRUE]} : y \in Pulled(x)}
FundQuotes(x) ==
    {NoQuote} \cup
    {[valueDate |-> d, live |-> FALSE, late |-> TRUE, at |-> y.now, priced |-> TRUE] :
        <<d, y>> \in UNION {{<<y.settled, y>>, <<y.published, y>>, <<previousTradingSession(y.published), y>>} :
                            y \in Pulled(x)}}
Entries(x) == [market : {TRUE}, quote : MarketQuotes(x)] \cup [market : {FALSE}, quote : FundQuotes(x)]

(* A book of two holdings, each with the list of the report it is on. *)
Recent(x) == {e \in Entries(x) : e.quote = NoQuote \/ x.now - e.quote.at <= DayMinutes}
Painted(x) ==
    {[s \in {1, 2} |-> [market |-> p[s][1].market, quote |-> p[s][1].quote, list |-> p[s][2]]] :
        p \in {q \in [{1, 2} -> Recent(x) \X {"fetched", "deferred", "none"}] :
                 \A s \in {1, 2} : q[s][2] = "fetched" => q[s][1].quote.priced}}

(* The ages a round is planned with; the data is as old as its oldest part. *)
Ages == {0, Interval, Interval + 1, OneHour, OneHour + 1, NoAge}
WithData ==
    {[open |-> o, sinceOpen |-> s, interval |-> Interval, dataAge |-> Larger(q, f), quoteAge |-> q, fxAge |-> f,
      missing |-> n, blobDays |-> b, navHeld |-> h, anchorMissing |-> a, barAge |-> t] :
        o \in BOOLEAN, s \in {0, Warmup}, q \in Ages, f \in Ages, n \in {0, 2}, b \in {0, 2},
        h \in BOOLEAN, a \in BOOLEAN, t \in {None, 0, BarStaleness}}
WithoutData ==
    {[f \in DOMAIN i |-> IF f \in DOMAIN noFreshness THEN noFreshness[f] ELSE i[f]] : i \in WithData}
PlanInputs == WithData \cup WithoutData

Book(first, n) == [i \in 1 .. n |-> first + i]
Names == 0 .. 3

(* Rounds between other rounds, and funds that are missing in the evening. *)
Delays == [spends : SUBSET {0, 5, 9}, now : 9 .. 14, window : {6}, floor : {0, 1}, at : {None, 0, 4, 8},
           interval : {1, 6, 10}, left : 0 .. 9, limit : {8}]
Conditions == {marketConditionFrom(f) : f \in [weekend : BOOLEAN, holiday : BOOLEAN, open : BOOLEAN,
                  warmingUp : BOOLEAN, navPending : BOOLEAN, tradingDay : BOOLEAN, beforeOpen : BOOLEAN]}
Rest == [of |-> "none"]

(* Curves of three sessions around a thousand, and the holes an export may have. *)
Curve(v, r) == [i \in 1 .. 7 |-> [t |-> Instant((i + 1) \div 2, 600 + i), eur |-> v[i], usd |-> (v[i] * r[i]) \div Thousand]]
Steady == [i \in 1 .. 7 |-> 1100]
Truths ==
    {Curve(v, Steady) : v \in {[i \in 1 .. 7 |-> 1000], [i \in 1 .. 7 |-> 1000 + 40 * (i % 2)],
                               [i \in 1 .. 7 |-> 1000 + 6 * i], [i \in 1 .. 7 |-> 1042 - 6 * i]}}
Holes ==
    {[i \in 1 .. 7 |-> IF i = 7 THEN {} ELSE h[i]] : h \in [1 .. 6 -> {{}, {"eur"}, {"usd"}}]}
    \cup {[i \in 1 .. 7 |-> IF i \in r THEN BothLegs ELSE {}] : r \in {1 .. 2, 1 .. 4, 5 .. 5, 5 .. 6}}
Falls ==
    {Curve(v, r) : v \in {f \in [1 .. 7 -> {1000, 800, 500}] : \A i \in 1 .. 6 : f[i] >= f[i + 1]},
                   r \in {Steady, [i \in 1 .. 7 |-> 1050 + 12 * i], [i \in 1 .. 7 |-> 1134 - 12 * i]}}

(* An export taken at one moment and drawn at a later one, over a long weekend: points    *)
(* every hour of its session, two for each day before; either may lack its funds, and the *)
(* session's beginning or a day may be missing.                                           *)
Drawn == {[now |-> At(m), x |-> View(m)] : m \in
            [day : {dayNumber(2024, 1, 12), dayNumber(2024, 1, 16)}, minutes : {480, 570, 600, 720, 960}]
            \cup [day : {dayNumber(2024, 1, 14)}, minutes : {720}]}
Worth(t) == LET v == 1000 + 40 * ((t \div 60) % 2) IN [eur |-> v, usd |-> (v * 11) \div 10]
Sample(t, hole) == [t |-> t, eur |-> Worth(t).eur - hole, usd |-> Worth(t).usd - (hole * 11) \div 10]
SessionPoints(x, from, hole) ==
    LET begin == sessionOpen(x.last) + from
    IN [i \in 1 .. (IF x.end < begin THEN 0 ELSE (x.end - begin) \div 60 + 1) |-> Sample(begin + 60 * (i - 1), hole)]
WeekPoints(x, lost, holed) ==
    LET days == ascending({d \in x.window : d < x.last} \ lost)
        at(i) == sessionClose(days[(i + 1) \div 2]) - 200 * (i % 2)
        n == 2 * Len(days)
    IN [i \in 1 .. n + 1 |-> IF i > n THEN Sample(sessionOpen(x.last), 0)
                             ELSE Sample(at(i), IF exchangeDayOf([t |-> at(i)]) \in holed THEN 400 ELSE 0)]
FirstDays(x, n) == {d \in x.window : d < x.last /\ Cardinality({e \in x.window : e < d}) < n}

(* Forms of the calculator: two funds in one category and one in another. *)
Forms == [members : {<<{1, 2}, {3}>>}, value : [1 .. 3 -> {0, 1000, 3000}], ticked : SUBSET (1 .. 3),
          target : {<<100, 0>>, <<40, 60>>, <<0, 50>>}, split : {"value", "equal"}, cash : {0, 500, 4000},
          price : {<<Unpriced, Unpriced, Unpriced>>, <<90, 700, 250>>, <<0, 310, Unpriced>>},
          allowSell : BOOLEAN, fractional : BOOLEAN]

(* Books of two holdings and some cash on the Tuesday after a long weekend: each priced by *)
(* the export and by a quote of that session or of the two before, or by the export alone. *)
Tape == [d \in {dayNumber(2024, 1, n) : n \in {10, 11, 12, 16}} |->
           CASE weekdayOf(d) = 3 -> <<100, 200>> [] weekdayOf(d) = 4 -> <<120, 180>>
             [] weekdayOf(d) = 5 -> <<100, 160>> [] OTHER -> <<140, 180>>]
Tuesday == dayNumber(2024, 1, 16)
Traded == {d \in DOMAIN Tape : previousTradingSession(d) \in DOMAIN Tape}
Earlier == [d \in Traded |-> Tape[previousTradingSession(d)]]
Struck(n, d, t) == [price |-> Tape[d][n], prev |-> Earlier[d][n], date |-> d, struck |-> t, at |-> t]
Closed(n, d) == Struck(n, d, sessionClose(d))
Priced == [fund : BOOLEAN, cur : Currencies, blob : Traded, quote : Traded \cup {0}]
Asset(p, n, last) ==
    [fund |-> p.fund, par |-> FALSE, cur |-> p.cur, shares |-> n, blob |-> Closed(n, p.blob),
     quote |-> IF p.quote = 0 THEN NoMark ELSE Closed(n, p.quote), last |-> [EUR |-> last, USD |-> Blank]]
Sweep == [fund |-> TRUE, par |-> TRUE, cur |-> Dollar, shares |-> 3, blob |-> [NoMark EXCEPT !.price = 100],
          quote |-> NoMark, last |-> [EUR |-> Blank, USD |-> Blank]]
Books == {[holdings |-> <<Asset(p, 1, 300), Asset(q, 2, Blank), Sweep>>, exported |-> Tuesday, cash |-> k] :
            p \in Priced, q \in {x \in Priced : x.cur = Dollar},
            k \in {<<>>, <<[cur |-> Euro, amount |-> 400], [cur |-> Dollar, amount |-> 1000]>>}}
Rates ==
    [now : {1250}, before : {1000, 1250, Blank}] \cup [now : {1000}, before : {1250}] \cup [now : {Blank}, before : {Blank}]
Prices(b) ==
    [i \in DOMAIN b.holdings |-> LET h == b.holdings[i]
                                IN [d \in DOMAIN Tape \cup {0} |-> IF h.par THEN h.blob.price ELSE
                                                                 IF d = 0 THEN 0 ELSE Tape[d][h.shares]]]

Arrivals ==
    LET marks == {Struck(1, d, t) : <<d, t>> \in UNION {{<<d, sessionOpen(d)>>, <<d, sessionClose(d)>>} : d \in Traded}}
    IN [how : {"quote", "export"}, mark : marks] \cup [how : {"bar"}, mark : marks, denominated : BOOLEAN]
       \cup [how : {"quote"}, mark : {[m EXCEPT !.struck = 0] : m \in marks}] \cup [how : {"check"}]
PulledAt(n) == sessionClose(Tuesday) + n
CachedOnce == {Arrived(NoMark, a, PulledAt(1)) : a \in Arrivals}
Cached == {NoMark} \cup CachedOnce \cup {Arrived(m, a, PulledAt(2)) : m \in CachedOnce, a \in Arrivals}

Init == case = Rest
PickYear == case = Rest /\ \E y \in PublishedYears : case' = [of |-> "year", y |-> y]
PickMoment == case = Rest /\ \E m \in Moments : case' = [of |-> "moment", m |-> m]
PickEntry == case = Rest /\ \E x \in Contexts : \E e \in Entries(x) : case' = [of |-> "entry", x |-> x, e |-> e]
PickPainted == case = Rest /\ \E x \in Contexts : \E p \in Painted(x) : case' = [of |-> "painted", x |-> x, p |-> p]
PickPlan ==
    case = Rest /\ \E k \in {"auto", "start", "manual"}, i \in PlanInputs : case' = [of |-> "plan", k |-> k, i |-> i]
PickFanout ==
    /\ case = Rest
    /\ \E k \in {"start", "manual", "auto"}, m \in Names, f \in Names, d \in 0 .. Batch + 1,
          t \in 0 .. Reserve + 2, b \in BOOLEAN, s \in {Batch, Batch + 1} :
          case' = [of |-> "fanout", k |-> k, m |-> Book(0, m), f |-> Book(m, f), d |-> d, t |-> t, b |-> b, s |-> s]
PickDelay == case = Rest /\ \E d \in Delays : case' = [of |-> "delay", d |-> d]
PickChase ==
    case = Rest /\
    \E n \in Names, p \in BOOLEAN, t \in {Null, 0, 1}, k \in 0 .. ProbesADay, r \in 0 .. 2, q \in 1 .. 2 :
        case' = [of |-> "chase", n |-> Book(0, n), p |-> p, t |-> t, k |-> k, r |-> r, q |-> q]
PickCell ==
    /\ case = Rest
    /\ \E m \in Conditions, f \in NoCache \cup {"cached"}, b \in {"absent", "present"} :
          case' = [of |-> "cell", m |-> m, f |-> f, b |-> b]
PickHoles ==
    case = Rest /\ \E t \in Truths, h \in Holes, k \in {200, 400, 700} :
        case' = [of |-> "holes", t |-> t, h |-> h, k |-> k]
PickFall == case = Rest /\ \E p \in Falls : case' = [of |-> "fall", p |-> p]
PickExport ==
    /\ case = Rest
    /\ \E e \in Drawn, m \in Drawn, f \in {-40, 0, 30, 60}, k \in {0, 400}, l \in 0 .. 1, n \in {0, 2, 4},
          s \in BOOLEAN, h \in BOOLEAN :
          /\ e.now <= m.now /\ (k # 0 \/ n # 0 => h)
          /\ case' = [of |-> "export", x |-> m.x, tip |-> IF h THEN Worth(m.x.end) ELSE NoHint,
                   day |-> [session |-> e.x.last, points |-> SessionPoints(e.x, f, k)],
                   week |-> [end |-> e.x.last, points |-> WeekPoints(e.x, FirstDays(e.x, l), FirstDays(e.x, n))],
                   stored |-> IF s THEN SessionPoints(m.x, 0, 0) ELSE NoCurve]
PickForm == case = Rest /\ \E f \in Forms : case' = [of |-> "form", f |-> f]
PickBook ==
    case = Rest /\ \E b \in Books, r \in Rates :
        case' = [of |-> "book", b |-> b, r |-> r, v |-> views(b, r), started |-> Tuesday, prices |-> Prices(b)]
PickArrivals ==
    case = Rest /\ \E m \in Cached, a \in Arrivals :
        case' = [of |-> "arrival", cached |-> m, a |-> a, now |-> PulledAt(3), closes |-> [d \in Traded |-> Earlier[d][1]]]
Next == PickBook \/ PickArrivals \/ PickYear \/ PickMoment \/ PickEntry \/ PickPainted \/ PickPlan \/ PickFanout
        \/ PickDelay \/ PickChase \/ PickCell \/ PickHoles \/ PickFall \/ PickExport \/ PickForm
Spec == Init /\ [][Next]_case

\* A curve an export has damaged is drawn as the book's values within what they moved
\* themselves, and a fall that lasts is drawn as it is (week-repair.ts).
CurvesHealed ==
    /\ case.of = "holes" => HolesHealed(case.t, case.h, case.k, 50)
    /\ case.of = "fall" => FallKept(case.p)

\* An export that stands in for a pull draws the whole session or week up to now, and
\* each value as it was (springboard.ts).
SprungTrue == case.of = "export" => SprungSound(case.day, case.week, case.x, case.tip, case.stored, Worth, 50)

=============================================================================
