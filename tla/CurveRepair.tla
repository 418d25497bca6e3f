----------------------------- MODULE CurveRepair -----------------------------
(***************************************************************************)
(* The repairs of a drawn curve (web/src/week-repair.ts, liveCurveToChart   *)
(* of ui.ts).  An export may value the book without its funds, or one       *)
(* currency of it, over a stretch of the curve; the repairs put the hole    *)
(* back from the points that are sound.                                     *)
(*                                                                         *)
(* A point is an instant with the book's value in euro and dollar, as       *)
(* integers; a rate is in thousandths of a dollar per euro.                 *)
(***************************************************************************)
EXTENDS Calendar, SequencesExt

CollapseDrop == 15    \* MIN_COLLAPSE_DROP, in percent
RecoveryStep == 8     \* MIN_RECOVERY_STEP
FxDrift == 12         \* MAX_FX_RATIO_DRIFT
Thousand == 1000

NoHint == [eur |-> 0, usd |-> 0]

exchangeDayOf(p) == p.t \div DayMinutes
Highest(values) == Max(ToSet(values))

----------------------------------------------------------------------------
(* Collapses of both currencies: the funds are missing from a leading run. *)
collapsed(value, healthy) == 100 * value < (100 - CollapseDrop) * healthy
leadingRun(values, healthy) ==
    Max({n \in 0 .. Len(values) : \A i \in 1 .. n : collapsed(values[i], healthy)})
staysUp(values, n, healthy) == \A i \in n + 1 .. Len(values) : ~collapsed(values[i], healthy)

\* MUTANT: both legs are lifted by the hole of the euro's.
liftLeading_Euro(points, n, donor, healthy) ==
    LET eur == donor.eur - points[n].eur
    IN IF 100 * eur <= RecoveryStep * healthy THEN points
       ELSE [i \in DOMAIN points |->
                IF i <= n THEN [points[i] EXCEPT !.eur = @ + eur, !.usd = @ + eur] ELSE points[i]]

\* Lifts the first n points by the step from the last of them to the donor, each leg by
\* its own; a small step is no collapse.
liftLeading(points, n, donor, healthy) ==
    LET eur == donor.eur - points[n].eur
        usd == donor.usd - points[n].usd
    IN IF 100 * eur <= RecoveryStep * healthy THEN points
       ELSE [i \in DOMAIN points |->
                IF i <= n THEN [points[i] EXCEPT !.eur = @ + eur, !.usd = @ + usd] ELSE points[i]]

\* One session: judged against its highest point and the headline's value, lifted onto
\* the first sound point, or onto the headline where there is none.
repairSessionNavCollapse(points, hint) ==
    LET values == [i \in DOMAIN points |-> points[i].eur]
        healthy == Max(ToSet(values) \cup {hint.eur})
        n == leadingRun(values, healthy)
        donor == IF n < Len(points) THEN points[n + 1] ELSE hint
    IN IF Len(points) < 2 \/ n = 0 \/ ~staysUp(values, n, healthy) \/ donor = NoHint THEN points
       ELSE liftLeading(points, n, donor, healthy)

\* The last session of a curve on its own: its own last point is what it recovers to.
repairTodayNavCollapse(points) ==
    LET today == SelectSeq(points, LAMBDA p : exchangeDayOf(p) = exchangeDayOf(Last(points)))
    IN IF Len(points) < 2 \/ Len(today) < 2 THEN points
       ELSE SubSeq(points, 1, Len(points) - Len(today)) \o repairSessionNavCollapse(today, NoHint)

\* Whole sessions, judged by their last points against each other; only when none
\* stands out, against today's value.
ascending(S) == [k \in 1 .. Cardinality(S) |-> CHOOSE x \in S : Cardinality({y \in S : y < x}) = k - 1]
dayEnds(points) ==
    ascending({i \in DOMAIN points :
                  i = Len(points) \/ exchangeDayOf(points[i + 1]) # exchangeDayOf(points[i])})
repairWeekNavCollapse(points, hint) ==
    LET ends == dayEnds(points)
        closes == [k \in DOMAIN ends |-> points[ends[k]].eur]
        healthy == Highest(closes)
        n == leadingRun(closes, healthy)
    IN CASE Len(points) < 2 -> points
         [] Len(points) >= 2 /\ n = 0 ->
              IF collapsed(healthy, hint.eur) THEN liftLeading(points, Len(points), hint, healthy) ELSE points
         [] OTHER ->
              IF staysUp(closes, n, healthy)
              THEN liftLeading(points, ends[n], points[ends[n] + 1], healthy) ELSE points

----------------------------------------------------------------------------
(* A collapse of one currency: the rate between the two gives it away. *)
positive(p) == p.eur > 0 /\ p.usd > 0
rate(p) == (Thousand * p.usd) \div p.eur
near(r, to) == (100 - FxDrift) * to <= 100 * r /\ 100 * r <= (100 + FxDrift) * to

ranked(values, k) ==
    Min({v \in ToSet(values) : Cardinality({i \in DOMAIN values : values[i] <= v}) >= k})
medianDecimal(values) ==
    LET mid == Len(values) \div 2
    IN IF Len(values) % 2 = 1 THEN ranked(values, mid + 1)
       ELSE (ranked(values, mid) + ranked(values, mid + 1)) \div 2

\* The rate that prevails: the middle of those that agree with the last one.
prevailingRate(rates) == medianDecimal(SelectSeq(rates, LAMBDA r : near(r, Last(rates))))

\* The nearest of a set of points before and after one of them.
neighbours(i, S) == LET before == {j \in S : j < i}
                        after == {j \in S : j > i}
                    IN (IF before = {} THEN {} ELSE {Max(before)}) \cup (IF after = {} THEN {} ELSE {Min(after)})

\* How far a value is from the mean of its neighbours', against that mean: a fraction.
jump(value, values, refs) ==
    LET sum == MapThenSumSet(LAMBDA j : values[j], refs)
    IN [over |-> IF Cardinality(refs) * value > sum THEN Cardinality(refs) * value - sum
                 ELSE sum - Cardinality(refs) * value,
        under |-> sum]

\* The leg that jumped further is the broken one, with no sound neighbour the dollar's.
eurIsBroken(points, i, sound) ==
    LET refs == neighbours(i, sound)
        eur == jump(points[i].eur, [j \in DOMAIN points |-> points[j].eur], refs)
        usd == jump(points[i].usd, [j \in DOMAIN points |-> points[j].usd], refs)
    IN refs # {} /\ eur.over * usd.under > usd.over * eur.under

\* A point off the prevailing rate has its broken leg rebuilt from the other one.
repairCurrencyDivergence(points) ==
    LET valid == SelectSeq(points, positive)
        prevailing == prevailingRate([i \in DOMAIN valid |-> rate(valid[i])])
        sound == {i \in DOMAIN points : positive(points[i]) /\ near(rate(points[i]), prevailing)}
    IN IF Len(valid) < 3 THEN points
       ELSE [i \in DOMAIN points |->
                IF i \in sound \/ ~positive(points[i]) THEN points[i]
                ELSE IF eurIsBroken(points, i, sound)
                THEN [points[i] EXCEPT !.eur = (Thousand * points[i].usd) \div prevailing]
                ELSE [points[i] EXCEPT !.usd = (points[i].eur * prevailing) \div Thousand]]

\* What is drawn: one currency's hole first, then today's hole of both.
liveCurveToChart(points) == repairTodayNavCollapse(repairCurrencyDivergence(points))

----------------------------------------------------------------------------
(* A curve as an export damages it: the legs of a point that lack the same depth. *)
BothLegs == {"eur", "usd"}
damaged(truth, holes, depth) ==
    [i \in DOMAIN truth |->
        [truth[i] EXCEPT !.eur = IF "eur" \in holes[i] THEN @ - depth ELSE @,
                         !.usd = IF "usd" \in holes[i] THEN @ - (depth * truth[i].usd) \div truth[i].eur ELSE @]]

Within(a, b, slack) == a - b <= slack /\ b - a <= slack
Near(points, truth, slack) ==
    /\ DOMAIN points = DOMAIN truth
    /\ \A i \in DOMAIN points : Within(points[i].eur, truth[i].eur, slack) /\ Within(points[i].usd, truth[i].usd, slack)

\* The damages that heal: one leg of any points but the last, both legs of today's first
\* points, and of the first settled days, all of them included.
OneLegged(holes) == \A i \in DOMAIN holes : holes[i] # BothLegs
RunOf(holes, first, last) == \A i \in DOMAIN holes : holes[i] = IF i \in first .. last THEN BothLegs ELSE {}
HolesHealed(truth, holes, depth, slack) ==
    LET broken == damaged(truth, holes, depth)
        tip == [eur |-> Last(truth).eur, usd |-> Last(truth).usd]
        ends == dayEnds(truth)
        today == IF Len(ends) = 1 THEN 1 ELSE ends[Len(ends) - 1] + 1
        week == repairWeekNavCollapse(broken, tip)
        settled == repairWeekNavCollapse(SubSeq(broken, 1, today - 1), tip)
    IN /\ OneLegged(holes) \/ (\E n \in today .. Len(truth) - 1 : RunOf(holes, today, n)) =>
              Near(liveCurveToChart(broken), truth, slack)
       /\ \A k \in 1 .. Len(ends) - 1 :
              RunOf(holes, 1, ends[k]) => /\ Near(liveCurveToChart(week), truth, slack)
                                          /\ Near(settled, SubSeq(truth, 1, today - 1), slack)

\* A fall that lasts is not repaired away, whatever its depth.
FallKept(points) ==
    LET tip == [eur |-> Last(points).eur, usd |-> Last(points).usd]
    IN /\ repairSessionNavCollapse(points, tip) = points
       /\ repairWeekNavCollapse(points, tip) = points
       /\ liveCurveToChart(points) = points
=============================================================================
