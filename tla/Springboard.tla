----------------------------- MODULE Springboard -----------------------------
(***************************************************************************)
(* Curves drawn from an export instead of from a pull of bars               *)
(* (web/src/springboard.ts; appendLiveTip and capAtClose of intraday.ts):   *)
(* when an export may stand in for one, what is cut from it, and how it is  *)
(* bridged to the headline's value, the tip.                                *)
(***************************************************************************)
EXTENDS CurveRepair

MinCoverage == 90     \* MIN_SESSION_COVERAGE and MIN_WEEK_DAY_COVERAGE, in percent
WeekSessions == 5     \* DEFAULT_WEEK_SESSIONS
NoCurve == <<>>

From(points, t) == SelectSeq(points, LAMBDA p : p.t >= t)
Before(points, t) == SelectSeq(points, LAMBDA p : p.t < t)

appendLiveTip(points, t, tip) ==
    LET point == [t |-> t, eur |-> tip.eur, usd |-> tip.usd]
    IN CASE points = <<>> -> <<point>>
         [] points # <<>> /\ t < Last(points).t -> points
         [] points # <<>> /\ t = Last(points).t -> Append(Front(points), point)
         [] OTHER -> Append(points, point)
bridged(points, t, tip) == IF tip = NoHint THEN points ELSE appendLiveTip(points, t, tip)

capAtClose(points, close) ==
    LET kept == SelectSeq(points, LAMBDA p : p.t <= close)
    IN IF kept = <<>> THEN points ELSE kept

\* What is asked of the calendar at a moment.
View(m) ==
    LET last == lastSessionDate(m)
    IN [open |-> isUsMarketOpen(m), last |-> last, previous |-> previousTradingSession(last),
        window |-> recentTradingSessions(WeekSessions, m),
        end |-> IF isUsMarketOpen(m) THEN At(m) ELSE sessionClose(last)]    \* where a curve ends

\* Of the export's session only when it is the current one and its points begin within
\* the first tenth of what has passed of it.
springboardSessionCurve(day, x, tip) ==
    LET open == sessionOpen(x.last)
        elapsed == x.end - open
        points == From(day.points, open)
        ended == bridged(points, x.end, tip)
        curve == repairSessionNavCollapse(IF x.open THEN ended ELSE capAtClose(ended, x.end), tip)
    IN IF \/ day.session # x.last \/ points = <<>>
          \/ elapsed > 0 /\ 100 * (points[1].t - open) > (100 - MinCoverage) * elapsed
          \/ Len(curve) < 2
       THEN NoCurve ELSE curve

\* MUTANT: two sessions of the export are enough.
requiredDays_Two(end, x) == 2

\* The sessions an export must have of the settled ones up to its end, nine of ten.
requiredDays(end, x) ==
    LET settled == {d \in x.window : d < x.last /\ d <= end}
        most == (MinCoverage * Cardinality(settled) + 99) \div 100
    IN IF most > 2 THEN most ELSE 2

\* What the settled days are judged against: where today's curve begins, else the tip.
weekHint(today, tip) == IF today # <<>> THEN [eur |-> today[1].eur, usd |-> today[1].usd] ELSE tip

\* The export's settled sessions of the window, repaired, and today's own curve after
\* them: never the export's last day.
springboardWeekCurve(week, x, tip, todayCurve) ==
    LET midnight == Instant(x.last, 0)
        window == From(week.points, Instant(Min(x.window), 0))
        today == From(todayCurve, midnight)
        settled == repairWeekNavCollapse(Before(window, midnight), weekHint(today, tip))
        curve == IF today # <<>> THEN settled \o today ELSE bridged(settled, x.end, tip)
    IN IF \/ week.end \notin {x.last, x.previous} \/ window = <<>>
          \/ Cardinality({exchangeDayOf(settled[i]) : i \in DOMAIN settled}) < requiredDays(week.end, x)
          \/ Len(curve) < 2
       THEN NoCurve ELSE curve

\* Nothing is after the close of a session that is over.
capWeekToSessionClose(points, x) == IF x.open THEN points ELSE capAtClose(points, x.end)

----------------------------------------------------------------------------
Ascends(points) == \A i \in 1 .. Len(points) - 1 : points[i].t < points[i + 1].t
Follows(points, Value(_), slack) ==
    \A i \in DOMAIN points : /\ Within(points[i].eur, Value(points[i].t).eur, slack)
                             /\ Within(points[i].usd, Value(points[i].t).usd, slack)
DaysOf(points) == {exchangeDayOf(points[i]) : i \in DOMAIN points}

\* The session's curve: of this session and no other, from its beginning up to the tip,
\* and the book's value at each instant.
SessionTrue(s, x, tip, Value(_), slack) ==
    /\ Ascends(s) /\ Follows(s, Value, slack)
    /\ s[1].t >= sessionOpen(x.last) /\ Last(s).t <= x.end
    /\ tip # NoHint => Last(s).t = x.end

\* The week's: every session of the window the export reaches and today's, today as the
\* session's own curve.
WeekTrue(w, s, week, x, tip, Value(_), slack) ==
    /\ Ascends(w) /\ Follows(w, Value, slack)
    /\ DaysOf(w) \subseteq x.window /\ {d \in x.window : d <= week.end /\ d < x.last} \subseteq DaysOf(w)
    /\ tip # NoHint => x.last \in DaysOf(w)
    /\ s # NoCurve => From(w, Instant(x.last, 0)) = s

\* An export that is whole and young enough is used, one that is not is not drawn as
\* something it isn't.
SprungSound(day, week, x, tip, stored, Value(_), slack) ==
    LET s == springboardSessionCurve(day, x, tip)
        w == capWeekToSessionClose(springboardWeekCurve(week, x, tip, IF s # NoCurve THEN s ELSE stored), x)
        reached == {d \in x.window : d <= week.end /\ d < x.last}
    IN /\ s # NoCurve => SessionTrue(s, x, tip, Value, slack)
       /\ w # NoCurve => WeekTrue(w, s, week, x, tip, Value, slack)
       /\ day.session = x.last /\ day.points # <<>> /\ tip # NoHint /\ x.end > sessionOpen(x.last) =>
              (day.points[1].t = sessionOpen(x.last) => s # NoCurve)
       /\ week.end \in {x.last, x.previous} /\ reached \subseteq DaysOf(week.points) => w # NoCurve
=============================================================================
