------------------------------ MODULE Calendar ------------------------------
(***************************************************************************)
(* The exchange's calendar and clock (web/src/market-hours.ts).            *)
(*                                                                         *)
(* A day is its number since 1 January 1970, a moment is a day and a minute *)
(* of it on the exchange's wall clock, so that New York's offset from UTC    *)
(* and its two changes a year are out of the picture.                       *)
(***************************************************************************)
EXTENDS Integers, FiniteSets, FiniteSetsExt

OpenMinutes == 9 * 60 + 30
CloseMinutes == 16 * 60
NavCutoff == 18 * 60 + 30
ForexBoundary == 17 * 60
BarInterval == 60
NavFallbackWait == 5 * 60
DayMinutes == 24 * 60
Stretch == 10    \* more days than the exchange ever stays shut

Instant(day, minutes) == day * DayMinutes + minutes
At(m) == Instant(m.day, m.minutes)

----------------------------------------------------------------------------
(* Day numbers, with the year starting in March so that a leap day is its last. *)
MarchYear(y, m) == IF m > 2 THEN y ELSE y - 1
dayNumber(y, m, d) ==
    LET Y == MarchYear(y, m)
        M == IF m > 2 THEN m - 3 ELSE m + 9
    IN 365 * Y + Y \div 4 - Y \div 100 + Y \div 400 + (153 * M + 2) \div 5 + d - 1 - 719468
yearOf(day) ==
    LET guess == 1970 + day \div 366
    IN CHOOSE y \in guess .. guess + 2 : dayNumber(y, 1, 1) <= day /\ day < dayNumber(y + 1, 1, 1)

weekdayOf(day) == (day + 4) % 7     \* Sunday is 0
Weekend == {0, 6}

\* MUTANT: a holiday on a weekend is lost.
observed_Lost(y, m, d) == dayNumber(y, m, d)

\* A holiday on a Saturday is kept on the Friday before, one on a Sunday on the Monday
\* after.  The source keys it by month and day within the set of the year y, so that
\* New Year's Saturday becomes the last day of y and not of the year before.
observed(y, m, d) ==
    LET day == dayNumber(y, m, d)
    IN CASE weekdayOf(day) = 6 -> IF m = 1 /\ d = 1 THEN dayNumber(y, 12, 31) ELSE day - 1
         [] weekdayOf(day) = 0 -> day + 1
         [] OTHER -> day

nthWeekday(y, m, weekday, nth) ==
    LET first == dayNumber(y, m, 1)
    IN first + ((weekday - weekdayOf(first) + 7) % 7) + (nth - 1) * 7
lastWeekday(y, m, weekday) ==
    LET last == dayNumber(y, m + 1, 1) - 1
    IN last - ((weekdayOf(last) - weekday + 7) % 7)

easterSunday(y) ==
    LET a == y % 19
        b == y \div 100
        c == y % 100
        h == (19 * a + b - b \div 4 - (b - (b + 8) \div 25 + 1) \div 3 + 15) % 30
        l == (32 + 2 * (b % 4) + 2 * (c \div 4) - h - (c % 4)) % 7
        n == h + l - 7 * ((a + 11 * h + 22 * l) \div 451) + 114
    IN dayNumber(y, n \div 31, (n % 31) + 1)

holidaysForYear(y) ==
    {observed(y, 1, 1), nthWeekday(y, 1, 1, 3), nthWeekday(y, 2, 1, 3), easterSunday(y) - 2,
     lastWeekday(y, 5, 1), observed(y, 7, 4), nthWeekday(y, 9, 1, 1), nthWeekday(y, 11, 4, 4),
     observed(y, 12, 25)} \cup (IF y >= 2022 THEN {observed(y, 6, 19)} ELSE {})

isTradingDay(day) == weekdayOf(day) \notin Weekend /\ day \notin holidaysForYear(yearOf(day))

----------------------------------------------------------------------------
isUsMarketOpen(m) == isTradingDay(m.day) /\ OpenMinutes <= m.minutes /\ m.minutes < CloseMinutes

previousTradingSession(day) == Max({d \in day - Stretch .. day - 1 : isTradingDay(d)})

latestSettledSessionDate(m) ==
    IF isTradingDay(m.day) /\ m.minutes >= CloseMinutes THEN m.day ELSE previousTradingSession(m.day)

\* The funds of the day that just settled are out in the evening.
latestPublishedNavDate(m) ==
    LET settled == latestSettledSessionDate(m)
    IN IF settled = m.day /\ m.minutes < NavCutoff THEN previousTradingSession(settled) ELSE settled

lastSessionDate(m) ==
    IF isTradingDay(m.day) /\ m.minutes >= OpenMinutes THEN m.day ELSE previousTradingSession(m.day)

\* The count last sessions, as the set of their days; a week of days each is plenty.
recentTradingSessions(count, m) ==
    LET days == {d \in m.day - Stretch * count .. lastSessionDate(m) : isTradingDay(d)}
    IN {d \in days : Cardinality({e \in days : e > d}) < count}

\* How many sessions have settled after a day, up to a cap.
settledSessionsSince(from, m, cap) ==
    LET settled == latestSettledSessionDate(m)
        nth[n \in 0 .. cap] == IF n = 0 THEN settled ELSE previousTradingSession(nth[n - 1])
    IN Cardinality({n \in 0 .. cap - 1 : nth[n] > from})

\* On the exchange's own clock: its offset from UTC (exchangeWallToUtcMs) is left out.
sessionOpen(day) == Instant(day, OpenMinutes)
sessionClose(day) == Instant(day, CloseMinutes)
nextSessionClose(m) ==
    LET days == {d \in m.day .. m.day + Stretch : isTradingDay(d) /\ sessionClose(d) > At(m)}
    IN sessionClose(Min(days))

elapsedSession(m) == LET e == At(m) - sessionOpen(lastSessionDate(m)) IN IF e > 0 THEN e ELSE 0
sessionIsWarmingUp(m) == elapsedSession(m) < BarInterval
isNavFallbackAllowed(m) == At(m) - sessionClose(latestSettledSessionDate(m)) >= NavFallbackWait

----------------------------------------------------------------------------
(* The currency market rests from Friday to Sunday evening. *)
isForexMarketOpen(m) ==
    LET wd == weekdayOf(m.day)
    IN ~(wd = 6 \/ (wd = 5 /\ m.minutes >= ForexBoundary) \/ (wd = 0 /\ m.minutes < ForexBoundary))
forexMarketReopen(m) == Instant(CHOOSE d \in m.day .. m.day + 6 : weekdayOf(d) = 0, ForexBoundary)
lastForexReopen(m) == Instant(CHOOSE d \in m.day - 6 .. m.day : weekdayOf(d) = 0, ForexBoundary)

\* The currency trades again and the exchange has not since.
isWeekendOvernight(m) ==
    /\ ~isUsMarketOpen(m) /\ isForexMarketOpen(m)
    /\ sessionOpen(lastSessionDate(m)) < lastForexReopen(m)

----------------------------------------------------------------------------
\* The days on which the exchange published to be closed.
Published(y) ==
    {dayNumber(y, d[1], d[2]) : d \in
       CASE y = 2021 -> {<<1, 1>>, <<1, 18>>, <<2, 15>>, <<4, 2>>, <<5, 31>>, <<7, 5>>, <<9, 6>>, <<11, 25>>, <<12, 24>>}
         [] y = 2022 -> {<<1, 17>>, <<2, 21>>, <<4, 15>>, <<5, 30>>, <<6, 20>>, <<7, 4>>, <<9, 5>>, <<11, 24>>, <<12, 26>>}
         [] y = 2023 -> {<<1, 2>>, <<1, 16>>, <<2, 20>>, <<4, 7>>, <<5, 29>>, <<6, 19>>, <<7, 4>>, <<9, 4>>, <<11, 23>>,
                         <<12, 25>>}
         [] y = 2024 -> {<<1, 1>>, <<1, 15>>, <<2, 19>>, <<3, 29>>, <<5, 27>>, <<6, 19>>, <<7, 4>>, <<9, 2>>, <<11, 28>>,
                         <<12, 25>>}}
PublishedYears == 2021 .. 2024

\* The rules close the exchange on the weekdays it published, and on no other
\* (market-hours.ts holidaysForYear).
HolidaysRight(y, closings) ==
    \A day \in dayNumber(y, 1, 1) .. dayNumber(y, 12, 31) :
        isTradingDay(day) <=> weekdayOf(day) \notin Weekend /\ day \notin closings

\* The clock's answers fit together at every minute: the funds published, the session
\* settled and the session begun are at most one session apart and in this order, the
\* next close is of the session after the settled one, the market is open exactly
\* between the two, and the settled sessions are counted from any day before.
SessionsConsistent(m) ==
    LET settled == latestSettledSessionDate(m)
        last == lastSessionDate(m)
        following == CHOOSE d \in m.day .. m.day + Stretch : sessionClose(d) = nextSessionClose(m)
        Between(a, b) == {d \in a + 1 .. b : isTradingDay(d)}
    IN /\ Cardinality(Between(latestPublishedNavDate(m), settled)) \in {0, 1}
       /\ previousTradingSession(following) = settled
       /\ last \in {settled, following}
       /\ isUsMarketOpen(m) <=> last = following
       /\ \A back \in 0 .. Stretch :
             settledSessionsSince(settled - back, m, 7) = Min({7, Cardinality(Between(settled - back, settled))})
       /\ isWeekendOvernight(m) => sessionClose(last) < lastForexReopen(m)
=============================================================================
