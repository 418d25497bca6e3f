---------------------------- MODULE CloseProbes ----------------------------
(***************************************************************************)
(* How the companion decides that a day's bars are all there will be       *)
(* (web/src/close-completeness.ts) and parks a dead series (live-graph.ts).*)
(* A series is the instant of its newest bar, NoBars when it has none.      *)
(***************************************************************************)
EXTENDS Integers

CONSTANTS
    Close,      \* the session's close, an instant of the bars' clock
    Tol,        \* INTRADAY_BAR_INTERVAL_MS, on the same clock
    Hour,       \* HOUR_MS, on the wall clock
    ProbeMin,   \* PROBE_MIN_MS
    Agreements, \* AGREEMENTS_TO_SETTLE
    Strikes,    \* DEFAULT_SERIES_BACKOFF_ATTEMPTS
    Cooldown    \* DEFAULT_SERIES_BACKOFF_MS

ASSUME ProbesAssumption ==
    /\ Close \in Nat /\ Tol \in Nat /\ Close > Tol
    /\ Hour \in Nat \ {0} /\ ProbeMin \in Nat /\ Agreements \in Nat \ {0}
    /\ Strikes \in Nat \ {0} /\ Cooldown \in Nat

NoBars == 0
Never == -1
NoProbe == [lastBarAt |-> NoBars, sources |-> 0, agreements |-> 0, settled |-> FALSE, lastAttemptAt |-> Never]
Attempted(tip, sources, agreements, at) ==
    [lastBarAt |-> tip, sources |-> sources, agreements |-> agreements,
     settled |-> agreements >= Agreements, lastAttemptAt |-> at]

sessionBarsComplete(tip) == tip # NoBars /\ tip >= Close - Tol
nextFullHourStart(t) == (t \div Hour) * Hour + Hour

\* MUTANT: an agreement is confirmed as soon as anything else is probed.
closeProbeReady_Flat(p, now) == p = NoProbe \/ now - p.lastAttemptAt >= ProbeMin

\* A provisional agreement is confirmed in the next full hour, the rest is spaced.
closeProbeReady(p, now) ==
    \/ p = NoProbe
    \/ p.sources = 2 /\ ~p.settled /\ now >= nextFullHourStart(p.lastAttemptAt)
    \/ ~(p.sources = 2 /\ ~p.settled) /\ now - p.lastAttemptAt >= ProbeMin

----------------------------------------------------------------------------
NoStrike == [fails |-> 0, armedAt |-> Never]
Elapsed(e, now) == e.armedAt # Never /\ now - e.armedAt >= Cooldown
suppressed(e, now) == e.armedAt # Never /\ e.fails >= Strikes /\ ~Elapsed(e, now)

\* MUTANT: the strikes are counted and never parked.
fail_Unarmed(e, now) == [e EXCEPT !.fails = @ + 1]

\* A cooldown that has passed starts the count over.
fail(e, now) ==
    LET fails == (IF Elapsed(e, now) THEN 0 ELSE e.fails) + 1
        armedAt == IF Elapsed(e, now) THEN Never ELSE e.armedAt
    IN [fails |-> fails, armedAt |-> IF fails >= Strikes THEN now ELSE armedAt]

----------------------------------------------------------------------------
(* What one resolution writes: bars, a probe, or the end of the probe; and what *)
(* it tells the backoff.                                                        *)
Nothing == [tip |-> NoBars, probe |-> NoProbe, clear |-> FALSE]
Reached(tip) == [tip |-> tip, probe |-> NoProbe, clear |-> TRUE]
Found(tip, probe) == [tip |-> tip, probe |-> probe, clear |-> FALSE]

prevTipOf(p, stored) == IF p # NoProbe THEN p.lastBarAt ELSE stored
Advances(tip, beyond) == tip # NoBars /\ tip > beyond + Tol
Agree(a, b) == a # NoBars /\ b # NoBars /\ a - b <= Tol /\ b - a <= Tol

\* The first provider's answer is enough if it reached the close or moved on.
Escalates(a, p, stored) == ~sessionBarsComplete(a) /\ ~Advances(a, prevTipOf(p, stored))
ResolvedByFirst(a, now) == IF sessionBarsComplete(a) THEN Reached(a) ELSE Found(a, Attempted(a, 1, 0, now))

\* The second's settles the rest; no answer of either is an outage.
ResolvedBySecond(a, b, p, stored, now) ==
    CASE sessionBarsComplete(b) -> Reached(b)
      [] ~sessionBarsComplete(b) /\ b # NoBars /\ (a = NoBars \/ b > a + Tol) ->
            Found(b, Attempted(b, 1, 0, now))
      [] ~sessionBarsComplete(b) /\ Agree(a, b) -> Found(a, Attempted(a, 2, p.agreements + 1, now))
      [] OTHER -> Found(NoBars, IF a = NoBars THEN Attempted(prevTipOf(p, stored), 0, 0, now)
                                ELSE Attempted(a, 1, 0, now))

\* A success clears the strikes, a step on the way leaves them.
Scored(e, a, b, found, now) ==
    IF found.clear \/ found.probe.settled THEN NoStrike
    ELSE IF found.tip = NoBars THEN fail(e, now) ELSE e
=============================================================================
