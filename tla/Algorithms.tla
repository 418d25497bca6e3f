----------------------------- MODULE Algorithms -----------------------------
(***************************************************************************)
(* What the companion's pure algorithms promise of one case, a record of    *)
(* the algorithm (of) and its input.                                        *)
(***************************************************************************)
EXTENDS Coverage, PullPlans, FanOut, Allocation, Valuation

VARIABLE case

\* The rules close the exchange on its published closings and on no other weekday, and the
\* clock's answers fit together at every moment (market-hours.ts).
CalendarRight ==
    /\ case.of = "year" => HolidaysRight(case.y, Published(case.y))
    /\ case.of = "moment" => SessionsConsistent(case.m)

\* The cache, the tap and the list of outdated symbols agree on what is due (quotes.ts, app.ts).
VerdictsAgree == case.of = "entry" => OneVerdict(case.e, case.x)

\* The headline says "up to date" exactly when the scheduler rests, and every value has a
\* source (app.ts summarizeCoverage, coverage-check.ts).
HeadlineHonest ==
    /\ case.of = "painted" => HeadlineTrue(case.p, case.x, Interval, 1)
    /\ case.of = "cell" => NeverUncovered(case.m, case.f, case.b)

\* What is older than the interval is in the plan of the next scheduled pull, nothing is
\* paid for twice, and the delays between rounds serve both (data-orchestrator.ts planPull,
\* refresh-policy.ts); then every symbol has one place, and no provider more than it can
\* take (provider-fanout.ts planFanout, tiingo-fallback.ts planStartupRefresh,
\* tiingo-gate.ts decideNav).
PlansRight ==
    /\ case.of = "plan" => NothingStarves(case.k, case.i) /\ NothingTwice(case.k, case.i)
    /\ case.of = "delay" => DelaysSound(case.d)
    /\ case.of = "fanout" => /\ FanoutSound(case.k, case.m, case.f, case.d, case.t, case.b, case.s)
                          /\ StartupSound(Len(case.m \o case.f), case.t, case.b)
    /\ case.of = "chase" => ChaseSound(case.n, case.p, case.t, case.k, FirstProbe + ProbeGrace, case.r, case.q)

\* The day's move is measured from one baseline whatever quotes have arrived, the board
\* ranks what moved on one day, and the cache keeps prices and the closes before them
\* together except as primeQuotesFromBars does (compute.ts buildDashboard, buildMovers;
\* cache.ts).
MoveHonest ==
    /\ case.of = "book" =>
          /\ BaselineTrue(case.v, case.b, case.r, case.started, previousTradingSession(case.started), case.prices)
          /\ \A k \in Currencies : BoardTrue(case.v, case.r, k)
    /\ case.of = "arrival" => CacheTrue(case.cached, case.a, case.now, case.closes)

\* The calculator's orders spend what there is, never sell when only buying, and fund what
\* lacks first (allocation.ts).
OrdersSound == case.of = "form" => OrdersRight(case.f)
=============================================================================
