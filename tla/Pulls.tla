------------------------------- MODULE Pulls -------------------------------
(***************************************************************************)
(* The companion's price pulls (web/src/app.ts refreshPrices and the login *)
(* warm-up, quotes.ts, tiingo-fallback.ts): several run at once over the   *)
(* same ledgers, breakers and quote cache.  A pull takes the EUR/USD leg,  *)
(* the Twelve Data quotes (one call for the market symbols, then one for   *)
(* the funds), the Tiingo backup, and Twelve Data again for what a pull    *)
(* through Tiingo alone left open.                                         *)
(*                                                                         *)
(* JavaScript runs one turn at a time: an action is what happens between   *)
(* two awaits.  Retries of a failing call are part of the time the call    *)
(* takes.  Which symbols the cache still serves, which of a list fit a     *)
(* grant and which the backup takes are any; that they are as many as the  *)
(* budget pays for is not.                                                 *)
(***************************************************************************)
EXTENDS Credits

CONSTANTS
    PullIds,    \* pulls that may run
    Symbols,    \* what is held
    NavSymbols, \* those priced once a day
    plan        \* what each pull is asked for: symbols, the currency pair or not,
                \* through Tiingo alone or not, and the Tiingo credits it must leave

ASSUME PullsAssumption ==
    /\ IsFiniteSet(PullIds) /\ IsFiniteSet(Symbols) /\ NavSymbols \subseteq Symbols
    /\ plan \in [PullIds -> [want : SUBSET Symbols, fx : BOOLEAN, via : BOOLEAN, keep : Nat]]

Phases == {"idle", "fx", "fxTd", "fxBackup", "fxTi", "quotes", "market", "nav",
           "fallback", "backup", "net", "done"}
Report == [fetched : SUBSET Symbols, fresh : SUBSET Symbols,
           deferred : SUBSET Symbols, failed : SUBSET Symbols]
Flight == [n : Nat, at : Time, ask : SUBSET Symbols, got : SUBSET Symbols,
           fresh : SUBSET Symbols, open : SUBSET Symbols]

VARIABLES
    clock,      \* Date.now()
    ledger,     \* the credit log of each provider, in localStorage
    breaker,    \* the breaker of each provider, in localStorage
    cached,     \* the symbols the quote cache holds a price of
    phase,      \* how far each pull is
    netting,    \* the pulls in their second Twelve Data pass
    report,     \* the QuoteLoadReport of each pull
    flight,     \* the call each pull waits for: the credits it holds, the "now" the
                \* backup keeps for its refund, what was asked for, what the market
                \* call brought, what the cache served and what got no credit
    billed,     \* history: how many credits each provider took
    over        \* history: whether Tiingo ever answered 429

vars == <<clock, ledger, breaker, cached, phase, netting, report, flight, billed, over>>

NoReport == [fetched |-> {}, fresh |-> {}, deferred |-> {}, failed |-> {}]
NoFlight == [n |-> 0, at |-> 0, ask |-> {}, got |-> {}, fresh |-> {}, open |-> {}]

Init ==
    /\ clock = 0
    /\ ledger = [v \in Providers |-> EmptyLedger]
    /\ breaker = [v \in Providers |-> [frozenUntil |-> 0, streak |-> 0]]
    /\ cached = {}
    /\ phase = [p \in PullIds |-> "idle"]
    /\ netting = {}
    /\ report = [p \in PullIds |-> NoReport]
    /\ flight = [p \in PullIds |-> NoFlight]
    /\ billed = [v \in Providers |-> 0]
    /\ over = FALSE

Spendable(v) == available(v, ledger[v], breaker[v].frozenUntil, clock)

\* Read the budget and book what it grants, in one turn.
Reserve(v, n) == ledger' = [ledger EXCEPT ![v] = recordCredits(@, n, clock)]
Release(v, n, t) == ledger' = [ledger EXCEPT ![v] = releaseCredits(@, n, t)]
Bill(v, n) == billed' = [billed EXCEPT ![v] = @ + n]

\* What a caller does with a refusal that carries status 429.
Arm(v) == breaker' = [breaker EXCEPT ![v] = record429(v, @, clock)]

Goto(p, to) == phase' = [phase EXCEPT ![p] = to]
InFlight(p, n, at, ask, fresh, open) ==
    flight' = [flight EXCEPT ![p] = [n |-> n, at |-> at, ask |-> ask, got |-> {},
                                     fresh |-> fresh, open |-> open]]
Landed(p) == flight' = [flight EXCEPT ![p] = NoFlight]

----------------------------------------------------------------------------
Begin(p) ==
    /\ phase[p] = "idle"
    /\ Goto(p, "fx")
    /\ UNCHANGED <<clock, ledger, breaker, cached, netting, report, flight, billed, over>>

\* The currency leg is off, its cache is fresh, or the forex market is shut.
FxRests(p) ==
    /\ phase[p] = "fx"
    /\ Goto(p, "quotes")
    /\ UNCHANGED <<clock, ledger, breaker, cached, netting, report, flight, billed, over>>

\* EUR/USD from Twelve Data if a credit is left, from Tiingo otherwise.
FxPull(p) ==
    /\ phase[p] = "fx" /\ plan[p].fx
    /\ IF Spendable("twelvedata") >= 1
       THEN Reserve("twelvedata", 1) /\ InFlight(p, 1, 0, {}, {}, {}) /\ Goto(p, "fxTd")
       ELSE UNCHANGED <<ledger, flight>> /\ Goto(p, "fxBackup")
    /\ UNCHANGED <<clock, breaker, cached, netting, report, billed, over>>

\* A rate, an answer without one, or a refusal, which hands the credit back.  No
\* caller of loadEurUsd tells the breaker of a 429.
FxAnswers(p, v, next) ==
    /\ Landed(p)
    /\ \/ /\ Bill(v, flight[p].n)
          /\ \E to \in {"quotes", next} : Goto(p, to)
          /\ UNCHANGED <<ledger, over>>
       \/ /\ Release(v, flight[p].n, clock)
          /\ over' \in {over, over \/ v = "tiingo"}
          /\ Goto(p, next)
          /\ UNCHANGED billed
    /\ UNCHANGED <<clock, breaker, cached, netting, report>>

FxTdAnswers(p) == phase[p] = "fxTd" /\ FxAnswers(p, "twelvedata", "fxBackup")
FxTiAnswers(p) == phase[p] = "fxTi" /\ FxAnswers(p, "tiingo", "quotes")

FxBackup(p) ==
    /\ phase[p] = "fxBackup"
    /\ IF Spendable("tiingo") >= 1
       THEN Reserve("tiingo", 1) /\ InFlight(p, 1, 0, {}, {}, {}) /\ Goto(p, "fxTi")
       ELSE UNCHANGED <<ledger, flight>> /\ Goto(p, "quotes")
    /\ UNCHANGED <<clock, breaker, cached, netting, report, billed, over>>

----------------------------------------------------------------------------
\* MUTANT: what the backup priced stays among the deferred.
absorbTiingoFallback_Keeps(r, filled) ==
    [r EXCEPT !.fetched = @ \cup filled, !.failed = @ \ filled]

\* What the backup priced is no longer outstanding.
absorbTiingoFallback(r, filled) ==
    [r EXCEPT !.fetched = @ \cup filled, !.deferred = @ \ filled, !.failed = @ \ filled]

\* What the second Twelve Data pass priced, and what it could not price either.
absorbSafetyNet(r, net) ==
    [r EXCEPT !.fetched = @ \cup net.fetched,
              !.deferred = @ \ (net.fetched \cup net.failed),
              !.failed = @ \cup (net.failed \cap (r.deferred \ net.fetched))]

\* loadQuotes returned r: the first pass is followed by the backup, the safety net by nothing.
Delivered(p, r, again) ==
    IF again THEN report' = [report EXCEPT ![p] = absorbSafetyNet(@, r)] /\ Goto(p, "done")
               ELSE report' = [report EXCEPT ![p] = r] /\ Goto(p, "fallback")

\* A report of nothing fetched.
Unpriced(fresh, deferred, failed) ==
    [fetched |-> {}, fresh |-> fresh, deferred |-> deferred, failed |-> failed]

\* loadQuotes up to its first await: what the cache serves, then as much of the
\* rest as the budget grants, booked in the same turn.
LoadQuotes(p, want, budget, again) ==
    \E fresh \in SUBSET (want \cap cached) :
       LET stale == want \ fresh
           granted == Least(Cardinality(stale), budget)
       IN \E ask \in {s \in SUBSET stale : Cardinality(s) = granted} :
             IF granted = 0
             THEN /\ Delivered(p, Unpriced(fresh, stale, {}), again)
                  /\ UNCHANGED <<ledger, flight>>
             ELSE /\ Reserve("twelvedata", granted)
                  /\ InFlight(p, granted, 0, ask, fresh, stale \ ask)
                  /\ Goto(p, IF ask \subseteq NavSymbols THEN "nav" ELSE "market")
                  /\ UNCHANGED report

\* A pull through the backup passes no key and is served from the cache alone.
Quotes(p) ==
    /\ phase[p] = "quotes"
    /\ LoadQuotes(p, plan[p].want, IF plan[p].via THEN 0 ELSE Spendable("twelvedata"), FALSE)
    /\ UNCHANGED <<clock, breaker, cached, netting, billed, over>>

\* Everything asked for was answered: the priced symbols are cached and counted.
QuotesLand(p, got) ==
    LET f == flight[p]
    IN /\ cached' = cached \cup got
       /\ Delivered(p, [fetched |-> got, fresh |-> f.fresh, deferred |-> f.open,
                        failed |-> f.ask \ got], p \in netting)
       /\ Landed(p)

MarketAnswers(p) ==
    /\ phase[p] = "market"
    /\ LET market == flight[p].ask \ NavSymbols
       IN /\ Bill("twelvedata", Cardinality(market))
          /\ \E got \in SUBSET market :
                IF flight[p].ask = market
                THEN QuotesLand(p, got)
                ELSE /\ flight' = [flight EXCEPT ![p].got = got]
                     /\ Goto(p, "nav")
                     /\ UNCHANGED <<cached, report>>
    /\ UNCHANGED <<clock, ledger, breaker, netting, over>>

NavAnswers(p) ==
    /\ phase[p] = "nav"
    /\ LET funds == flight[p].ask \cap NavSymbols
       IN /\ Bill("twelvedata", Cardinality(funds))
          /\ \E got \in SUBSET funds : QuotesLand(p, flight[p].got \cup got)
    /\ UNCHANGED <<clock, ledger, breaker, netting, over>>

\* A call is refused.  The whole grant is handed back and nothing of the pull is
\* kept, whatever the other call brought.  A pull whose session is gone says
\* nothing to the breaker and stops; so does a first pass refused for its key.
QuotesFail(p) ==
    /\ phase[p] \in {"market", "nav"}
    /\ Release("twelvedata", flight[p].n, clock)
    /\ Landed(p)
    /\ LET f == flight[p]
           none == Unpriced(f.fresh, f.open, f.ask)
       IN \/ /\ Arm("twelvedata") \/ UNCHANGED breaker
             /\ Delivered(p, none, p \in netting)
          \/ /\ report' = [report EXCEPT ![p] = NoReport]
             /\ Goto(p, "done")
             /\ UNCHANGED breaker
    /\ UNCHANGED <<clock, cached, netting, billed, over>>

----------------------------------------------------------------------------
\* The safety net catches what a pull through Tiingo alone left open.
AfterBackup(p, r) ==
    /\ report' = [report EXCEPT ![p] = r]
    /\ Goto(p, IF plan[p].via /\ r.deferred # {} THEN "net" ELSE "done")

\* runTiingoFallback up to its await.  Candidates for which the budget has no
\* room make an error with status 429 of its own, and the caller arms the
\* breaker with it as with any other.
Fallback(p) ==
    /\ phase[p] = "fallback"
    /\ LET room == tiingoRemaining(ledger["tiingo"], breaker["tiingo"].frozenUntil, clock, plan[p].keep)
       IN \E candidates \in SUBSET plan[p].want :
             IF candidates = {} \/ room = 0
             THEN /\ IF candidates = {} THEN UNCHANGED breaker ELSE Arm("tiingo")
                  /\ AfterBackup(p, report[p])
                  /\ UNCHANGED <<ledger, flight>>
             ELSE /\ \E ask \in SUBSET candidates :
                        /\ Cardinality(ask) = Least(Cardinality(candidates), room)
                        /\ Reserve("tiingo", Cardinality(ask))
                        /\ InFlight(p, Cardinality(ask), clock, ask, {}, {})
                  /\ Goto(p, "backup")
                  /\ UNCHANGED <<breaker, report>>
    /\ UNCHANGED <<clock, cached, netting, billed, over>>

BackupAnswers(p) ==
    /\ phase[p] = "backup"
    /\ Bill("tiingo", flight[p].n)
    /\ \E gained \in SUBSET flight[p].ask :
          /\ cached' = cached \cup gained
          /\ AfterBackup(p, absorbTiingoFallback(report[p], gained))
    /\ Landed(p)
    /\ UNCHANGED <<clock, ledger, breaker, netting, over>>

\* The refund is booked at the instant of the charge.
BackupFails(p) ==
    /\ phase[p] = "backup"
    /\ Release("tiingo", flight[p].n, flight[p].at)
    /\ \/ Arm("tiingo") /\ over' = TRUE
       \/ UNCHANGED <<breaker, over>>
    /\ AfterBackup(p, report[p])
    /\ Landed(p)
    /\ UNCHANGED <<clock, cached, netting, billed>>

SafetyNet(p) ==
    /\ phase[p] = "net"
    /\ netting' = netting \cup {p}
    /\ LoadQuotes(p, report[p].deferred, Spendable("twelvedata"), TRUE)
    /\ UNCHANGED <<clock, breaker, cached, billed, over>>

\* A pull whose session was locked returns null after its await.
Leave(p) ==
    /\ phase[p] \in {"quotes", "fallback", "net"}
    /\ report' = [report EXCEPT ![p] = NoReport]
    /\ Goto(p, "done")
    /\ UNCHANGED <<clock, ledger, breaker, cached, netting, flight, billed, over>>

PassTime ==
    /\ clock < MaxTime
    /\ clock' = clock + 1
    /\ UNCHANGED <<ledger, breaker, cached, phase, netting, report, flight, billed, over>>

Next ==
    \/ PassTime
    \/ \E p \in PullIds :
          \/ Begin(p) \/ FxRests(p) \/ FxPull(p) \/ FxTdAnswers(p) \/ FxBackup(p) \/ FxTiAnswers(p)
          \/ Quotes(p) \/ MarketAnswers(p) \/ NavAnswers(p) \/ QuotesFail(p)
          \/ Fallback(p) \/ BackupAnswers(p) \/ BackupFails(p) \/ SafetyNet(p) \/ Leave(p)

Spec == Init /\ [][Next]_vars

----------------------------------------------------------------------------
\* Every variable has its type, for the ledgers, breakers, pulls and histories.
TypeOK ==
    /\ clock \in Time
    /\ ledger \in [Providers -> Ledger]
    /\ breaker \in [Providers -> Breaker]
    /\ cached \subseteq Symbols
    /\ phase \in [PullIds -> Phases]
    /\ netting \subseteq PullIds
    /\ report \in [PullIds -> Report]
    /\ flight \in [PullIds -> Flight]
    /\ billed \in [Providers -> Nat]
    /\ over \in BOOLEAN

\* The credits of v that calls on their way still hold.
TdPhases == {"fxTd", "market", "nav"}
TiPhases == {"fxTi", "backup"}
HeldBy(p, v) ==
    IF phase[p] \in (IF v = "twelvedata" THEN TdPhases ELSE TiPhases) THEN 1 .. flight[p].n ELSE {}
Held(v) == Cardinality(UNION {{p} \X HeldBy(p, v) : p \in PullIds})

\* "A failed call leaving phantom credits booked" (quotes.ts 606-609) does not
\* happen: the ledgers never hold more than the providers took and the calls on
\* their way may still cost; Tiingo's holds exactly that.
LedgerTruthful ==
    /\ Net(ledger["twelvedata"], 0, MaxTime)
          <= billed["twelvedata"] + Held("twelvedata")
    /\ Net(ledger["tiingo"], 0, MaxTime) = billed["tiingo"] + Held("tiingo")

\* However the pulls overlap, a minute never sees more Twelve Data grants than
\* the cap and what was handed back in two minutes, and an hour never more
\* Tiingo grants than its cap and what was handed back in it: no two loads
\* spend the same credit (quotes.ts 543-552).
GrantsPaced ==
    /\ \A t \in Time :
          Sum(ledger["twelvedata"].spent, t - Minute + 1, t)
             <= TdCap + Sum(ledger["twelvedata"].back, t - 2 * Minute + 1, t)
    /\ \A t \in Time :
          Sum(ledger["tiingo"].spent, startOfHour(t), t)
             <= TiCap + Sum(ledger["tiingo"].back, startOfHour(t), t)

\* What a pull priced, by whichever provider, is not reported as deferred or
\* failed, and what it reports as priced is in the cache: the scheduler never
\* bursts for a price it already has (app.ts absorbTiingoFallback).
Airtight ==
    \A p \in PullIds :
       /\ (report[p].fetched \cup report[p].fresh) \cap (report[p].deferred \cup report[p].failed) = {}
       /\ report[p].fetched \cup report[p].fresh \subseteq cached

\* A wait for the minute's whole pool ends with the whole pool, unless a credit
\* is booked meanwhile (reservation.ts twelveDataMinuteReadyDelayMs).
WaitFillsMinute ==
    LET d == twelveDataMinuteReadyDelay(ledger["twelvedata"], clock)
    IN d <= Minute /\ creditsSpentWithin(ledger["twelvedata"], clock + d) <= 0

\* Tiingo is frozen only by a 429 of Tiingo's (app.ts armTiingo429).  TLC refutes it: a
\* pull that must leave a credit untouched raises a 429 of its own.
FreezeEarned == breaker["tiingo"].frozenUntil > clock => over
=============================================================================
