---------------------------- MODULE PullsProofs ----------------------------
(***************************************************************************)
(* Proofs about Pulls, for any finite number of pulls and symbols and any  *)
(* budget.                                                                 *)
(*                                                                         *)
(* 1. What was priced is not chased again (Airtight).  Inductive: the      *)
(*    parts of a call on its way exclude one another, what the cache       *)
(*    served stays in the cache, and a call of the second Twelve Data pass *)
(*    asks only for what the first left deferred.  Nothing is needed of    *)
(*    the ledgers and the breakers.                                        *)
(* 2. What Sum does: by induction on the instant, as the least instant at  *)
(*    which a claim fails.                                                 *)
(* 3. Types (TypeOK), and what a step may book: a grant within what the    *)
(*    minute or the hour leaves, or a refund no later than now.            *)
(* 4. Pacing (GrantsPaced) and waits (WaitFillsMinute): nothing is booked  *)
(*    ahead of the clock, so the minute a grant is read from is the        *)
(*    fullest of those it falls in.                                        *)
(* 5. Truthful ledgers (LedgerTruthful): a call still owes what of its     *)
(*    grant is not billed yet.                                             *)
(***************************************************************************)
EXTENDS Pulls, FiniteSetTheorems, TLAPS

\* 1. What was priced.
Parts == {"n", "at", "ask", "got", "fresh", "open"}

Shapes ==
    /\ phase \in [PullIds -> Phases]
    /\ report \in [PullIds -> Report]
    /\ DOMAIN flight = PullIds
    /\ \A p \in PullIds : DOMAIN flight[p] = Parts

\* The call a pull waits for.
FlightOK(p) ==
    /\ flight[p].ask \subseteq Symbols /\ flight[p].open \subseteq Symbols
    /\ flight[p].got \subseteq flight[p].ask
    /\ flight[p].fresh \subseteq Symbols \cap cached
    /\ flight[p].fresh \cap (flight[p].ask \cup flight[p].open) = {}
    /\ flight[p].ask \cap flight[p].open = {}

ReportOK(p) ==
    /\ (report[p].fetched \cup report[p].fresh) \cap (report[p].deferred \cup report[p].failed) = {}
    /\ report[p].deferred \cap report[p].failed = {}
    /\ report[p].fetched \cup report[p].fresh \subseteq cached

NetOK(p) ==
    p \in netting => /\ phase[p] \in {"market", "nav", "done"}
                     /\ phase[p] # "done" => flight[p].ask \subseteq report[p].deferred

QuoteFlight(p) == phase[p] \in {"market", "nav"} => FlightOK(p)
BackupFlight(p) == phase[p] = "backup" => flight[p].ask \subseteq Symbols

PullOK(p) == QuoteFlight(p) /\ BackupFlight(p) /\ ReportOK(p) /\ NetOK(p)
PullsInv == Shapes /\ \A p \in PullIds : PullOK(p)

LEMMA AirtightOfInv == PullsInv => Airtight
  BY DEF PullsInv, PullOK, ReportOK, Airtight

LEMMA PullsInit == Init => PullsInv
  BY DEF Init, PullsInv, PullOK, Shapes, QuoteFlight, BackupFlight, ReportOK, NetOK, FlightOK, Phases,
     Report, NoReport, NoFlight, Parts

----------------------------------------------------------------------------
\* What does not touch the pulls and forgets no price keeps the invariant.
LEMMA PullsRest ==
    ASSUME PullsInv, UNCHANGED <<cached, phase, netting, report, flight>> PROVE PullsInv'
  BY DEF PullsInv, PullOK, Shapes, QuoteFlight, BackupFlight, ReportOK, NetOK, FlightOK

\* A step of one pull: the others keep theirs, whatever it adds to the cache.
LEMMA PullsFrame ==
    ASSUME PullsInv, NEW p \in PullIds, cached \subseteq cached', Shapes', PullOK(p)',
           \A q \in PullIds \ {p} :
              /\ phase'[q] = phase[q] /\ report'[q] = report[q] /\ flight'[q] = flight[q]
              /\ q \in netting' <=> q \in netting
    PROVE  PullsInv'
  <1>1. ASSUME NEW q \in PullIds, q # p PROVE PullOK(q)'
    <2>1. QuoteFlight(q)'
      BY <1>1 DEF PullsInv, PullOK, QuoteFlight, FlightOK
    <2>2. ReportOK(q)'
      BY <1>1 DEF PullsInv, PullOK, ReportOK
    <2>3. NetOK(q)' /\ BackupFlight(q)'
      BY <1>1 DEF PullsInv, PullOK, NetOK, BackupFlight
    <2> QED
      BY <2>1, <2>2, <2>3 DEF PullOK
  <1> QED
    BY <1>1 DEF PullsInv

\* A report of loadQuotes that may be delivered: a second pass speaks only of what
\* the first left deferred.
Deliverable(p, r, again) ==
    /\ r \in Report
    /\ (r.fetched \cup r.fresh) \cap (r.deferred \cup r.failed) = {}
    /\ r.deferred \cap r.failed = {}
    /\ r.fetched \cup r.fresh \subseteq cached'
    /\ again => r.fetched \cup r.failed \subseteq report[p].deferred

LEMMA DeliveredKeeps ==
    ASSUME PullsInv, NEW p \in PullIds, NEW r, NEW again \in BOOLEAN,
           Deliverable(p, r, again), Delivered(p, r, again),
           cached \subseteq cached', DOMAIN flight' = PullIds,
           DOMAIN flight'[p] = Parts, \A q \in PullIds \ {p} : flight'[q] = flight[q],
           \A q \in PullIds : q \in netting' <=> (q \in netting \/ (q = p /\ again)),
           p \in netting => again
    PROVE  PullsInv'
  <1>1. CASE again
    <2>1. report' = [report EXCEPT ![p] = absorbSafetyNet(@, r)] /\ phase' = [phase EXCEPT ![p] = "done"]
      BY <1>1 DEF Delivered, Goto
    <2>2. absorbSafetyNet(report[p], r) \in Report
      BY DEF absorbSafetyNet, PullsInv, Shapes, Report, Deliverable
    <2>3. Shapes'
      BY <2>1, <2>2 DEF PullsInv, Shapes, Phases
    <2>4. report'[p] = absorbSafetyNet(report[p], r) /\ phase'[p] = "done"
      BY <2>1 DEF PullsInv, Shapes
    <2>5. /\ report'[p].fetched = report[p].fetched \cup r.fetched
          /\ report'[p].fresh = report[p].fresh
          /\ report'[p].deferred = report[p].deferred \ (r.fetched \cup r.failed)
          /\ report'[p].failed = report[p].failed \cup (r.failed \cap (report[p].deferred \ r.fetched))
      BY <2>4 DEF absorbSafetyNet, PullsInv, Shapes, Report
    <2>6. ReportOK(p)'
      BY <2>5, <1>1 DEF PullsInv, PullOK, ReportOK, Deliverable
    <2>7. PullOK(p)'
      BY <2>4, <2>6 DEF PullOK, QuoteFlight, BackupFlight, NetOK
    <2> QED
      BY <2>1, <2>3, <2>7, PullsFrame DEF PullsInv, Shapes
  <1>2. CASE ~ again
    <2>1. report' = [report EXCEPT ![p] = r] /\ phase' = [phase EXCEPT ![p] = "fallback"]
      BY <1>2 DEF Delivered, Goto
    <2>2. Shapes'
      BY <2>1 DEF PullsInv, Shapes, Phases, Deliverable
    <2>3. report'[p] = r /\ phase'[p] = "fallback" /\ p \notin netting'
      BY <2>1, <1>2 DEF PullsInv, Shapes
    <2>4. PullOK(p)'
      BY <2>3 DEF PullOK, QuoteFlight, BackupFlight, ReportOK, NetOK, Deliverable
    <2> QED
      BY <2>1, <2>2, <2>4, <1>2, PullsFrame DEF PullsInv, Shapes
  <1> QED
    BY <1>1, <1>2

----------------------------------------------------------------------------
\* The call a step puts on its way.
LEMMA InFlightGives ==
    ASSUME PullsInv, NEW p \in PullIds, NEW n, NEW at, NEW ask, NEW fresh, NEW open,
           InFlight(p, n, at, ask, fresh, open)
    PROVE  /\ DOMAIN flight' = PullIds /\ DOMAIN flight'[p] = Parts
           /\ \A q \in PullIds \ {p} : flight'[q] = flight[q]
           /\ flight'[p].ask = ask /\ flight'[p].got = {}
           /\ flight'[p].fresh = fresh /\ flight'[p].open = open
  BY DEF PullsInv, Shapes, InFlight, Parts

LEMMA LandedGives ==
    ASSUME PullsInv, NEW p \in PullIds, Landed(p)
    PROVE  /\ DOMAIN flight' = PullIds /\ DOMAIN flight'[p] = Parts
           /\ \A q \in PullIds \ {p} : flight'[q] = flight[q]
  BY DEF PullsInv, Shapes, Landed, NoFlight, Parts

\* loadQuotes, from the round or from the safety net.
LEMMA LoadQuotesKeeps ==
    ASSUME PullsInv, NEW p \in PullIds, NEW want \in SUBSET Symbols, NEW budget, NEW again \in BOOLEAN,
           LoadQuotes(p, want, budget, again), UNCHANGED cached,
           netting' = (IF again THEN netting \cup {p} ELSE netting), p \notin netting,
           again => want \subseteq report[p].deferred
    PROVE  PullsInv'
  <1>1. PICK fresh \in SUBSET (want \cap cached) :
           LET stale == want \ fresh
               granted == Least(Cardinality(stale), budget)
           IN \E ask \in {s \in SUBSET stale : Cardinality(s) = granted} :
                 IF granted = 0
                 THEN /\ Delivered(p, Unpriced(fresh, stale, {}), again)
                      /\ UNCHANGED <<ledger, flight>>
                 ELSE /\ Reserve("twelvedata", granted)
                      /\ InFlight(p, granted, 0, ask, fresh, stale \ ask)
                      /\ Goto(p, IF ask \subseteq NavSymbols THEN "nav" ELSE "market")
                      /\ UNCHANGED report
    BY DEF LoadQuotes
  <1> DEFINE stale == want \ fresh
             granted == Least(Cardinality(stale), budget)
             r == Unpriced(fresh, stale, {})
  <1>2. PICK ask \in SUBSET stale :
           IF granted = 0
           THEN Delivered(p, r, again) /\ UNCHANGED <<ledger, flight>>
           ELSE /\ Reserve("twelvedata", granted)
                /\ InFlight(p, granted, 0, ask, fresh, stale \ ask)
                /\ Goto(p, IF ask \subseteq NavSymbols THEN "nav" ELSE "market")
                /\ UNCHANGED report
    BY <1>1
  <1>3. fresh \subseteq want /\ fresh \subseteq cached /\ ask \subseteq want /\ ask \cap fresh = {}
    OBVIOUS
  <1>4. \A q \in PullIds : q \in netting' <=> (q \in netting \/ (q = p /\ again))
    OBVIOUS
  <1>5. CASE granted = 0
    <2>2. Deliverable(p, r, again)
      BY <1>3 DEF Deliverable, Report, Unpriced
    <2>3. Delivered(p, r, again) /\ flight' = flight
      BY <1>2, <1>5
    <2> HIDE DEF r, stale, granted
    <2> QED
      BY <2>2, <2>3, <1>4, DeliveredKeeps DEF PullsInv, Shapes
  <1>6. CASE granted # 0
    <2>1. /\ InFlight(p, granted, 0, ask, fresh, stale \ ask) /\ report' = report
          /\ \E to \in {"nav", "market"} : phase' = [phase EXCEPT ![p] = to]
      BY <1>2, <1>6 DEF Goto
    <2> HIDE DEF granted
    <2>2. /\ DOMAIN flight' = PullIds /\ DOMAIN flight'[p] = Parts
          /\ \A q \in PullIds \ {p} : flight'[q] = flight[q]
          /\ flight'[p].ask = ask /\ flight'[p].got = {}
          /\ flight'[p].fresh = fresh /\ flight'[p].open = stale \ ask
      BY <2>1, InFlightGives
    <2>3. Shapes'
      BY <2>1, <2>2 DEF PullsInv, Shapes, Phases
    <2>4. phase'[p] \in {"nav", "market"} /\ \A q \in PullIds \ {p} : phase'[q] = phase[q]
      BY <2>1 DEF PullsInv, Shapes
    <2>5. FlightOK(p)'
      BY <2>2, <1>3 DEF FlightOK
    <2>6. NetOK(p)'
      BY <2>1, <2>2, <2>4, <1>3 DEF NetOK
    <2>7. PullOK(p)'
      BY <2>1, <2>4, <2>5, <2>6 DEF PullsInv, PullOK, QuoteFlight, BackupFlight, ReportOK
    <2> QED
      BY <2>1, <2>2, <2>3, <2>4, <2>7, <1>4, PullsFrame
  <1> QED
    BY <1>5, <1>6

LEMMA PullsQuotes == ASSUME PullsInv, NEW p \in PullIds, Quotes(p) PROVE PullsInv'
  <1>1. plan[p].want \subseteq Symbols
    BY PullsAssumption
  <1>2. p \notin netting
    BY DEF PullsInv, PullOK, NetOK, Quotes
  <1> QED
    BY <1>1, <1>2, LoadQuotesKeeps DEF Quotes

LEMMA PullsSafetyNet == ASSUME PullsInv, NEW p \in PullIds, SafetyNet(p) PROVE PullsInv'
  <1>1. report[p].deferred \in SUBSET Symbols
    BY DEF PullsInv, Shapes, Report
  <1>2. p \notin netting
    BY DEF PullsInv, PullOK, NetOK, SafetyNet
  <1> QED
    BY <1>1, <1>2, LoadQuotesKeeps DEF SafetyNet

----------------------------------------------------------------------------
\* The quote calls come back.
LEMMA QuotesLandKeeps ==
    ASSUME PullsInv, NEW p \in PullIds, phase[p] \in {"market", "nav"},
           NEW got \in SUBSET flight[p].ask, QuotesLand(p, got), UNCHANGED netting
    PROVE  PullsInv'
  <1> DEFINE r == [fetched |-> got, fresh |-> flight[p].fresh, deferred |-> flight[p].open,
                   failed |-> flight[p].ask \ got]
  <1>1. /\ cached' = cached \cup got /\ Delivered(p, r, p \in netting) /\ Landed(p)
    BY DEF QuotesLand
  <1>2. FlightOK(p)
    BY DEF PullsInv, PullOK, QuoteFlight
  <1>3. p \in netting => flight[p].ask \subseteq report[p].deferred
    BY DEF PullsInv, PullOK, NetOK
  <1>4. Deliverable(p, r, p \in netting)
    BY <1>1, <1>2, <1>3 DEF Deliverable, FlightOK, Report
  <1> HIDE DEF r
  <1>5. CASE p \in netting
    <2>1. Deliverable(p, r, TRUE) /\ Delivered(p, r, TRUE)
      BY <1>1, <1>4, <1>5 DEF Deliverable, Delivered
    <2> QED
      BY <1>1, <1>5, <2>1, LandedGives, DeliveredKeeps
  <1>6. CASE p \notin netting
    <2>1. Deliverable(p, r, FALSE) /\ Delivered(p, r, FALSE)
      BY <1>1, <1>4, <1>6 DEF Deliverable, Delivered
    <2> QED
      BY <1>1, <1>6, <2>1, LandedGives, DeliveredKeeps
  <1> QED
    BY <1>5, <1>6

LEMMA PullsMarket == ASSUME PullsInv, NEW p \in PullIds, MarketAnswers(p) PROVE PullsInv'
  <1> DEFINE market == flight[p].ask \ NavSymbols
  <1>1. PICK got \in SUBSET market :
           IF flight[p].ask = market
           THEN QuotesLand(p, got)
           ELSE /\ flight' = [flight EXCEPT ![p].got = got]
                /\ Goto(p, "nav")
                /\ UNCHANGED <<cached, report>>
    BY DEF MarketAnswers
  <1>2. phase[p] = "market" /\ netting' = netting /\ got \subseteq flight[p].ask
    BY DEF MarketAnswers
  <1>3. CASE flight[p].ask = market
    BY <1>1, <1>2, <1>3, QuotesLandKeeps
  <1>4. CASE flight[p].ask # market
    <2>1. /\ flight' = [flight EXCEPT ![p].got = got] /\ phase' = [phase EXCEPT ![p] = "nav"]
          /\ cached' = cached /\ report' = report
      BY <1>1, <1>4 DEF Goto
    <2>2. /\ DOMAIN flight' = PullIds /\ DOMAIN flight'[p] = Parts
          /\ \A q \in PullIds \ {p} : flight'[q] = flight[q]
          /\ flight'[p].ask = flight[p].ask /\ flight'[p].got = got
          /\ flight'[p].fresh = flight[p].fresh /\ flight'[p].open = flight[p].open
      BY <2>1 DEF PullsInv, Shapes, Parts
    <2>3. Shapes'
      BY <2>1, <2>2 DEF PullsInv, Shapes, Phases
    <2>4. phase'[p] = "nav" /\ \A q \in PullIds \ {p} : phase'[q] = phase[q]
      BY <2>1 DEF PullsInv, Shapes
    <2>5. FlightOK(p)'
      BY <1>2, <2>1, <2>2 DEF PullsInv, PullOK, QuoteFlight, FlightOK
    <2>6. PullOK(p)'
      BY <1>2, <2>1, <2>2, <2>4, <2>5 DEF PullsInv, PullOK, QuoteFlight, BackupFlight, ReportOK, NetOK
    <2> QED
      BY <1>2, <2>1, <2>2, <2>3, <2>4, <2>6, PullsFrame
  <1> QED
    BY <1>3, <1>4

LEMMA PullsNav == ASSUME PullsInv, NEW p \in PullIds, NavAnswers(p) PROVE PullsInv'
  <1>1. PICK got \in SUBSET (flight[p].ask \cap NavSymbols) : QuotesLand(p, flight[p].got \cup got)
    BY DEF NavAnswers
  <1>2. phase[p] = "nav" /\ netting' = netting
    BY DEF NavAnswers
  <1>3. flight[p].got \cup got \subseteq flight[p].ask
    BY <1>1, <1>2 DEF PullsInv, PullOK, QuoteFlight, FlightOK
  <1> QED
    BY <1>1, <1>2, <1>3, QuotesLandKeeps

LEMMA PullsFail == ASSUME PullsInv, NEW p \in PullIds, QuotesFail(p) PROVE PullsInv'
  <1> DEFINE r == Unpriced(flight[p].fresh, flight[p].open, flight[p].ask)
  <1>1. /\ phase[p] \in {"market", "nav"} /\ Landed(p) /\ cached' = cached /\ netting' = netting
        /\ \/ Delivered(p, r, p \in netting)
           \/ report' = [report EXCEPT ![p] = NoReport] /\ Goto(p, "done")
    BY DEF QuotesFail
  <1>2. FlightOK(p)
    BY <1>1 DEF PullsInv, PullOK, QuoteFlight
  <1>3. CASE Delivered(p, r, p \in netting)
    <2>1. p \in netting => flight[p].ask \subseteq report[p].deferred
      BY <1>1 DEF PullsInv, PullOK, NetOK
    <2>2. Deliverable(p, r, p \in netting)
      BY <1>1, <1>2, <2>1 DEF Deliverable, FlightOK, Report, Unpriced
    <2> HIDE DEF r
    <2>3. CASE p \in netting
      <3>1. Deliverable(p, r, TRUE) /\ Delivered(p, r, TRUE)
        BY <1>3, <2>2, <2>3 DEF Deliverable, Delivered
      <3> QED
        BY <1>1, <2>3, <3>1, LandedGives, DeliveredKeeps
    <2>4. CASE p \notin netting
      <3>1. Deliverable(p, r, FALSE) /\ Delivered(p, r, FALSE)
        BY <1>3, <2>2, <2>4 DEF Deliverable, Delivered
      <3> QED
        BY <1>1, <2>4, <3>1, LandedGives, DeliveredKeeps
    <2> QED
      BY <2>3, <2>4
  <1>4. CASE report' = [report EXCEPT ![p] = NoReport] /\ phase' = [phase EXCEPT ![p] = "done"]
    <2>1. report'[p] = NoReport /\ phase'[p] = "done"
      BY <1>4 DEF PullsInv, Shapes
    <2>2. Shapes'
      BY <1>1, <1>4, LandedGives DEF PullsInv, Shapes, Phases, Report, NoReport
    <2>3. PullOK(p)'
      BY <2>1 DEF PullOK, QuoteFlight, BackupFlight, ReportOK, NetOK, NoReport
    <2> QED
      BY <1>1, <1>4, <2>2, <2>3, LandedGives, PullsFrame DEF PullsInv, Shapes
  <1> QED
    BY <1>1, <1>3, <1>4 DEF Goto

----------------------------------------------------------------------------
\* The currency leg says nothing of the symbols.
LEMMA PullsFx ==
    ASSUME PullsInv, NEW p \in PullIds, phase[p] \in {"idle", "fx", "fxTd", "fxBackup", "fxTi"},
           UNCHANGED <<cached, netting, report>>,
           \E to \in {"fx", "fxTd", "fxBackup", "fxTi", "quotes"} : Goto(p, to),
           \/ UNCHANGED flight
           \/ Landed(p)
           \/ InFlight(p, 1, 0, {}, {}, {})
    PROVE  PullsInv'
  <1>1. /\ DOMAIN flight' = PullIds /\ DOMAIN flight'[p] = Parts
        /\ \A q \in PullIds \ {p} : flight'[q] = flight[q]
    BY LandedGives, InFlightGives DEF PullsInv, Shapes
  <1>2. /\ phase'[p] \in {"fx", "fxTd", "fxBackup", "fxTi", "quotes"}
        /\ \A q \in PullIds \ {p} : phase'[q] = phase[q]
        /\ phase' \in [PullIds -> Phases]
    BY DEF Goto, PullsInv, Shapes, Phases
  <1>3. Shapes'
    BY <1>1, <1>2 DEF PullsInv, Shapes
  <1>4. p \notin netting
    BY DEF PullsInv, PullOK, NetOK
  <1>5. PullOK(p)'
    BY <1>2, <1>4 DEF PullsInv, PullOK, QuoteFlight, BackupFlight, ReportOK, NetOK
  <1> QED
    BY <1>1, <1>2, <1>3, <1>5, PullsFrame

\* The report the backup is done with.
LEMMA AfterBackupKeeps ==
    ASSUME PullsInv, NEW p \in PullIds, p \notin netting, NEW r \in Report, AfterBackup(p, r),
           (r.fetched \cup r.fresh) \cap (r.deferred \cup r.failed) = {},
           r.deferred \cap r.failed = {}, r.fetched \cup r.fresh \subseteq cached',
           cached \subseteq cached', UNCHANGED netting,
           DOMAIN flight' = PullIds, DOMAIN flight'[p] = Parts,
           \A q \in PullIds \ {p} : flight'[q] = flight[q]
    PROVE  PullsInv'
  <1>1. report' = [report EXCEPT ![p] = r] /\ \E to \in {"net", "done"} : phase' = [phase EXCEPT ![p] = to]
    BY DEF AfterBackup, Goto
  <1>2. Shapes'
    BY <1>1 DEF PullsInv, Shapes, Phases
  <1>3. report'[p] = r /\ phase'[p] \in {"net", "done"}
    BY <1>1 DEF PullsInv, Shapes
  <1>4. PullOK(p)'
    BY <1>3 DEF PullOK, QuoteFlight, BackupFlight, ReportOK, NetOK
  <1> QED
    BY <1>1, <1>2, <1>4, PullsFrame DEF PullsInv, Shapes

LEMMA PullsFallback == ASSUME PullsInv, NEW p \in PullIds, Fallback(p) PROVE PullsInv'
  <1>1. p \notin netting /\ cached' = cached /\ netting' = netting
    BY DEF Fallback, PullsInv, PullOK, NetOK
  <1>2. \/ AfterBackup(p, report[p]) /\ flight' = flight
        \/ \E ask \in SUBSET plan[p].want :
              /\ InFlight(p, Cardinality(ask), clock, ask, {}, {})
              /\ Goto(p, "backup") /\ report' = report
    BY DEF Fallback
  <1>3. CASE AfterBackup(p, report[p]) /\ flight' = flight
    <2>1. report[p] \in Report /\ ReportOK(p)
      BY DEF PullsInv, Shapes, PullOK
    <2> QED
      BY <1>1, <1>3, <2>1, AfterBackupKeeps DEF PullsInv, Shapes, ReportOK
  <1>4. ASSUME NEW ask \in SUBSET plan[p].want, InFlight(p, Cardinality(ask), clock, ask, {}, {}),
               Goto(p, "backup"), report' = report
        PROVE  PullsInv'
    <2>1. /\ DOMAIN flight' = PullIds /\ DOMAIN flight'[p] = Parts
          /\ \A q \in PullIds \ {p} : flight'[q] = flight[q]
          /\ flight'[p].ask = ask
      BY <1>4, InFlightGives
    <2>2. /\ phase'[p] = "backup" /\ \A q \in PullIds \ {p} : phase'[q] = phase[q]
          /\ phase' \in [PullIds -> Phases]
      BY <1>4 DEF Goto, PullsInv, Shapes, Phases
    <2>3. Shapes'
      BY <1>4, <2>1, <2>2 DEF PullsInv, Shapes
    <2>4. ask \subseteq Symbols
      BY PullsAssumption
    <2>5. PullOK(p)'
      BY <1>1, <1>4, <2>1, <2>2, <2>4 DEF PullsInv, PullOK, QuoteFlight, BackupFlight, ReportOK, NetOK
    <2> QED
      BY <1>1, <1>4, <2>1, <2>2, <2>3, <2>5, PullsFrame
  <1> QED
    BY <1>2, <1>3, <1>4

LEMMA PullsBackup == ASSUME PullsInv, NEW p \in PullIds, BackupAnswers(p) PROVE PullsInv'
  <1>1. PICK gained \in SUBSET flight[p].ask :
           cached' = cached \cup gained /\ AfterBackup(p, absorbTiingoFallback(report[p], gained))
    BY DEF BackupAnswers
  <1>2. phase[p] = "backup" /\ Landed(p) /\ netting' = netting /\ p \notin netting
    BY DEF BackupAnswers, PullsInv, PullOK, NetOK
  <1>3. gained \subseteq Symbols
    BY <1>2 DEF PullsInv, PullOK, BackupFlight
  <1> DEFINE r == absorbTiingoFallback(report[p], gained)
  <1>4. r \in Report
    BY <1>3 DEF absorbTiingoFallback, PullsInv, Shapes, Report
  <1>5. /\ r.fetched = report[p].fetched \cup gained /\ r.fresh = report[p].fresh
        /\ r.deferred = report[p].deferred \ gained /\ r.failed = report[p].failed \ gained
    BY DEF absorbTiingoFallback, PullsInv, Shapes, Report
  <1>6. ReportOK(p)
    BY DEF PullsInv, PullOK
  <1> HIDE DEF r
  <1> QED
    BY <1>1, <1>2, <1>4, <1>5, <1>6, LandedGives, AfterBackupKeeps DEF ReportOK, r

LEMMA PullsBackupFails == ASSUME PullsInv, NEW p \in PullIds, BackupFails(p) PROVE PullsInv'
  <1>1. /\ p \notin netting /\ Landed(p) /\ cached' = cached /\ netting' = netting
        /\ AfterBackup(p, report[p])
    BY DEF BackupFails, PullsInv, PullOK, NetOK
  <1>2. report[p] \in Report /\ ReportOK(p)
    BY DEF PullsInv, Shapes, PullOK
  <1> QED
    BY <1>1, <1>2, LandedGives, AfterBackupKeeps DEF ReportOK

LEMMA PullsLeave == ASSUME PullsInv, NEW p \in PullIds, Leave(p) PROVE PullsInv'
  <1>1. /\ report' = [report EXCEPT ![p] = NoReport] /\ phase' = [phase EXCEPT ![p] = "done"]
        /\ flight' = flight /\ cached' = cached /\ netting' = netting
    BY DEF Leave, Goto
  <1>2. report'[p] = NoReport /\ phase'[p] = "done"
    BY <1>1 DEF PullsInv, Shapes
  <1>3. Shapes'
    BY <1>1 DEF PullsInv, Shapes, Phases, Report, NoReport
  <1>4. PullOK(p)'
    BY <1>2 DEF PullOK, QuoteFlight, BackupFlight, ReportOK, NetOK, NoReport
  <1> QED
    BY <1>1, <1>3, <1>4, PullsFrame DEF PullsInv, Shapes

----------------------------------------------------------------------------
LEMMA PullsStep == PullsInv /\ [Next]_vars => PullsInv'
  <1> SUFFICES ASSUME PullsInv, [Next]_vars PROVE PullsInv'
    OBVIOUS
  <1>1. CASE PassTime \/ UNCHANGED vars
    BY <1>1, PullsRest DEF PassTime, vars
  <1>2. ASSUME NEW p \in PullIds,
               Begin(p) \/ FxRests(p) \/ FxPull(p) \/ FxTdAnswers(p) \/ FxBackup(p) \/ FxTiAnswers(p)
        PROVE  PullsInv'
    <2>1. CASE Begin(p)
      BY <2>1, PullsFx DEF Begin
    <2>2. CASE FxRests(p)
      BY <2>2, PullsFx DEF FxRests
    <2>3. CASE FxPull(p)
      BY <2>3, PullsFx DEF FxPull
    <2>4. CASE FxTdAnswers(p)
      BY <2>4, PullsFx DEF FxTdAnswers, FxAnswers
    <2>5. CASE FxBackup(p)
      BY <2>5, PullsFx DEF FxBackup
    <2>6. CASE FxTiAnswers(p)
      BY <2>6, PullsFx DEF FxTiAnswers, FxAnswers
    <2> QED
      BY <1>2, <2>1, <2>2, <2>3, <2>4, <2>5, <2>6
  <1>3. ASSUME NEW p \in PullIds,
               \/ Quotes(p) \/ MarketAnswers(p) \/ NavAnswers(p) \/ QuotesFail(p)
               \/ Fallback(p) \/ BackupAnswers(p) \/ BackupFails(p) \/ SafetyNet(p) \/ Leave(p)
        PROVE  PullsInv'
    BY <1>3, PullsQuotes, PullsMarket, PullsNav, PullsFail, PullsFallback, PullsBackup,
       PullsBackupFails, PullsSafetyNet, PullsLeave
  <1> QED
    BY <1>1, <1>2, <1>3 DEF Next

\* What a pull priced is in the cache and is not reported as deferred or failed, however
\* many pulls overlap and whatever the budgets grant (app.ts absorbTiingoFallback).
THEOREM PullsAirtight == Spec => []Airtight
  <1>1. Spec => []PullsInv
    BY PullsInit, PullsStep, PTL DEF Spec
  <1> QED
    BY <1>1, AirtightOfInv, PTL

----------------------------------------------------------------------------
\* 2. Sums over the ledgers.
\* Every nonempty set of numbers has a least: what induction comes to here.
LEMMA FirstOf ==
    ASSUME NEW T \in SUBSET Nat, T # {}
    PROVE  \E n \in T : \A m \in T : n <= m
  <1> DEFINE Below(n) == 0 .. n - 1
             Belows == {Below(n) : n \in T}
             R == StrictSubsetOrdering(Nat)
  <1>1. IsWellFoundedOn(R, FiniteSubsetsOf(Nat))
    BY FS_StrictSubsetOrderingWellFounded
  <1>2. Belows \subseteq FiniteSubsetsOf(Nat) /\ Belows # {}
    <2>1. \A n \in T : Below(n) \in SUBSET Nat /\ IsFiniteSet(Below(n))
      BY FS_Interval
    <2> QED
      BY <2>1 DEF FiniteSubsetsOf
  <1>3. \E x \in Belows : \A y \in Belows : <<y, x>> \notin R
    <2> HIDE DEF R, Belows
    <2> QED
      BY <1>1, <1>2, WFMin
  <1>4. PICK n \in T : \A m \in T : <<Below(m), Below(n)>> \notin R
    <2> HIDE DEF R, Below
    <2> QED
      BY <1>3
  <1>5. ASSUME NEW m \in T, m < n PROVE FALSE
    <2>1. Below(m) \subseteq Below(n) /\ m \in Below(n) /\ m \notin Below(m)
      BY <1>5
    <2>2. <<Below(m), Below(n)>> \in R
      BY <2>1 DEF StrictSubsetOrdering
    <2> QED
      BY <1>4, <2>2
  <1> QED
    BY <1>5

\* u adds g up from 0 to n.
AddsUp(g, n, u) == \A t \in 0 .. n : u[t] = (IF t = 0 THEN 0 ELSE u[t - 1]) + g[t]
\* What Sum adds up from an interval.
Within(f, from, to) == [t \in Time |-> IF from <= t /\ t <= to THEN f[t] ELSE 0]

LEMMA AddedUp ==
    ASSUME NEW g \in [Time -> Int]
    PROVE  \A n \in Time : \E u \in [0 .. n -> Int] : AddsUp(g, n, u)
  <1> DEFINE T == {n \in Time : ~ \E u \in [0 .. n -> Int] : AddsUp(g, n, u)}
  <1>a. T \in SUBSET Nat
    BY CreditsAssumption DEF Time
  <1>1. SUFFICES ASSUME T # {} PROVE FALSE
    OBVIOUS
  <1>2. PICK n \in T : \A m \in T : n <= m
    <2> HIDE DEF T
    <2> QED
      BY <1>1, <1>a, FirstOf
  <1>b. n \in Time /\ n \in Nat
    BY <1>a
  <1>3. CASE n = 0
    <2> DEFINE u == [t \in 0 .. 0 |-> g[0]]
    <2>1. u \in [0 .. 0 -> Int] /\ AddsUp(g, 0, u)
      BY <1>b, <1>3 DEF AddsUp
    <2> QED
      BY <1>2, <1>3, <2>1
  <1>4. CASE n > 0
    <2>0. n - 1 \in Time /\ ~ (n <= n - 1)
      BY <1>b, <1>4, CreditsAssumption DEF Time
    <2>1. n - 1 \in Time /\ n - 1 \notin T
      BY <1>2, <2>0
    <2>2. PICK v \in [0 .. n - 1 -> Int] : AddsUp(g, n - 1, v)
      BY <2>1
    <2> DEFINE u == [t \in 0 .. n |-> IF t < n THEN v[t] ELSE v[n - 1] + g[n]]
    <2>3. u \in [0 .. n -> Int]
      BY <1>b, <1>4
    <2>4. ASSUME NEW t \in 0 .. n PROVE u[t] = (IF t = 0 THEN 0 ELSE u[t - 1]) + g[t]
      <3>1. CASE t = n
        <4>1. t # 0 /\ t - 1 \in 0 .. n /\ t - 1 < n
          BY <1>b, <1>4, <3>1
        <4>2. u[t - 1] = v[n - 1] /\ u[t] = v[n - 1] + g[n]
          BY <3>1, <4>1
        <4> QED
          BY <3>1, <4>1, <4>2
      <3>2. CASE t < n
        <4>1. t \in 0 .. n - 1 /\ (t # 0 => t - 1 \in 0 .. n /\ t - 1 < n)
          BY <1>b, <3>2
        <4>2. u[t] = v[t] /\ (t # 0 => u[t - 1] = v[t - 1])
          BY <3>2, <4>1
        <4>3. v[t] = (IF t = 0 THEN 0 ELSE v[t - 1]) + g[t]
          BY <2>2, <4>1 DEF AddsUp
        <4> QED
          BY <4>2, <4>3
      <3> QED
        BY <1>b, <3>1, <3>2
    <2>5. AddsUp(g, n, u)
      BY <2>4 DEF AddsUp
    <2> QED
      BY <1>2, <2>3, <2>5
  <1> QED
    BY <1>b, <1>3, <1>4

\* Sum is the last of such partial sums.
LEMMA SumIs ==
    ASSUME NEW f \in [Time -> Int], NEW from \in Int, NEW to \in Int
    PROVE  \E u \in [Time -> Int] : /\ AddsUp(Within(f, from, to), MaxTime, u)
                                    /\ Sum(f, from, to) = u[MaxTime]
  <1> DEFINE E(u) == u = [t \in Time |-> (IF t = 0 THEN 0 ELSE u[t - 1])
                             + (IF from <= t /\ t <= to THEN f[t] ELSE 0)]
             up == CHOOSE u : E(u)
             g == Within(f, from, to)
  <1>1. g \in [Time -> Int] /\ MaxTime \in Time
    BY CreditsAssumption DEF Within, Time
  <1>2. PICK v \in [Time -> Int] : AddsUp(g, MaxTime, v)
    BY <1>1, AddedUp DEF Time
  <1>0. \A t \in Time : g[t] = IF from <= t /\ t <= to THEN f[t] ELSE 0
    BY DEF Within
  <1>3. E(v)
    BY <1>0, <1>2 DEF AddsUp, Time
  <1>4. E(up)
    BY <1>3
  <1>5. Sum(f, from, to) = up[MaxTime]
    BY DEF Sum
  <1>6. AddsUp(g, MaxTime, up)
    <2>1. up = [t \in Time |-> (IF t = 0 THEN 0 ELSE up[t - 1]) + (IF from <= t /\ t <= to THEN f[t] ELSE 0)]
      BY <1>4
    <2> HIDE DEF up
    <2> QED
      BY <1>0, <2>1 DEF AddsUp, Time
  <1>6a. DOMAIN up = Time
    <2>1. up = [t \in Time |-> (IF t = 0 THEN 0 ELSE up[t - 1]) + (IF from <= t /\ t <= to THEN f[t] ELSE 0)]
      BY <1>4
    <2> HIDE DEF up
    <2> QED
      BY <2>1
  <1>7. \A t \in Time : up[t] = v[t]
    <2> HIDE DEF up, g
    <2> DEFINE T == {t \in Time : up[t] # v[t]}
    <2>1. SUFFICES ASSUME T # {} PROVE FALSE
      OBVIOUS
    <2>2. T \in SUBSET Nat
      BY CreditsAssumption DEF Time
    <2>3. PICK n \in T : \A m \in T : n <= m
      <3> HIDE DEF T
      <3> QED
        BY <2>1, <2>2, FirstOf
    <2>4. n \in 0 .. MaxTime /\ up[n] # v[n] /\ MaxTime \in Nat
      BY CreditsAssumption DEF Time
    <2>5. n # 0 => n - 1 \in Time /\ up[n - 1] = v[n - 1]
      BY <2>3, <2>4 DEF Time
    <2> QED
      BY <1>2, <1>6, <2>4, <2>5 DEF AddsUp
  <1>8. up[MaxTime] = v[MaxTime]
    BY <1>1, <1>7
  <1> QED
    BY <1>2, <1>5, <1>8

\* What is no more at any instant is no more in all.
LEMMA SumGrows ==
    ASSUME NEW f \in [Time -> Int], NEW a \in Int, NEW b \in Int,
           NEW g \in [Time -> Int], NEW c \in Int, NEW d \in Int,
           \A t \in Time : Within(f, a, b)[t] <= Within(g, c, d)[t]
    PROVE  Sum(f, a, b) <= Sum(g, c, d)
  <1> DEFINE F == Within(f, a, b)
             G == Within(g, c, d)
  <1>0. F \in [Time -> Int] /\ G \in [Time -> Int]
    BY DEF Within
  <1>1. PICK u \in [Time -> Int] : AddsUp(F, MaxTime, u) /\ Sum(f, a, b) = u[MaxTime]
    BY SumIs
  <1>2. PICK v \in [Time -> Int] : AddsUp(G, MaxTime, v) /\ Sum(g, c, d) = v[MaxTime]
    BY SumIs
  <1>5. \A t \in Time : F[t] <= G[t]
    OBVIOUS
  <1> HIDE DEF F, G
  <1> DEFINE T == {t \in Time : ~ (u[t] <= v[t])}
  <1>6. T = {}
    <2>1. SUFFICES ASSUME T # {} PROVE FALSE
      OBVIOUS
    <2>2. T \in SUBSET Nat
      BY CreditsAssumption DEF Time
    <2>3. PICK n \in T : \A m \in T : n <= m
      <3> HIDE DEF T
      <3> QED
        BY <2>1, <2>2, FirstOf
    <2>4. n \in 0 .. MaxTime /\ ~ (u[n] <= v[n]) /\ MaxTime \in Nat /\ n \in Time
      BY CreditsAssumption DEF Time
    <2>5. n # 0 => n - 1 \in Time /\ u[n - 1] <= v[n - 1]
      BY <2>3, <2>4 DEF Time
    <2>6. /\ u[n] = (IF n = 0 THEN 0 ELSE u[n - 1]) + F[n]
          /\ v[n] = (IF n = 0 THEN 0 ELSE v[n - 1]) + G[n]
      BY <1>1, <1>2, <2>4 DEF AddsUp
    <2>7. F[n] \in Int /\ G[n] \in Int /\ F[n] <= G[n]
      BY <1>0, <1>5, <2>4
    <2>8. u[n] <= v[n]
      BY <2>5, <2>6, <2>7
    <2> QED
      BY <2>4, <2>8
  <1>7. MaxTime \in Time
    BY CreditsAssumption DEF Time
  <1> QED
    BY <1>1, <1>2, <1>6, <1>7

LEMMA SumsAdd ==
    ASSUME NEW f \in [Time -> Int], NEW a \in Int, NEW b \in Int,
           NEW g \in [Time -> Int], NEW c \in Int, NEW d \in Int,
           NEW h \in [Time -> Int], NEW e \in Int, NEW i \in Int,
           \A t \in Time : Within(f, a, b)[t] = Within(g, c, d)[t] + Within(h, e, i)[t]
    PROVE  Sum(f, a, b) = Sum(g, c, d) + Sum(h, e, i)
  <1> DEFINE F == Within(f, a, b)
             G == Within(g, c, d)
             H == Within(h, e, i)
  <1>0. F \in [Time -> Int] /\ G \in [Time -> Int] /\ H \in [Time -> Int]
    BY DEF Within
  <1>1. PICK u \in [Time -> Int] : AddsUp(F, MaxTime, u) /\ Sum(f, a, b) = u[MaxTime]
    BY SumIs
  <1>2. PICK v \in [Time -> Int] : AddsUp(G, MaxTime, v) /\ Sum(g, c, d) = v[MaxTime]
    BY SumIs
  <1>3. PICK w \in [Time -> Int] : AddsUp(H, MaxTime, w) /\ Sum(h, e, i) = w[MaxTime]
    BY SumIs
  <1>5. \A t \in Time : F[t] = G[t] + H[t]
    OBVIOUS
  <1> HIDE DEF F, G, H
  <1> DEFINE T == {t \in Time : ~ (u[t] = v[t] + w[t])}
  <1>6. T = {}
    <2>1. SUFFICES ASSUME T # {} PROVE FALSE
      OBVIOUS
    <2>2. T \in SUBSET Nat
      BY CreditsAssumption DEF Time
    <2>3. PICK n \in T : \A m \in T : n <= m
      <3> HIDE DEF T
      <3> QED
        BY <2>1, <2>2, FirstOf
    <2>4. n \in 0 .. MaxTime /\ ~ (u[n] = v[n] + w[n]) /\ MaxTime \in Nat /\ n \in Time
      BY CreditsAssumption DEF Time
    <2>5. n # 0 => n - 1 \in Time /\ u[n - 1] = v[n - 1] + w[n - 1]
      BY <2>3, <2>4 DEF Time
    <2>6. /\ u[n] = (IF n = 0 THEN 0 ELSE u[n - 1]) + F[n]
          /\ v[n] = (IF n = 0 THEN 0 ELSE v[n - 1]) + G[n]
          /\ w[n] = (IF n = 0 THEN 0 ELSE w[n - 1]) + H[n]
      BY <1>1, <1>2, <1>3, <2>4 DEF AddsUp
    <2>7. F[n] \in Int /\ G[n] \in Int /\ H[n] \in Int /\ F[n] = G[n] + H[n]
      BY <1>0, <1>5, <2>4
    <2>8. u[n] = v[n] + w[n]
      <3>1. CASE n = 0
        BY <2>6, <2>7, <3>1
      <3>2. CASE n # 0
        <4>1. u[n - 1] \in Int /\ v[n - 1] \in Int /\ w[n - 1] \in Int
          BY <2>5, <3>2
        <4> QED
          BY <2>5, <2>6, <2>7, <3>2, <4>1
      <3> QED
        BY <3>1, <3>2
    <2> QED
      BY <2>4, <2>8
  <1>7. MaxTime \in Time
    BY CreditsAssumption DEF Time
  <1> QED
    BY <1>1, <1>2, <1>3, <1>6, <1>7

LEMMA SumType ==
    ASSUME NEW f \in [Time -> Int], NEW a \in Int, NEW b \in Int PROVE Sum(f, a, b) \in Int
  <1>1. MaxTime \in Time
    BY CreditsAssumption DEF Time
  <1> QED
    BY <1>1, SumIs

LEMMA SumOfNone ==
    ASSUME NEW f \in [Time -> Int], NEW a \in Int, NEW b \in Int,
           \A t \in Time : a <= t /\ t <= b => f[t] = 0
    PROVE  Sum(f, a, b) = 0
  <1>1. Sum(f, a, b) = Sum(f, a, b) + Sum(f, a, b)
    <2>1. \A t \in Time : Within(f, a, b)[t] = Within(f, a, b)[t] + Within(f, a, b)[t]
      BY DEF Within
    <2> QED
      BY <2>1, SumsAdd
  <1> QED
    BY <1>1, SumType

\* n more at one instant is n more in every interval around it, and no more in any other.
LEMMA SumOfPoint ==
    ASSUME NEW n \in Int, NEW c \in Time, NEW a \in Int, NEW b \in Int
    PROVE  Sum([t \in Time |-> IF t = c THEN n ELSE 0], a, b) = IF a <= c /\ c <= b THEN n ELSE 0
  <1> DEFINE f == [t \in Time |-> IF t = c THEN n ELSE 0]
             m == IF a <= c /\ c <= b THEN n ELSE 0
             w == [t \in Time |-> IF t < c THEN 0 ELSE m]
  <1>1. f \in [Time -> Int] /\ c \in Int /\ c \in Nat /\ m \in Int
    BY CreditsAssumption DEF Time
  <1>2. PICK u \in [Time -> Int] : AddsUp(Within(f, a, b), MaxTime, u) /\ Sum(f, a, b) = u[MaxTime]
    BY <1>1, SumIs
  <1>3. \A t \in Time : Within(f, a, b)[t] = IF t = c THEN m ELSE 0
    BY <1>1 DEF Within
  <1>4. \A t \in Time : u[t] = IF t < c THEN 0 ELSE m
    <2> HIDE DEF f, m
    <2> DEFINE T == {t \in Time : ~ (u[t] = IF t < c THEN 0 ELSE m)}
    <2>1. SUFFICES ASSUME T # {} PROVE FALSE
      OBVIOUS
    <2>2. T \in SUBSET Nat
      BY CreditsAssumption DEF Time
    <2>3. PICK k \in T : \A j \in T : k <= j
      <3> HIDE DEF T
      <3> QED
        BY <2>1, <2>2, FirstOf
    <2>4. k \in 0 .. MaxTime /\ ~ (u[k] = IF k < c THEN 0 ELSE m) /\ MaxTime \in Nat /\ k \in Time
      BY CreditsAssumption DEF Time
    <2>5. k # 0 => k - 1 \in Time /\ u[k - 1] = IF k - 1 < c THEN 0 ELSE m
      BY <2>3, <2>4 DEF Time
    <2>6. u[k] = (IF k = 0 THEN 0 ELSE u[k - 1]) + (IF k = c THEN m ELSE 0)
      BY <1>2, <1>3, <2>4 DEF AddsUp
    <2> QED
      BY <1>1, <2>4, <2>5, <2>6
  <1>5. MaxTime \in Time /\ c <= MaxTime /\ MaxTime \in Nat
    BY CreditsAssumption DEF Time
  <1> QED
    BY <1>1, <1>2, <1>4, <1>5

LEMMA SumBooked ==
    ASSUME NEW f \in [Time -> Int], NEW n \in Int, NEW c \in Time, NEW a \in Int, NEW b \in Int
    PROVE  Sum([f EXCEPT ![c] = f[c] + n], a, b) = Sum(f, a, b) + (IF a <= c /\ c <= b THEN n ELSE 0)
  <1> DEFINE p == [t \in Time |-> IF t = c THEN n ELSE 0]
             g == [f EXCEPT ![c] = f[c] + n]
  <1>1. p \in [Time -> Int] /\ g \in [Time -> Int]
    OBVIOUS
  <1>2. \A t \in Time : Within(g, a, b)[t] = Within(f, a, b)[t] + Within(p, a, b)[t]
    BY DEF Within
  <1>3. Sum(g, a, b) = Sum(f, a, b) + Sum(p, a, b)
    <2> HIDE DEF g, p
    <2> QED
      BY <1>1, <1>2, SumsAdd
  <1> QED
    BY <1>3, SumOfPoint

----------------------------------------------------------------------------
\* 3. Types, and what a step books.
LEMMA Booked ==
    ASSUME ledger \in [Providers -> Ledger], clock \in Time, NEW v \in Providers, NEW n \in Nat, Reserve(v, n)
    PROVE  /\ ledger' \in [Providers -> Ledger]
           /\ \A w \in Providers \ {v} : ledger'[w] = ledger[w]
           /\ ledger'[v].back = ledger[v].back
           /\ ledger'[v].spent = [ledger[v].spent EXCEPT ![clock] = ledger[v].spent[clock] + n]
  <1>1. ledger' = [ledger EXCEPT ![v] = [ledger[v] EXCEPT !.spent[clock] = ledger[v].spent[clock] + n]]
    BY DEF Reserve, recordCredits
  <1>2. ledger[v] \in Ledger /\ ledger[v].spent[clock] + n \in Nat
    BY DEF Ledger
  <1>3. [ledger[v] EXCEPT !.spent[clock] = ledger[v].spent[clock] + n] \in Ledger
    BY <1>2 DEF Ledger
  <1>4. ledger' \in [Providers -> Ledger]
    BY <1>1, <1>3
  <1>5. /\ [ledger[v] EXCEPT !.spent[clock] = ledger[v].spent[clock] + n].back = ledger[v].back
        /\ [ledger[v] EXCEPT !.spent[clock] = ledger[v].spent[clock] + n].spent
              = [ledger[v].spent EXCEPT ![clock] = ledger[v].spent[clock] + n]
    BY <1>2 DEF Ledger
  <1> QED
    BY <1>1, <1>4, <1>5

LEMMA NetType ==
    ASSUME NEW log \in Ledger, NEW a \in Int, NEW b \in Int PROVE Net(log, a, b) \in Int
  <1>1. log.spent \in [Time -> Int] /\ log.back \in [Time -> Int]
    BY DEF Ledger
  <1> QED
    BY <1>1, SumType DEF Net

LEMMA OutstandingType == ASSUME NEW log \in Ledger PROVE outstandingCredits(log) \in Nat
  BY NetType, CreditsAssumption DEF outstandingCredits, AtLeastZero

LEMMA HandedBack ==
    ASSUME ledger \in [Providers -> Ledger], NEW t \in Time, NEW v \in Providers, NEW n \in Nat, Release(v, n, t)
    PROVE  /\ ledger' \in [Providers -> Ledger]
           /\ \A w \in Providers \ {v} : ledger'[w] = ledger[w]
           /\ ledger'[v].spent = ledger[v].spent
           /\ Least(n, outstandingCredits(ledger[v])) \in Nat
           /\ ledger'[v].back = [ledger[v].back EXCEPT ![t] =
                 ledger[v].back[t] + Least(n, outstandingCredits(ledger[v]))]
  <1> DEFINE m == Least(n, outstandingCredits(ledger[v]))
  <1>1. m \in Nat
    BY OutstandingType DEF Least
  <1>2. ledger' = [ledger EXCEPT ![v] = [ledger[v] EXCEPT !.back[t] = ledger[v].back[t] + m]]
    BY DEF Release, releaseCredits
  <1> HIDE DEF m
  <1>3. /\ ledger' \in [Providers -> Ledger]
        /\ \A w \in Providers \ {v} : ledger'[w] = ledger[w]
        /\ ledger'[v].spent = ledger[v].spent
        /\ ledger'[v].back = [ledger[v].back EXCEPT ![t] = ledger[v].back[t] + m]
    BY <1>1, <1>2 DEF Ledger
  <1> QED
    BY <1>1, <1>3 DEF m

LEMMA Armed ==
    ASSUME breaker \in [Providers -> Breaker], clock \in Time, NEW v \in Providers, Arm(v)
    PROVE  breaker' \in [Providers -> Breaker]
  <1>1. clock + Minute \in Nat /\ clock + 2 * Minute \in Nat /\ startOfHour(clock) + Hour \in Nat
    <2>1. clock \div Hour \in Nat
      BY CreditsAssumption DEF Time
    <2> DEFINE q == clock \div Hour
    <2>2. q \in Nat
      BY <2>1
    <2> HIDE DEF q
    <2>3. Hour * q \in Nat
      BY <2>2, CreditsAssumption
    <2>4. startOfHour(clock) = Hour * q
      BY DEF startOfHour, q
    <2> QED
      BY <2>3, <2>4, CreditsAssumption DEF Time
  <1>2. record429(v, breaker[v], clock) \in Breaker
    BY <1>1 DEF record429, recordTwelveData429, recordTiingo429, Breaker
  <1> QED
    BY <1>2 DEF Arm

\* What a grant may come to: what the minute, or the hour, leaves of the cap.
Room(v) ==
    IF v = "twelvedata"
    THEN AtLeastZero(TdCap - AtLeastZero(creditsSpentWithin(ledger[v], clock)))
    ELSE AtLeastZero(TiCap - AtLeastZero(creditsSpentThisHour(ledger[v], clock)))

LEMMA HourStarts == ASSUME NEW t \in Nat PROVE startOfHour(t) \in Nat
  <1> DEFINE q == t \div Hour
  <1>2. q \in Nat
    BY CreditsAssumption
  <1> HIDE DEF q
  <1>3. Hour * q \in Nat
    BY <1>2, CreditsAssumption
  <1> QED
    BY <1>3 DEF startOfHour, q

\* Spendable and tiingoRemaining are numbers and never more than that.
LEMMA SpendableFits ==
    ASSUME ledger \in [Providers -> Ledger], clock \in Time, NEW v \in Providers
    PROVE  Spendable(v) \in Nat /\ Spendable(v) <= Room(v)
  <1>1. clock - Minute + 1 \in Int /\ clock \in Int /\ startOfHour(clock) \in Int
    BY HourStarts, CreditsAssumption DEF Time
  <1>2. /\ creditsSpentWithin(ledger[v], clock) \in Int
        /\ creditsSpentThisHour(ledger[v], clock) \in Int
        /\ creditsSpentToday(ledger[v], clock) \in Int
    BY <1>1, NetType DEF creditsSpentWithin, creditsSpentThisHour, creditsSpentToday
  <1> QED
    BY <1>2, CreditsAssumption
    DEF Spendable, available, Room, twelveDataAvailable, tiingoRemaining, AtLeastZero, Least, Providers

LEMMA RoomType ==
    ASSUME ledger \in [Providers -> Ledger], clock \in Time, NEW v \in Providers PROVE Room(v) \in Nat
  <1>1. clock - Minute + 1 \in Int /\ clock \in Int /\ startOfHour(clock) \in Int
    BY HourStarts, CreditsAssumption DEF Time
  <1>2. /\ creditsSpentWithin(ledger[v], clock) \in Int
        /\ creditsSpentThisHour(ledger[v], clock) \in Int
    BY <1>1, NetType DEF creditsSpentWithin, creditsSpentThisHour
  <1> QED
    BY <1>2, CreditsAssumption DEF Room, AtLeastZero

LEMMA RemainingFits ==
    ASSUME ledger \in [Providers -> Ledger], clock \in Time, NEW keep \in Nat, NEW frozenUntil
    PROVE  LET room == tiingoRemaining(ledger["tiingo"], frozenUntil, clock, keep)
           IN room \in Nat /\ room <= Room("tiingo")
  <1>1. startOfHour(clock) \in Int /\ clock \in Int /\ "tiingo" \in Providers
    BY HourStarts, CreditsAssumption DEF Time, Providers
  <1>2. /\ creditsSpentThisHour(ledger["tiingo"], clock) \in Int
        /\ creditsSpentToday(ledger["tiingo"], clock) \in Int
    BY <1>1, NetType DEF creditsSpentThisHour, creditsSpentToday
  <1> QED
    BY <1>2, CreditsAssumption DEF Room, tiingoRemaining, AtLeastZero, Least

\* No call was charged ahead of the clock.
CallsPast == \A p \in PullIds : flight[p].at <= clock
Typed == TypeOK /\ CallsPast

\* What a step does to the ledgers.
Grants == \E v \in Providers : \E n \in Nat : n <= Room(v) /\ Reserve(v, n)
Refunds == \E v \in Providers : \E n \in Nat : \E t \in Time : t <= clock /\ Release(v, n, t)
Books == UNCHANGED clock /\ (UNCHANGED ledger \/ Grants \/ Refunds)

LEMMA BooksType == TypeOK /\ Books => ledger' \in [Providers -> Ledger]
  BY Booked, HandedBack DEF TypeOK, Books, Grants, Refunds

LEMMA TypedInit == ASSUME Init PROVE Typed
  <1>1. 0 \in Time /\ clock = 0
    BY CreditsAssumption DEF Init, Time
  <1>2. ledger \in [Providers -> Ledger]
    <2>1. EmptyLedger \in Ledger
      BY DEF EmptyLedger, Ledger
    <2> QED
      BY <2>1 DEF Init
  <1>3. breaker \in [Providers -> Breaker]
    BY DEF Init, Breaker
  <1>4. report \in [PullIds -> Report]
    BY DEF Init, Report, NoReport
  <1>5. flight \in [PullIds -> Flight] /\ CallsPast
    <2>1. NoFlight \in Flight /\ NoFlight.at = 0
      BY <1>1 DEF NoFlight, Flight
    <2> QED
      BY <1>1, <2>1 DEF Init, CallsPast
  <1> QED
    BY <1>1, <1>2, <1>3, <1>4, <1>5 DEF Init, Typed, TypeOK, Phases

\* The parts of a step of p.
LEMMA GotoTypes == ASSUME TypeOK, NEW p \in PullIds, NEW to \in Phases, Goto(p, to)
                   PROVE  phase' \in [PullIds -> Phases]
  BY DEF TypeOK, Goto

LEMMA InFlightTypes ==
    ASSUME Typed, NEW p \in PullIds, NEW n \in Nat, NEW at \in Time, at <= clock, NEW ask \in SUBSET Symbols,
           NEW fresh \in SUBSET Symbols, NEW open \in SUBSET Symbols, InFlight(p, n, at, ask, fresh, open),
           UNCHANGED clock
    PROVE  flight' \in [PullIds -> Flight] /\ CallsPast'
  <1> DEFINE f == [n |-> n, at |-> at, ask |-> ask, got |-> {}, fresh |-> fresh, open |-> open]
  <1>1. f \in Flight /\ f.at = at
    BY DEF Flight
  <1>2. flight' = [flight EXCEPT ![p] = f]
    BY DEF InFlight
  <1> HIDE DEF f
  <1> QED
    BY <1>1, <1>2 DEF Typed, TypeOK, CallsPast

LEMMA LandedTypes ==
    ASSUME Typed, NEW p \in PullIds, Landed(p), UNCHANGED clock
    PROVE  flight' \in [PullIds -> Flight] /\ CallsPast'
  <1>1. NoFlight \in Flight /\ NoFlight.at = 0
    BY CreditsAssumption DEF Flight, NoFlight, Time
  <1> QED
    BY <1>1, CreditsAssumption DEF Typed, TypeOK, CallsPast, Landed, Time

LEMMA FlightStays ==
    ASSUME Typed, UNCHANGED <<clock, flight>> PROVE flight' \in [PullIds -> Flight] /\ CallsPast'
  BY DEF Typed, TypeOK, CallsPast

LEMMA BillTypes == ASSUME TypeOK, NEW v \in Providers, NEW n \in Nat, Bill(v, n)
                   PROVE  billed' \in [Providers -> Nat]
  BY DEF TypeOK, Bill

LEMMA DeliveredTypes ==
    ASSUME TypeOK, NEW p \in PullIds, NEW r \in Report, NEW again \in BOOLEAN, Delivered(p, r, again)
    PROVE  report' \in [PullIds -> Report] /\ phase' \in [PullIds -> Phases]
  <1>1. CASE again
    <2>1. report[p] \in Report
      BY DEF TypeOK
    <2>2. absorbSafetyNet(report[p], r) \in Report
      BY <2>1 DEF absorbSafetyNet, Report
    <2> QED
      BY <1>1, <2>2, GotoTypes DEF Delivered, TypeOK, Phases
  <1>2. CASE ~ again
    BY <1>2, GotoTypes DEF Delivered, TypeOK, Phases
  <1> QED
    BY <1>1, <1>2

LEMMA UnpricedTypes ==
    ASSUME NEW a \in SUBSET Symbols, NEW b \in SUBSET Symbols, NEW c \in SUBSET Symbols
    PROVE  Unpriced(a, b, c) \in Report
  BY DEF Unpriced, Report

LEMMA CountType == ASSUME NEW S \in SUBSET Symbols PROVE IsFiniteSet(S) /\ Cardinality(S) \in Nat
  BY PullsAssumption, FS_Subset, FS_CardinalityType

----------------------------------------------------------------------------
Moves == Typed' /\ Books

LEMMA Still == ASSUME Typed, UNCHANGED vars PROVE Typed' /\ UNCHANGED <<clock, ledger>>
  BY DEF Typed, TypeOK, CallsPast, vars

LEMMA MovesTime == ASSUME Typed, PassTime PROVE Typed' /\ clock' = clock + 1 /\ UNCHANGED ledger
  <1>1. clock' \in Time /\ clock' = clock + 1
    BY CreditsAssumption DEF PassTime, Typed, TypeOK, Time
  <1>2. \A p \in PullIds : flight[p].at \in Int /\ clock \in Int
    BY CreditsAssumption DEF Typed, TypeOK, Flight, Time
  <1> QED
    BY <1>1, <1>2 DEF PassTime, Typed, TypeOK, CallsPast

LEMMA MovesBegin == ASSUME Typed, NEW p \in PullIds, Begin(p) \/ FxRests(p) \/ Leave(p) PROVE Moves
  <1>1. phase' \in [PullIds -> Phases]
    BY GotoTypes DEF Begin, FxRests, Leave, Phases, Typed
  <1>2. report' \in [PullIds -> Report]
    BY DEF Begin, FxRests, Leave, Typed, TypeOK, NoReport, Report
  <1> QED
    BY <1>1, <1>2 DEF Begin, FxRests, Leave, Typed, TypeOK, CallsPast, Moves, Books

LEMMA MovesFx == ASSUME Typed, NEW p \in PullIds, FxPull(p) \/ FxBackup(p) PROVE Moves
  <1>0. TypeOK /\ UNCHANGED <<clock, breaker, cached, netting, report, billed, over>>
    BY DEF FxPull, FxBackup, Typed
  <1>1. PICK v \in Providers : \/ /\ Spendable(v) >= 1 /\ Reserve(v, 1) /\ InFlight(p, 1, 0, {}, {}, {})
                                  /\ \E to \in Phases : Goto(p, to)
                               \/ UNCHANGED <<ledger, flight>> /\ \E to \in Phases : Goto(p, to)
    BY DEF FxPull, FxBackup, Providers, Phases
  <1>2. phase' \in [PullIds -> Phases]
    BY <1>0, <1>1, GotoTypes
  <1>3. CASE UNCHANGED <<ledger, flight>>
    BY <1>0, <1>2, <1>3 DEF Typed, TypeOK, CallsPast, Moves, Books
  <1>4. CASE Spendable(v) >= 1 /\ Reserve(v, 1) /\ InFlight(p, 1, 0, {}, {}, {})
    <2>1. flight' \in [PullIds -> Flight] /\ CallsPast'
      <3>1. 0 \in Time /\ 0 <= clock
        BY <1>0, CreditsAssumption DEF TypeOK, Time
      <3> QED
        BY <1>0, <1>4, <3>1, InFlightTypes
    <2>2. Spendable(v) \in Nat /\ Spendable(v) <= Room(v) /\ Room(v) \in Nat
      <3>1. Spendable(v) \in Nat /\ Spendable(v) <= Room(v)
        BY <1>0, SpendableFits DEF TypeOK
      <3> QED
        BY <1>0, <3>1, RoomType DEF TypeOK
    <2>3. Grants
      BY <1>4, <2>2 DEF Grants
    <2> QED
      BY <1>0, <1>2, <2>1, <2>3, BooksType DEF Typed, TypeOK, Moves, Books
  <1> QED
    BY <1>1, <1>3, <1>4

LEMMA MovesFxAnswers ==
    ASSUME Typed, NEW p \in PullIds, FxTdAnswers(p) \/ FxTiAnswers(p) PROVE Moves
  <1>1. PICK v \in Providers, next \in Phases : FxAnswers(p, v, next)
    BY DEF FxTdAnswers, FxTiAnswers, Providers, Phases
  <1>0. TypeOK /\ UNCHANGED <<clock, breaker, cached, netting, report>> /\ flight[p].n \in Nat
    BY <1>1 DEF FxAnswers, Typed, TypeOK, Flight
  <1>2. flight' \in [PullIds -> Flight] /\ CallsPast'
    BY <1>0, <1>1, LandedTypes DEF FxAnswers
  <1>3. phase' \in [PullIds -> Phases]
    BY <1>0, <1>1, GotoTypes DEF FxAnswers, Phases
  <1>4. billed' \in [Providers -> Nat] /\ over' \in BOOLEAN
    BY <1>0, <1>1, BillTypes DEF FxAnswers, TypeOK
  <1>5. UNCHANGED ledger \/ Refunds
    <2>1. UNCHANGED ledger \/ Release(v, flight[p].n, clock)
      BY <1>1 DEF FxAnswers
    <2>2. clock \in Time /\ clock <= clock
      BY <1>0, CreditsAssumption DEF TypeOK, Time
    <2> QED
      BY <1>0, <2>1, <2>2 DEF Refunds
  <1> QED
    BY <1>0, <1>2, <1>3, <1>4, <1>5, BooksType DEF Typed, TypeOK, Moves, Books

LEMMA LoadQuotesMoves ==
    ASSUME Typed, NEW p \in PullIds, NEW want \in SUBSET Symbols, NEW budget \in Nat,
           budget <= Room("twelvedata"), NEW again \in BOOLEAN,
           LoadQuotes(p, want, budget, again), UNCHANGED clock
    PROVE  /\ Books /\ CallsPast' /\ phase' \in [PullIds -> Phases]
           /\ report' \in [PullIds -> Report] /\ flight' \in [PullIds -> Flight]
  <1>1. PICK fresh \in SUBSET (want \cap cached) :
           \E ask \in {s \in SUBSET (want \ fresh) : Cardinality(s) = Least(Cardinality(want \ fresh), budget)} :
              LET stale == want \ fresh
                  granted == Least(Cardinality(stale), budget)
              IN IF granted = 0
                 THEN /\ Delivered(p, Unpriced(fresh, stale, {}), again)
                      /\ UNCHANGED <<ledger, flight>>
                 ELSE /\ Reserve("twelvedata", granted)
                      /\ InFlight(p, granted, 0, ask, fresh, stale \ ask)
                      /\ Goto(p, IF ask \subseteq NavSymbols THEN "nav" ELSE "market")
                      /\ UNCHANGED report
    BY DEF LoadQuotes
  <1> DEFINE stale == want \ fresh
             granted == Least(Cardinality(stale), budget)
  <1>2. PICK ask \in SUBSET stale :
              IF granted = 0
                 THEN /\ Delivered(p, Unpriced(fresh, stale, {}), again)
                      /\ UNCHANGED <<ledger, flight>>
                 ELSE /\ Reserve("twelvedata", granted)
                      /\ InFlight(p, granted, 0, ask, fresh, stale \ ask)
                      /\ Goto(p, IF ask \subseteq NavSymbols THEN "nav" ELSE "market")
                      /\ UNCHANGED report
    BY <1>1
  <1>0. fresh \in SUBSET Symbols /\ ask \in SUBSET Symbols /\ stale \in SUBSET Symbols /\ stale \ ask \in SUBSET Symbols
    OBVIOUS
  <1>3. granted \in Nat /\ granted <= budget
    <2>1. Cardinality(stale) \in Nat
      BY <1>0, CountType
    <2> QED
      BY <2>1 DEF Least
  <1>4. "twelvedata" \in Providers /\ Room("twelvedata") \in Nat /\ TypeOK
    BY RoomType DEF Providers, Typed, TypeOK
  <1> HIDE DEF granted, stale
  <1>5. CASE granted = 0
    <2>1. Unpriced(fresh, stale, {}) \in Report
      BY <1>0, UnpricedTypes
    <2>2. report' \in [PullIds -> Report] /\ phase' \in [PullIds -> Phases]
      BY <1>2, <1>4, <1>5, <2>1, DeliveredTypes
    <2> QED
      BY <1>2, <1>5, <2>2, FlightStays DEF Books
  <1>6. CASE granted # 0
    <2>1. Reserve("twelvedata", granted) /\ InFlight(p, granted, 0, ask, fresh, stale \ ask) /\ UNCHANGED report
      BY <1>2, <1>6
    <2>2. 0 \in Time /\ 0 <= clock
      BY <1>4, CreditsAssumption DEF TypeOK, Time
    <2>3. flight' \in [PullIds -> Flight] /\ CallsPast'
      BY <1>0, <1>3, <2>1, <2>2, InFlightTypes
    <2>4. phase' \in [PullIds -> Phases]
      BY <1>2, <1>4, <1>6, GotoTypes DEF Phases
    <2>5. granted <= Room("twelvedata")
      BY <1>3, <1>4
    <2>6. Books
      BY <1>3, <1>4, <2>1, <2>5 DEF Books, Grants
    <2> QED
      BY <1>4, <2>1, <2>3, <2>4, <2>6 DEF TypeOK
  <1> QED
    BY <1>5, <1>6

LEMMA MovesQuotes == ASSUME Typed, NEW p \in PullIds, Quotes(p) \/ SafetyNet(p) PROVE Moves
  <1>0. TypeOK /\ UNCHANGED <<clock, breaker, cached, billed, over>> /\ netting' \subseteq PullIds
    BY DEF Quotes, SafetyNet, Typed, TypeOK
  <1>1. /\ Spendable("twelvedata") \in Nat /\ 0 \in Nat /\ Spendable("twelvedata") <= Room("twelvedata")
        /\ 0 <= Room("twelvedata")
    <2>1. "twelvedata" \in Providers
      BY DEF Providers
    <2>2. Room("twelvedata") \in Nat
      BY <1>0, <2>1, RoomType DEF TypeOK
    <2> QED
      BY <1>0, <2>1, <2>2, SpendableFits DEF TypeOK
  <1>2. plan[p].want \in SUBSET Symbols /\ report[p].deferred \in SUBSET Symbols
    BY <1>0, PullsAssumption DEF TypeOK, Report
  <1>3. PICK want \in SUBSET Symbols, budget \in Nat, again \in BOOLEAN :
           budget <= Room("twelvedata") /\ LoadQuotes(p, want, budget, again)
    <2>1. CASE Quotes(p)
      <3>1. LoadQuotes(p, plan[p].want, IF plan[p].via THEN 0 ELSE Spendable("twelvedata"), FALSE)
        BY <2>1 DEF Quotes
      <3> QED
        BY <1>1, <1>2, <3>1
    <2>2. CASE SafetyNet(p)
      <3>1. LoadQuotes(p, report[p].deferred, Spendable("twelvedata"), TRUE)
        BY <2>2 DEF SafetyNet
      <3> QED
        BY <1>1, <1>2, <3>1
    <2> QED
      BY <2>1, <2>2
  <1>4. /\ Books /\ CallsPast' /\ phase' \in [PullIds -> Phases]
        /\ report' \in [PullIds -> Report] /\ flight' \in [PullIds -> Flight]
    BY <1>0, <1>3, LoadQuotesMoves
  <1> QED
    BY <1>0, <1>4, BooksType DEF Moves, Typed, TypeOK, Books

LEMMA QuotesLandTypes ==
    ASSUME Typed, NEW p \in PullIds, NEW got \in SUBSET Symbols, QuotesLand(p, got), UNCHANGED clock
    PROVE  /\ cached' \subseteq Symbols /\ report' \in [PullIds -> Report] /\ phase' \in [PullIds -> Phases]
           /\ flight' \in [PullIds -> Flight] /\ CallsPast'
  <1>1. flight[p] \in Flight
    BY DEF Typed, TypeOK
  <1> DEFINE r == [fetched |-> got, fresh |-> flight[p].fresh, deferred |-> flight[p].open,
                   failed |-> flight[p].ask \ got]
             again == p \in netting
  <1>2. r \in Report /\ again \in BOOLEAN
    BY <1>1 DEF Report, Flight
  <1>3. Delivered(p, r, again) /\ Landed(p) /\ cached' = cached \cup got
    BY DEF QuotesLand
  <1> HIDE DEF r, again
  <1>4. report' \in [PullIds -> Report] /\ phase' \in [PullIds -> Phases]
    BY <1>2, <1>3, DeliveredTypes DEF Typed
  <1> QED
    BY <1>3, <1>4, LandedTypes DEF Typed, TypeOK

LEMMA MovesMarket == ASSUME Typed, NEW p \in PullIds, MarketAnswers(p) PROVE Moves
  <1>0. TypeOK /\ UNCHANGED <<clock, ledger, breaker, netting, over>> /\ flight[p] \in Flight
    BY DEF MarketAnswers, Typed, TypeOK
  <1> DEFINE market == flight[p].ask \ NavSymbols
  <1>1. market \in SUBSET Symbols
    BY <1>0 DEF Flight
  <1>2. billed' \in [Providers -> Nat]
    <2>1. Bill("twelvedata", Cardinality(market)) /\ Cardinality(market) \in Nat /\ "twelvedata" \in Providers
      BY <1>1, CountType DEF MarketAnswers, Providers
    <2> QED
      BY <1>0, <2>1, BillTypes
  <1>3. PICK got \in SUBSET market :
           \/ QuotesLand(p, got)
           \/ /\ flight' = [flight EXCEPT ![p].got = got]
              /\ Goto(p, "nav")
              /\ UNCHANGED <<cached, report>>
    BY DEF MarketAnswers
  <1> HIDE DEF market
  <1>4. CASE QuotesLand(p, got)
    <2>1. got \in SUBSET Symbols
      BY <1>1
    <2>2. /\ cached' \subseteq Symbols /\ report' \in [PullIds -> Report] /\ phase' \in [PullIds -> Phases]
          /\ flight' \in [PullIds -> Flight] /\ CallsPast'
      BY <1>0, <1>4, <2>1, QuotesLandTypes
    <2> QED
      BY <1>0, <1>2, <2>2 DEF Moves, Books, Typed, TypeOK
  <1>5. CASE flight' = [flight EXCEPT ![p].got = got] /\ Goto(p, "nav") /\ UNCHANGED <<cached, report>>
    <2>1. [flight[p] EXCEPT !.got = got] \in Flight /\ [flight[p] EXCEPT !.got = got].at = flight[p].at
      BY <1>0, <1>1 DEF Flight
    <2>2. flight' \in [PullIds -> Flight] /\ CallsPast'
      BY <1>0, <1>5, <2>1 DEF TypeOK, Typed, CallsPast
    <2>3. phase' \in [PullIds -> Phases]
      BY <1>0, <1>5, GotoTypes DEF Phases
    <2> QED
      BY <1>0, <1>2, <1>5, <2>2, <2>3 DEF Moves, Books, Typed, TypeOK
  <1> QED
    BY <1>3, <1>4, <1>5

LEMMA MovesNav == ASSUME Typed, NEW p \in PullIds, NavAnswers(p) PROVE Moves
  <1>0. TypeOK /\ UNCHANGED <<clock, ledger, breaker, netting, over>> /\ flight[p] \in Flight
    BY DEF NavAnswers, Typed, TypeOK
  <1> DEFINE funds == flight[p].ask \cap NavSymbols
  <1>1. funds \in SUBSET Symbols
    BY <1>0 DEF Flight
  <1>2. billed' \in [Providers -> Nat]
    <2>1. Bill("twelvedata", Cardinality(funds)) /\ Cardinality(funds) \in Nat /\ "twelvedata" \in Providers
      BY <1>1, CountType DEF NavAnswers, Providers
    <2> QED
      BY <1>0, <2>1, BillTypes
  <1>3. PICK got \in SUBSET funds : QuotesLand(p, flight[p].got \cup got)
    BY DEF NavAnswers
  <1>4. flight[p].got \cup got \in SUBSET Symbols
    BY <1>0, <1>1 DEF Flight
  <1>5. /\ cached' \subseteq Symbols /\ report' \in [PullIds -> Report] /\ phase' \in [PullIds -> Phases]
        /\ flight' \in [PullIds -> Flight] /\ CallsPast'
    BY <1>0, <1>3, <1>4, QuotesLandTypes
  <1> QED
    BY <1>0, <1>2, <1>5 DEF Moves, Books, Typed, TypeOK

LEMMA MovesFail == ASSUME Typed, NEW p \in PullIds, QuotesFail(p) PROVE Moves
  <1>0. /\ TypeOK /\ UNCHANGED <<clock, cached, netting, billed, over>> /\ flight[p] \in Flight
        /\ "twelvedata" \in Providers
    BY DEF QuotesFail, Typed, TypeOK, Providers
  <1>1. Refunds
    <2>1. Release("twelvedata", flight[p].n, clock) /\ flight[p].n \in Nat /\ clock \in Time /\ clock <= clock
      BY <1>0, CreditsAssumption DEF QuotesFail, Flight, TypeOK, Time
    <2> QED
      BY <1>0, <2>1 DEF Refunds
  <1>2. flight' \in [PullIds -> Flight] /\ CallsPast'
    BY <1>0, LandedTypes DEF QuotesFail
  <1>3. breaker' \in [Providers -> Breaker]
    BY <1>0, Armed DEF QuotesFail, TypeOK
  <1>4. report' \in [PullIds -> Report] /\ phase' \in [PullIds -> Phases]
    <2> DEFINE none == Unpriced(flight[p].fresh, flight[p].open, flight[p].ask)
               again == p \in netting
    <2>1. none \in Report /\ again \in BOOLEAN
      BY <1>0, UnpricedTypes DEF Flight
    <2>2. \/ Delivered(p, none, again)
          \/ report' = [report EXCEPT ![p] = NoReport] /\ Goto(p, "done")
      BY DEF QuotesFail
    <2> HIDE DEF none, again
    <2>3. NoReport \in Report
      BY DEF NoReport, Report
    <2> QED
      BY <1>0, <2>1, <2>2, <2>3, DeliveredTypes, GotoTypes DEF Phases, TypeOK
  <1> QED
    BY <1>0, <1>1, <1>2, <1>3, <1>4, BooksType DEF Moves, Books, Typed, TypeOK

LEMMA AfterBackupTypes ==
    ASSUME TypeOK, NEW p \in PullIds, NEW r \in Report, AfterBackup(p, r)
    PROVE  report' \in [PullIds -> Report] /\ phase' \in [PullIds -> Phases]
  BY GotoTypes DEF AfterBackup, TypeOK, Phases

LEMMA MovesFallback == ASSUME Typed, NEW p \in PullIds, Fallback(p) PROVE Moves
  <1>0. TypeOK /\ UNCHANGED <<clock, cached, netting, billed, over>> /\ report[p] \in Report /\ "tiingo" \in Providers
    BY DEF Fallback, Typed, TypeOK, Providers
  <1> DEFINE room == tiingoRemaining(ledger["tiingo"], breaker["tiingo"].frozenUntil, clock, plan[p].keep)
  <1>1. room \in Nat /\ room <= Room("tiingo") /\ Room("tiingo") \in Nat
    <2>1. plan[p].keep \in Nat
      BY PullsAssumption
    <2> QED
      BY <1>0, <2>1, RemainingFits, RoomType DEF TypeOK
  <1>2. PICK candidates \in SUBSET plan[p].want :
             IF candidates = {} \/ room = 0
             THEN /\ IF candidates = {} THEN UNCHANGED breaker ELSE Arm("tiingo")
                  /\ AfterBackup(p, report[p])
                  /\ UNCHANGED <<ledger, flight>>
             ELSE /\ \E ask \in SUBSET candidates :
                        /\ Cardinality(ask) = Least(Cardinality(candidates), room)
                        /\ Reserve("tiingo", Cardinality(ask))
                        /\ InFlight(p, Cardinality(ask), clock, ask, {}, {})
                  /\ Goto(p, "backup")
                  /\ UNCHANGED <<breaker, report>>
    BY DEF Fallback
  <1> HIDE DEF room
  <1>3. CASE candidates = {} \/ room = 0
    <2>1. breaker' \in [Providers -> Breaker]
      BY <1>0, <1>2, <1>3, Armed DEF TypeOK
    <2>2. report' \in [PullIds -> Report] /\ phase' \in [PullIds -> Phases]
      BY <1>0, <1>2, <1>3, AfterBackupTypes
    <2> QED
      BY <1>0, <1>2, <1>3, <2>1, <2>2, FlightStays DEF Moves, Books, Typed, TypeOK
  <1>4. CASE ~ (candidates = {} \/ room = 0)
    <2>1. PICK ask \in SUBSET candidates :
                        /\ Cardinality(ask) = Least(Cardinality(candidates), room)
                        /\ Reserve("tiingo", Cardinality(ask))
                        /\ InFlight(p, Cardinality(ask), clock, ask, {}, {})
      BY <1>2, <1>4
    <2>2. candidates \in SUBSET Symbols /\ ask \in SUBSET Symbols
      BY PullsAssumption
    <2>3. Cardinality(ask) \in Nat /\ Cardinality(ask) <= Room("tiingo")
      <3>1. Cardinality(ask) \in Nat /\ Cardinality(candidates) \in Nat
        BY <2>2, CountType
      <3> QED
        BY <1>1, <2>1, <3>1 DEF Least
    <2>4. Grants
      BY <1>0, <2>1, <2>3 DEF Grants
    <2>5. flight' \in [PullIds -> Flight] /\ CallsPast'
      <3>1. clock \in Time /\ clock <= clock
        BY <1>0, CreditsAssumption DEF TypeOK, Time
      <3> QED
        BY <1>0, <2>1, <2>2, <2>3, <3>1, InFlightTypes
    <2>6. phase' \in [PullIds -> Phases] /\ UNCHANGED <<breaker, report>>
      BY <1>0, <1>2, <1>4, GotoTypes DEF Phases
    <2> QED
      BY <1>0, <2>4, <2>5, <2>6, BooksType DEF Moves, Books, Typed, TypeOK
  <1> QED
    BY <1>3, <1>4

LEMMA MovesBackup == ASSUME Typed, NEW p \in PullIds, BackupAnswers(p) \/ BackupFails(p) PROVE Moves
  <1>0. /\ TypeOK /\ UNCHANGED <<clock, netting>> /\ flight[p] \in Flight /\ "tiingo" \in Providers
        /\ report[p] \in Report /\ flight[p].n \in Nat /\ flight[p].at \in Time /\ flight[p].at <= clock
    BY DEF BackupAnswers, BackupFails, Typed, TypeOK, Providers, Flight, CallsPast
  <1>1. flight' \in [PullIds -> Flight] /\ CallsPast'
    BY <1>0, LandedTypes DEF BackupAnswers, BackupFails
  <1>2. CASE BackupAnswers(p)
    <2>1. billed' \in [Providers -> Nat]
      BY <1>0, <1>2, BillTypes DEF BackupAnswers
    <2>2. PICK gained \in SUBSET flight[p].ask :
             cached' = cached \cup gained /\ AfterBackup(p, absorbTiingoFallback(report[p], gained))
      BY <1>2 DEF BackupAnswers
    <2>3. gained \subseteq Symbols
      BY <1>0 DEF Flight
    <2>4. absorbTiingoFallback(report[p], gained) \in Report
      BY <1>0, <2>3 DEF absorbTiingoFallback, Report
    <2>5. report' \in [PullIds -> Report] /\ phase' \in [PullIds -> Phases]
      BY <1>0, <2>2, <2>4, AfterBackupTypes
    <2> QED
      BY <1>0, <1>1, <1>2, <2>1, <2>2, <2>3, <2>5 DEF BackupAnswers, Moves, Books, Typed, TypeOK
  <1>3. CASE BackupFails(p)
    <2>1. Refunds
      BY <1>0, <1>3 DEF BackupFails, Refunds
    <2>2. breaker' \in [Providers -> Breaker] /\ over' \in BOOLEAN
      BY <1>0, <1>3, Armed DEF BackupFails, TypeOK
    <2>3. report' \in [PullIds -> Report] /\ phase' \in [PullIds -> Phases]
      BY <1>0, <1>3, AfterBackupTypes DEF BackupFails
    <2> QED
      BY <1>0, <1>1, <1>3, <2>1, <2>2, <2>3, BooksType DEF BackupFails, Moves, Books, Typed, TypeOK
  <1> QED
    BY <1>2, <1>3

\* A step keeps the types, and books or hands back what the budget allows.
LEMMA TypedStep ==
    ASSUME Typed, [Next]_vars
    PROVE  Typed' /\ (Books \/ (clock' = clock + 1 /\ UNCHANGED ledger))
  <1>1. CASE UNCHANGED vars
    BY <1>1, Still DEF Books
  <1>2. CASE PassTime
    BY <1>2, MovesTime
  <1>3. ASSUME NEW p \in PullIds,
           \/ Begin(p) \/ FxRests(p) \/ FxPull(p) \/ FxTdAnswers(p) \/ FxBackup(p) \/ FxTiAnswers(p)
           \/ Quotes(p) \/ MarketAnswers(p) \/ NavAnswers(p) \/ QuotesFail(p)
           \/ Fallback(p) \/ BackupAnswers(p) \/ BackupFails(p) \/ SafetyNet(p) \/ Leave(p)
        PROVE Moves
    BY <1>3, MovesBegin, MovesFx, MovesFxAnswers, MovesQuotes, MovesMarket, MovesNav, MovesFail,
       MovesFallback, MovesBackup
  <1>4. Moves => Typed' /\ Books
    BY DEF Moves
  <1>5. Next => PassTime \/ Moves
    BY <1>3 DEF Next
  <1> QED
    BY <1>1, <1>2, <1>4, <1>5

\* Every variable keeps its type, whatever the pulls do.
THEOREM PullsTypeCorrect == Spec => []TypeOK
  <1>1. Init => Typed
    BY TypedInit
  <1>2. Typed /\ [Next]_vars => Typed'
    BY TypedStep
  <1>3. Typed => TypeOK
    BY DEF Typed
  <1> QED
    BY <1>1, <1>2, <1>3, PTL DEF Spec

----------------------------------------------------------------------------
\* 4. Pacing and waits.
\* Nothing is booked or handed back ahead of the clock.
Ahead(log, c) == \A t \in Time : t > c => log.spent[t] = 0 /\ log.back[t] = 0
NothingAhead == \A v \in Providers : Ahead(ledger[v], clock)

\* The two parts of GrantsPaced, at one instant.
MinutePaced(log, t) ==
    Sum(log.spent, t - Minute + 1, t) <= TdCap + Sum(log.back, t - 2 * Minute + 1, t)
HourPaced(log, t) ==
    Sum(log.spent, startOfHour(t), t) <= TiCap + Sum(log.back, startOfHour(t), t)

PacedInv == NothingAhead /\ GrantsPaced

LEMMA PacedInit == ASSUME Init PROVE PacedInv
  <1>1. /\ clock = 0 /\ ledger["twelvedata"] = EmptyLedger /\ ledger["tiingo"] = EmptyLedger
    BY DEF Init, Providers
  <1>2. NothingAhead
    BY DEF Init, NothingAhead, Ahead, EmptyLedger
  <1> DEFINE z == [t \in Time |-> 0]
  <1>3. ASSUME NEW a \in Int, NEW b \in Int PROVE Sum(z, a, b) = 0
    <2>1. z \in [Time -> Int] /\ \A t \in Time : a <= t /\ t <= b => z[t] = 0
      OBVIOUS
    <2> HIDE DEF z
    <2> QED
      BY <2>1, SumOfNone
  <1>4. EmptyLedger.spent = z /\ EmptyLedger.back = z
    BY DEF EmptyLedger
  <1> HIDE DEF z
  <1>5. GrantsPaced
    <2>1. ASSUME NEW t \in Time PROVE t \in Int /\ t - Minute + 1 \in Int /\ t - 2 * Minute + 1 \in Int /\ startOfHour(t) \in Int
      BY HourStarts, CreditsAssumption DEF Time
    <2> QED
      BY <1>1, <1>3, <1>4, <2>1, CreditsAssumption DEF GrantsPaced
  <1> QED
    BY <1>2, <1>5 DEF PacedInv

\* A later window holds no more of what is booked by now, a wider one no less handed back.
LEMMA SpentFrom ==
    ASSUME NEW log \in Ledger, NEW c \in Time, Ahead(log, c), NEW a \in Int, NEW b \in Int, NEW d \in Int, c <= d, a <= b
    PROVE  Sum(log.spent, b, d) <= Sum(log.spent, a, c)
  <1>1. log.spent \in [Time -> Int] /\ log.spent \in [Time -> Nat] /\ c \in Int
    BY CreditsAssumption DEF Ledger, Time
  <1>2. \A t \in Time : t \in Int /\ log.spent[t] \in Nat /\ (t > c => log.spent[t] = 0)
    BY <1>1, CreditsAssumption DEF Ahead, Time
  <1>3. \A t \in Time : Within(log.spent, b, d)[t] <= Within(log.spent, a, c)[t]
    BY <1>1, <1>2 DEF Within
  <1> QED
    BY <1>1, <1>3, SumGrows

LEMMA BackGrows ==
    ASSUME NEW log \in Ledger, NEW a \in Int, NEW b \in Int, NEW c \in Int, NEW d \in Int, a <= b, c <= d
    PROVE  Sum(log.back, b, c) <= Sum(log.back, a, d)
  <1>1. log.back \in [Time -> Int] /\ log.back \in [Time -> Nat]
    BY DEF Ledger
  <1>2. \A t \in Time : t \in Int /\ log.back[t] \in Nat
    BY <1>1, CreditsAssumption DEF Time
  <1>3. \A t \in Time : Within(log.back, b, c)[t] <= Within(log.back, a, d)[t]
    BY <1>1, <1>2 DEF Within
  <1> QED
    BY <1>1, <1>3, SumGrows

\* The instants of an hour have its start in common.
LEMMA SameHour ==
    ASSUME NEW t \in Nat, NEW c \in Nat, startOfHour(t) <= c, c <= t PROVE startOfHour(c) = startOfHour(t)
  <1> DEFINE q == t \div Hour
             r == c \div Hour
  <1>0. Hour \in Nat /\ Hour > 0
    BY CreditsAssumption
  <1>1. q \in Nat /\ r \in Nat
    BY <1>0
  <1>2. Hour * q <= t /\ t < Hour * q + Hour /\ Hour * r <= c /\ c < Hour * r + Hour
    BY <1>0
  <1>3. startOfHour(t) = Hour * q /\ startOfHour(c) = Hour * r
    BY DEF startOfHour
  <1> HIDE DEF q, r
  <1>4. Hour * q < Hour * r + Hour /\ Hour * r < Hour * q + Hour
    <2>1. Hour * q \in Nat /\ Hour * r \in Nat
      BY <1>0, <1>1
    <2> QED
      BY <1>0, <1>2, <1>3, <2>1
  <1>5. q = r
    <2>1. Hour * q < Hour * (r + 1) /\ Hour * r < Hour * (q + 1)
      BY <1>0, <1>1, <1>4
    <2>2. ASSUME NEW m \in Nat, NEW n \in Nat, Hour * m < Hour * n PROVE m < n
      BY <1>0, <2>2
    <2>3. q < r + 1 /\ r < q + 1
      BY <1>1, <2>1, <2>2
    <2> QED
      BY <1>1, <2>3
  <1> QED
    BY <1>3, <1>5

\* A grant within what the minute leaves keeps every minute paced: the minutes
\* it falls in spent no more before it than the one it was read from.
LEMMA GrantKeepsMinute ==
    ASSUME NEW log \in Ledger, NEW log2 \in Ledger, NEW c \in Time, Ahead(log, c), NEW n \in Nat,
           n <= AtLeastZero(TdCap - AtLeastZero(creditsSpentWithin(log, c))),
           log2.back = log.back, log2.spent = [log.spent EXCEPT ![c] = log.spent[c] + n],
           NEW t \in Time, MinutePaced(log, t)
    PROVE  MinutePaced(log2, t)
  <1> DEFINE S == Sum(log.spent, t - Minute + 1, t)
             B == Sum(log.back, t - 2 * Minute + 1, t)
             Sc == Sum(log.spent, c - Minute + 1, c)
             Bc == Sum(log.back, c - Minute + 1, c)
  <1>0. /\ log.spent \in [Time -> Int] /\ log.back \in [Time -> Int] /\ t \in Int /\ c \in Int
        /\ Minute \in Nat /\ Minute > 0 /\ TdCap \in Nat
    BY CreditsAssumption DEF Ledger, Time
  <1>1. S \in Int /\ B \in Int /\ Sc \in Int /\ Bc \in Int
    BY <1>0, SumType
  <1>2. Sum(log2.spent, t - Minute + 1, t) = S + (IF t - Minute + 1 <= c /\ c <= t THEN n ELSE 0)
    BY <1>0, SumBooked
  <1>3. Sum(log2.back, t - 2 * Minute + 1, t) = B
    OBVIOUS
  <1>4. S <= TdCap + B
    BY DEF MinutePaced
  <1>5. n <= AtLeastZero(TdCap - AtLeastZero(Sc - Bc))
    BY DEF creditsSpentWithin, Net
  <1>6. ASSUME t - Minute + 1 <= c, c <= t PROVE S <= Sc /\ Bc <= B
    <2>1. S <= Sc
      BY <1>0, <1>6, SpentFrom
    <2>2. Bc <= B
      BY <1>0, <1>6, BackGrows
    <2> QED
      BY <2>1, <2>2
  <1> HIDE DEF S, B, Sc, Bc
  <1>7. S + (IF t - Minute + 1 <= c /\ c <= t THEN n ELSE 0) <= TdCap + B
    BY <1>0, <1>1, <1>4, <1>5, <1>6 DEF AtLeastZero
  <1> QED
    BY <1>2, <1>3, <1>7 DEF MinutePaced

LEMMA GrantKeepsHour ==
    ASSUME NEW log \in Ledger, NEW log2 \in Ledger, NEW c \in Time, Ahead(log, c), NEW n \in Nat,
           n <= AtLeastZero(TiCap - AtLeastZero(creditsSpentThisHour(log, c))),
           log2.back = log.back, log2.spent = [log.spent EXCEPT ![c] = log.spent[c] + n],
           NEW t \in Time, HourPaced(log, t)
    PROVE  HourPaced(log2, t)
  <1> DEFINE h == startOfHour(t)
             S == Sum(log.spent, h, t)
             B == Sum(log.back, h, t)
             Sc == Sum(log.spent, startOfHour(c), c)
             Bc == Sum(log.back, startOfHour(c), c)
  <1>a. t \in Nat /\ c \in Nat
    BY CreditsAssumption DEF Time
  <1>b. h \in Nat /\ startOfHour(c) \in Nat
    BY <1>a, HourStarts
  <1>0. /\ log.spent \in [Time -> Int] /\ log.back \in [Time -> Int] /\ t \in Nat /\ c \in Nat
        /\ t \in Int /\ c \in Int
        /\ h \in Int /\ startOfHour(c) \in Int /\ TiCap \in Nat
    BY <1>a, <1>b, CreditsAssumption DEF Ledger
  <1>1. S \in Int /\ B \in Int /\ Sc \in Int /\ Bc \in Int
    BY <1>0, SumType
  <1>2. Sum(log2.spent, h, t) = S + (IF h <= c /\ c <= t THEN n ELSE 0)
    BY <1>0, SumBooked
  <1>4. S <= TiCap + B
    BY DEF HourPaced
  <1>5. n <= AtLeastZero(TiCap - AtLeastZero(Sc - Bc))
    BY DEF creditsSpentThisHour, Net
  <1>6. ASSUME h <= c, c <= t PROVE S <= Sc /\ Bc <= B
    <2>1. startOfHour(c) = h
      BY <1>0, <1>6, SameHour
    <2>2. h <= h
      BY <1>0
    <2>3. S <= Sc
      BY <1>0, <1>6, <2>1, <2>2, SpentFrom
    <2>4. Bc <= B
      BY <1>0, <1>6, <2>1, <2>2, BackGrows
    <2> QED
      BY <2>3, <2>4
  <1>8. log2.back = log.back
    OBVIOUS
  <1>9. HourPaced(log2, t) <=> Sum(log2.spent, h, t) <= TiCap + B
    BY <1>8 DEF HourPaced
  <1> HIDE DEF h, S, B, Sc, Bc
  <1>7. S + (IF h <= c /\ c <= t THEN n ELSE 0) <= TiCap + B
    BY <1>0, <1>1, <1>4, <1>5, <1>6 DEF AtLeastZero
  <1> QED
    BY <1>2, <1>7, <1>9

\* What is handed back only makes room.
LEMMA RefundKeeps ==
    ASSUME NEW log \in Ledger, NEW log2 \in Ledger, NEW c \in Time, NEW n \in Nat,
           log2.spent = log.spent, log2.back = [log.back EXCEPT ![c] = log.back[c] + n], NEW t \in Time
    PROVE  (MinutePaced(log, t) => MinutePaced(log2, t)) /\ (HourPaced(log, t) => HourPaced(log2, t))
  <1>a. t \in Nat
    BY CreditsAssumption DEF Time
  <1>b. startOfHour(t) \in Nat
    BY <1>a, HourStarts
  <1>0. /\ log.spent \in [Time -> Int] /\ log.back \in [Time -> Int] /\ t \in Int
        /\ t - Minute + 1 \in Int /\ t - 2 * Minute + 1 \in Int /\ startOfHour(t) \in Int
        /\ TdCap \in Nat /\ TiCap \in Nat
    BY <1>a, <1>b, CreditsAssumption DEF Ledger
  <1>1. ASSUME NEW a \in Int PROVE /\ Sum(log.back, a, t) <= Sum(log2.back, a, t)
                                   /\ Sum(log.back, a, t) \in Int /\ Sum(log2.back, a, t) \in Int
                                   /\ Sum(log.spent, a, t) \in Int
    <2>1. Sum(log2.back, a, t) = Sum(log.back, a, t) + (IF a <= c /\ c <= t THEN n ELSE 0)
      BY <1>0, SumBooked
    <2>2. Sum(log.back, a, t) \in Int /\ Sum(log.spent, a, t) \in Int
      BY <1>0, SumType
    <2> QED
      BY <2>1, <2>2
  <1>2. Sum(log.spent, t - Minute + 1, t) \in Int /\ Sum(log.spent, startOfHour(t), t) \in Int
    BY <1>0, <1>1
  <1>3. MinutePaced(log, t) => MinutePaced(log2, t)
    BY <1>0, <1>1, <1>2 DEF MinutePaced
  <1>4. HourPaced(log, t) => HourPaced(log2, t)
    BY <1>0, <1>1, <1>2 DEF HourPaced
  <1> QED
    BY <1>3, <1>4

LEMMA AheadBooked ==
    ASSUME NEW log \in Ledger, NEW log2, NEW c \in Time, Ahead(log, c), NEW n \in Nat,
           log2.back = log.back, log2.spent = [log.spent EXCEPT ![c] = log.spent[c] + n]
    PROVE  Ahead(log2, c)
  <1>1. \A t \in Time : t > c => t # c
    BY CreditsAssumption DEF Time
  <1>2. log.spent \in [Time -> Nat] /\ log.back \in [Time -> Nat]
    BY DEF Ledger
  <1> QED
    BY <1>1, <1>2 DEF Ahead

LEMMA AheadHandedBack ==
    ASSUME NEW log \in Ledger, NEW log2, NEW c \in Time, Ahead(log, c), NEW n \in Nat, NEW d \in Time, d <= c,
           log2.spent = log.spent, log2.back = [log.back EXCEPT ![d] = log.back[d] + n]
    PROVE  Ahead(log2, c)
  <1>1. \A t \in Time : t > c => t # d
    BY CreditsAssumption DEF Time
  <1>2. log.spent \in [Time -> Nat] /\ log.back \in [Time -> Nat]
    BY DEF Ledger
  <1> QED
    BY <1>1, <1>2 DEF Ahead

GrantsPacedAt(t) == MinutePaced(ledger["twelvedata"], t) /\ HourPaced(ledger["tiingo"], t)

LEMMA PacedAt == GrantsPaced <=> \A t \in Time : GrantsPacedAt(t)
  BY DEF GrantsPaced, GrantsPacedAt, MinutePaced, HourPaced

LEMMA PacedStep ==
    ASSUME Typed, PacedInv, [Next]_vars PROVE PacedInv'
  <1>0. /\ clock \in Time /\ ledger \in [Providers -> Ledger] /\ ledger' \in [Providers -> Ledger]
        /\ clock' \in Time /\ clock \in Int
        /\ "twelvedata" \in Providers /\ "tiingo" \in Providers /\ "twelvedata" # "tiingo"
        /\ \A v \in Providers : ledger[v] \in Ledger /\ ledger'[v] \in Ledger
    BY TypedStep, CreditsAssumption DEF Typed, TypeOK, Time, Providers
  <1>1. CASE clock' = clock + 1 /\ UNCHANGED ledger
    <2>1. NothingAhead'
      BY <1>0, <1>1, CreditsAssumption DEF PacedInv, NothingAhead, Ahead, Time
    <2> QED
      BY <1>1, <2>1 DEF PacedInv, GrantsPaced
  <1>2. CASE UNCHANGED <<clock, ledger>>
    BY <1>2 DEF PacedInv, GrantsPaced, NothingAhead
  <1>3. ASSUME UNCHANGED clock, NEW v \in Providers, NEW n \in Nat, n <= Room(v), Reserve(v, n) PROVE PacedInv'
    <2>1. /\ \A w \in Providers \ {v} : ledger'[w] = ledger[w]
          /\ ledger'[v].back = ledger[v].back
          /\ ledger'[v].spent = [ledger[v].spent EXCEPT ![clock] = ledger[v].spent[clock] + n]
      BY <1>0, <1>3, Booked
    <2>2. Ahead(ledger[v], clock) /\ clock <= clock
      BY <1>0 DEF PacedInv, NothingAhead
    <2>3. NothingAhead'
      <3>1. Ahead(ledger'[v], clock)
        BY <1>0, <2>1, <2>2, AheadBooked
      <3> QED
        BY <1>3, <2>1, <3>1 DEF PacedInv, NothingAhead
    <2>4. ASSUME NEW t \in Time PROVE GrantsPacedAt(t)'
      <3>0. MinutePaced(ledger["twelvedata"], t) /\ HourPaced(ledger["tiingo"], t)
        BY PacedAt DEF PacedInv, GrantsPacedAt
      <3>1. CASE v = "twelvedata"
        <4>1. n <= AtLeastZero(TdCap - AtLeastZero(creditsSpentWithin(ledger[v], clock)))
          BY <1>3, <3>1 DEF Room
        <4>2. MinutePaced(ledger'["twelvedata"], t)
          BY <1>0, <2>1, <2>2, <3>0, <3>1, <4>1, GrantKeepsMinute
        <4> QED
          BY <1>0, <2>1, <3>0, <3>1, <4>2 DEF GrantsPacedAt
      <3>2. CASE v = "tiingo"
        <4>1. n <= AtLeastZero(TiCap - AtLeastZero(creditsSpentThisHour(ledger[v], clock)))
          BY <1>3, <3>2 DEF Room
        <4>2. HourPaced(ledger'["tiingo"], t)
          BY <1>0, <2>1, <2>2, <3>0, <3>2, <4>1, GrantKeepsHour
        <4> QED
          BY <1>0, <2>1, <3>0, <3>2, <4>2 DEF GrantsPacedAt
      <3> QED
        BY <3>1, <3>2 DEF Providers
    <2>5. GrantsPaced'
      BY <2>4 DEF GrantsPaced, GrantsPacedAt, MinutePaced, HourPaced
    <2> QED
      BY <2>3, <2>5 DEF PacedInv
  <1>4. ASSUME UNCHANGED clock, NEW v \in Providers, NEW n \in Nat, NEW d \in Time, d <= clock, Release(v, n, d)
        PROVE  PacedInv'
    <2>1. PICK m \in Nat :
             /\ \A w \in Providers \ {v} : ledger'[w] = ledger[w]
             /\ ledger'[v].spent = ledger[v].spent
             /\ ledger'[v].back = [ledger[v].back EXCEPT ![d] = ledger[v].back[d] + m]
      <3> DEFINE m == Least(n, outstandingCredits(ledger[v]))
      <3>1. /\ m \in Nat
            /\ \A w \in Providers \ {v} : ledger'[w] = ledger[w]
            /\ ledger'[v].spent = ledger[v].spent
            /\ ledger'[v].back = [ledger[v].back EXCEPT ![d] = ledger[v].back[d] + m]
        <4>1. ledger \in [Providers -> Ledger] /\ Release(v, n, d)
          BY <1>0, <1>4
        <4>2. /\ \A w \in Providers \ {v} : ledger'[w] = ledger[w]
              /\ ledger'[v].spent = ledger[v].spent
              /\ Least(n, outstandingCredits(ledger[v])) \in Nat
              /\ ledger'[v].back = [ledger[v].back EXCEPT ![d] =
                    ledger[v].back[d] + Least(n, outstandingCredits(ledger[v]))]
          BY <4>1, HandedBack
        <4> QED
          BY <4>2
      <3> HIDE DEF m
      <3> QED
        BY <3>1
    <2>3. NothingAhead'
      <3>1. Ahead(ledger[v], clock)
        BY DEF PacedInv, NothingAhead
      <3>2. Ahead(ledger'[v], clock)
        BY <1>0, <1>4, <2>1, <3>1, AheadHandedBack
      <3> QED
        BY <1>4, <2>1, <3>2 DEF PacedInv, NothingAhead
    <2>4. ASSUME NEW t \in Time PROVE GrantsPacedAt(t)'
      <3>0. MinutePaced(ledger["twelvedata"], t) /\ HourPaced(ledger["tiingo"], t)
        BY PacedAt DEF PacedInv, GrantsPacedAt
      <3>1. \A w \in Providers : /\ MinutePaced(ledger[w], t) => MinutePaced(ledger'[w], t)
                                 /\ HourPaced(ledger[w], t) => HourPaced(ledger'[w], t)
        BY <1>0, <2>1, RefundKeeps
      <3> QED
        BY <1>0, <3>0, <3>1 DEF GrantsPacedAt
    <2>5. GrantsPaced'
      BY <2>4 DEF GrantsPaced, GrantsPacedAt, MinutePaced, HourPaced
    <2> QED
      BY <2>3, <2>5 DEF PacedInv
  <1>5. Books \/ (clock' = clock + 1 /\ UNCHANGED ledger)
    BY TypedStep
  <1> QED
    BY <1>1, <1>2, <1>3, <1>4, <1>5 DEF Books, Grants, Refunds

\* However the pulls overlap, no minute and no hour sees more grants than its
\* cap and what was handed back (GrantsPaced; quotes.ts loadQuotes, tiingo-fallback.ts).
THEOREM NoCreditSpentTwice == Spec => []GrantsPaced
  <1>1. Init => Typed /\ PacedInv
    BY TypedInit, PacedInit
  <1>2. (Typed /\ PacedInv) /\ [Next]_vars => (Typed /\ PacedInv)'
    BY TypedStep, PacedStep
  <1>3. Typed /\ PacedInv => GrantsPaced
    BY DEF PacedInv
  <1> QED
    BY <1>1, <1>2, <1>3, PTL DEF Spec

----------------------------------------------------------------------------
\* The wait ends by the instant the last booking leaves the window.
LEMMA WaitFills ==
    ASSUME NEW log \in Ledger, NEW c \in Time, Ahead(log, c)
    PROVE  LET d == twelveDataMinuteReadyDelay(log, c)
           IN d <= Minute /\ creditsSpentWithin(log, c + d) <= 0
  <1>0. /\ log.spent \in [Time -> Nat] /\ log.back \in [Time -> Nat]
        /\ log.spent \in [Time -> Int] /\ log.back \in [Time -> Int]
        /\ c \in Nat /\ c \in Int /\ Minute \in Nat /\ Minute > 0 /\ MaxTime \in Nat
        /\ \A t \in Time : t \in Nat
    BY CreditsAssumption DEF Ledger, Time
  <1> DEFINE ends == {u \in (c + 1) .. (c + Minute) :
                    /\ u - Minute \in Time
                    /\ log.spent[u - Minute] + log.back[u - Minute] > 0
                    /\ creditsSpentWithin(log, u) <= 0}
             first == CHOOSE u \in ends : \A w \in ends : u <= w
  <1>1. twelveDataMinuteReadyDelay(log, c) =
           IF creditsSpentWithin(log, c) <= 0 \/ ends = {} THEN 0 ELSE first - c
    BY DEF twelveDataMinuteReadyDelay
  <1>2. CASE creditsSpentWithin(log, c) <= 0
    <2>1. twelveDataMinuteReadyDelay(log, c) = 0
      BY <1>1, <1>2
    <2>2. c + 0 = c /\ 0 <= Minute
      BY <1>0
    <2> QED
      BY <1>2, <2>1, <2>2
  <1>3. CASE ~ (creditsSpentWithin(log, c) <= 0)
    <2> DEFINE booked == {t \in Time : c - Minute + 1 <= t /\ t <= c /\ log.spent[t] + log.back[t] > 0}
    <2>1. booked # {}
      <3>1. SUFFICES ASSUME booked = {} PROVE FALSE
        OBVIOUS
      <3>2. \A t \in Time : c - Minute + 1 <= t /\ t <= c => log.spent[t] = 0 /\ log.back[t] = 0
        <4>1. ASSUME NEW t \in Time, c - Minute + 1 <= t, t <= c PROVE log.spent[t] = 0 /\ log.back[t] = 0
          <5>1. ~ (log.spent[t] + log.back[t] > 0)
            BY <3>1, <4>1
          <5>2. log.spent[t] \in Nat /\ log.back[t] \in Nat
            BY <1>0
          <5> QED
            BY <5>1, <5>2
        <4> QED
          BY <4>1
      <3>3. Sum(log.spent, c - Minute + 1, c) = 0 /\ Sum(log.back, c - Minute + 1, c) = 0
        BY <1>0, <3>2, SumOfNone
      <3> QED
        BY <1>3, <3>3 DEF creditsSpentWithin, Net
    <2>2. PICK last \in booked : \A t \in booked : t <= last
      <3> DEFINE gaps == {c - t : t \in booked}
      <3>1. gaps \in SUBSET Nat /\ gaps # {}
        <4>1. \A t \in booked : c - t \in Nat
          BY <1>0
        <4> HIDE DEF booked
        <4> QED
          BY <2>1, <4>1
      <3>2. PICK g \in gaps : \A h \in gaps : g <= h
        <4> HIDE DEF gaps
        <4> QED
          BY <3>1, FirstOf
      <3>3. PICK last \in booked : g = c - last
        BY <3>2
      <3>4. \A t \in booked : c - last <= c - t
        BY <3>2, <3>3
      <3> QED
        BY <1>0, <3>4
    <2>3. last \in Time /\ last \in Nat /\ c - Minute + 1 <= last /\ last <= c /\ log.spent[last] + log.back[last] > 0
      BY <1>0
    <2>4. \A t \in Time : last + 1 <= t => log.spent[t] = 0 /\ log.back[t] = 0
      <3>1. ASSUME NEW t \in Time, last + 1 <= t, t <= c PROVE log.spent[t] = 0 /\ log.back[t] = 0
        <4>1. t \in Nat /\ ~ (t <= last) /\ c - Minute + 1 <= t
          BY <1>0, <2>3, <3>1
        <4>2. t \notin booked
          BY <2>2, <4>1
        <4>3. ~ (log.spent[t] + log.back[t] > 0)
          BY <3>1, <4>1, <4>2
        <4>4. log.spent[t] \in Nat /\ log.back[t] \in Nat
          BY <1>0
        <4> QED
          BY <4>3, <4>4
      <3>2. \A t \in Time : t <= c \/ t > c
        BY <1>0
      <3> QED
        BY <3>1, <3>2 DEF Ahead
    <2> HIDE DEF booked
    <2> DEFINE e == last + Minute
    <2>5. e \in ends
      <3>1. e \in (c + 1) .. (c + Minute) /\ e - Minute = last /\ e \in Int /\ e - Minute + 1 = last + 1
        BY <1>0, <2>3
      <3> HIDE DEF e
      <3>2. Sum(log.spent, e - Minute + 1, e) = 0 /\ Sum(log.back, e - Minute + 1, e) = 0
        BY <1>0, <2>3, <2>4, <3>1, SumOfNone
      <3>3. creditsSpentWithin(log, e) <= 0
        BY <3>2 DEF creditsSpentWithin, Net
      <3> QED
        BY <2>3, <3>1, <3>3
    <2>6. first \in ends
      <3>1. ends \in SUBSET Nat
        BY <1>0
      <3>2. \E u \in ends : \A w \in ends : u <= w
        <4> HIDE DEF ends
        <4> QED
          BY <2>5, <3>1, FirstOf
      <3> QED
        BY <3>2
    <2>7. twelveDataMinuteReadyDelay(log, c) = first - c
      BY <1>1, <1>3, <2>5
    <2>8. first \in (c + 1) .. (c + Minute) /\ creditsSpentWithin(log, first) <= 0
      BY <2>6
    <2> HIDE DEF first
    <2>9. c + (first - c) = first /\ first - c <= Minute
      BY <1>0, <2>8
    <2> QED
      BY <2>7, <2>8, <2>9
  <1> QED
    BY <1>2, <1>3

\* A wait for the minute's whole pool is no longer than a minute and ends with
\* nothing left in the window (WaitFillsMinute; reservation.ts).
THEOREM WaitEndsWithPool == Spec => []WaitFillsMinute
  <1>1. Init => Typed /\ PacedInv
    BY TypedInit, PacedInit
  <1>2. (Typed /\ PacedInv) /\ [Next]_vars => (Typed /\ PacedInv)'
    BY TypedStep, PacedStep
  <1>3. ASSUME Typed, PacedInv PROVE WaitFillsMinute
    <2>1. ledger["twelvedata"] \in Ledger /\ clock \in Time /\ Ahead(ledger["twelvedata"], clock)
      BY <1>3 DEF Typed, TypeOK, PacedInv, NothingAhead, Providers
    <2> QED
      BY <2>1, WaitFills DEF WaitFillsMinute
  <1> QED
    BY <1>1, <1>2, <1>3, PTL DEF Spec

----------------------------------------------------------------------------
\* 5. Truthful ledgers.
\* What all pulls have of o.
Counted(o) == Cardinality(UNION {{q} \X (1 .. o[q]) : q \in PullIds})

LEMMA CountedFinite ==
    ASSUME NEW S \in SUBSET PullIds, NEW o, \A q \in S : o[q] \in Nat
    PROVE  IsFiniteSet(UNION {{q} \X (1 .. o[q]) : q \in S})
  <1> DEFINE Of(q) == {q} \X (1 .. o[q])
             T == {Of(q) : q \in S}
             f == [q \in S |-> Of(q)]
  <1>1. f \in Surjection(S, T)
    BY DEF Surjection
  <1>2. IsFiniteSet(S)
    BY PullsAssumption, FS_Subset
  <1>3. IsFiniteSet(T)
    <2> HIDE DEF f, T
    <2> QED
      BY <1>1, <1>2, FS_Surjection
  <1>4. \A q \in S : IsFiniteSet(Of(q))
    <2>1. ASSUME NEW q \in S PROVE IsFiniteSet({q}) /\ IsFiniteSet(1 .. o[q])
      <3>1. o[q] \in Int
        OBVIOUS
      <3>2. IsFiniteSet(1 .. o[q])
        BY <3>1, 1 \in Int, FS_Interval
      <3>3. IsFiniteSet({q})
        BY FS_Singleton
      <3> QED
        BY <3>2, <3>3
    <2> QED
      BY <2>1, FS_Product
  <1>5. \A X \in T : IsFiniteSet(X)
    <2> HIDE DEF Of
    <2> QED
      BY <1>4
  <1>6. IsFiniteSet(UNION T)
    <2> HIDE DEF T
    <2> QED
      BY <1>3, <1>5, FS_UNION
  <1> QED
    BY <1>6

\* What changes for one pull changes as much for all.
LEMMA CountedChanges ==
    ASSUME NEW o, NEW o2, \A q \in PullIds : o[q] \in Nat /\ o2[q] \in Nat,
           NEW p \in PullIds, \A q \in PullIds \ {p} : o2[q] = o[q]
    PROVE  /\ Counted(o) \in Nat /\ Counted(o2) \in Nat /\ o[p] <= Counted(o)
           /\ Counted(o2) = Counted(o) - o[p] + o2[p]
  <1> DEFINE Of(q, n) == {q} \X (1 .. n)
             Rest == UNION {Of(q, o[q]) : q \in PullIds \ {p}}
  <1>1. ASSUME NEW q, NEW n \in Nat PROVE IsFiniteSet(Of(q, n)) /\ Cardinality(Of(q, n)) = n
    <2>1. IsFiniteSet(1 .. n) /\ Cardinality(1 .. n) = n
      BY FS_Interval
    <2>2. IsFiniteSet({q}) /\ Cardinality({q}) = 1
      BY FS_Singleton
    <2>3. IsFiniteSet(Of(q, n)) /\ Cardinality(Of(q, n)) = Cardinality({q}) * Cardinality(1 .. n)
      BY <2>1, <2>2, FS_Product
    <2> QED
      BY <2>1, <2>2, <2>3
  <1>2. IsFiniteSet(Rest)
    BY CountedFinite, PullIds \ {p} \in SUBSET PullIds
  <1>3. ASSUME NEW x, NEW n \in Nat, x[p] = n, \A q \in PullIds \ {p} : x[q] = o[q]
        PROVE  Counted(x) = Cardinality(Rest) + n
    <2>1. UNION {{q} \X (1 .. x[q]) : q \in PullIds} = Rest \cup Of(p, n)
      BY <1>3
    <2>2. Rest \cap Of(p, n) = {}
      OBVIOUS
    <2> HIDE DEF Rest, Of
    <2>3. Cardinality(Rest \cup Of(p, n)) = Cardinality(Rest) + Cardinality(Of(p, n)) - Cardinality(Rest \cap Of(p, n))
      BY <1>1, <1>2, FS_Union
    <2>4. Cardinality(Rest) \in Nat /\ Cardinality(Rest \cap Of(p, n)) = 0 /\ Cardinality(Of(p, n)) = n
      BY <1>1, <1>2, <2>2, FS_CardinalityType, FS_EmptySet
    <2>5. Cardinality(Rest \cup Of(p, n)) = Cardinality(Rest) + n
      BY <1>3, <2>3, <2>4
    <2> QED
      BY <2>1, <2>5 DEF Counted
  <1>4. Cardinality(Rest) \in Nat
    BY <1>2, FS_CardinalityType
  <1>5. Counted(o) = Cardinality(Rest) + o[p] /\ Counted(o2) = Cardinality(Rest) + o2[p]
    <2> HIDE DEF Rest
    <2> QED
      BY <1>3
  <1> HIDE DEF Rest
  <1> QED
    BY <1>4, <1>5

LEMMA CountedNone == ASSUME NEW o, \A q \in PullIds : o[q] = 0 PROVE Counted(o) = 0
  <1>1. \A q \in PullIds : 1 .. o[q] = {}
    OBVIOUS
  <1>2. UNION {{q} \X (1 .. o[q]) : q \in PullIds} = {}
    BY <1>1
  <1> QED
    BY <1>2, FS_EmptySet DEF Counted

LEMMA CountedGrows ==
    ASSUME NEW o, NEW o2, \A q \in PullIds : o[q] \in Nat /\ o2[q] \in Nat /\ o[q] <= o2[q]
    PROVE  Counted(o) \in Nat /\ Counted(o2) \in Nat /\ Counted(o) <= Counted(o2)
  <1> DEFINE A == UNION {{q} \X (1 .. o[q]) : q \in PullIds}
             B == UNION {{q} \X (1 .. o2[q]) : q \in PullIds}
  <1>1. IsFiniteSet(A) /\ IsFiniteSet(B)
    BY CountedFinite
  <1>2. A \subseteq B
    <2>1. \A q \in PullIds : 1 .. o[q] \subseteq 1 .. o2[q]
      OBVIOUS
    <2> QED
      BY <2>1
  <1> HIDE DEF A, B
  <1>3. Cardinality(A) \in Nat /\ Cardinality(B) \in Nat /\ Cardinality(A) <= Cardinality(B)
    BY <1>1, <1>2, FS_Subset, FS_CardinalityType
  <1> QED
    BY <1>3 DEF A, B, Counted

\* The credits of v that the call of p may still cost: what the other of its two
\* calls took is billed already.
Owed(p, v) ==
    IF v = "tiingo" THEN (IF phase[p] \in TiPhases THEN flight[p].n ELSE 0)
    ELSE IF phase[p] \in {"fxTd", "market"} THEN flight[p].n
    ELSE IF phase[p] = "nav" THEN Cardinality(flight[p].ask \cap NavSymbols)
    ELSE 0
Owes(v) == Counted([q \in PullIds |-> Owed(q, v)])
\* What the ledger of v holds.
OnBooks(v) == Net(ledger[v], 0, MaxTime)

Truth(v) ==
    /\ OnBooks(v) <= billed[v] + Owes(v)
    /\ v = "tiingo" => OnBooks(v) = billed[v] + Owes(v)

\* A grant is spent on what is asked for.
Weighed == \A p \in PullIds : phase[p] \in {"market", "nav"} => flight[p].n = Cardinality(flight[p].ask)

TruthInv == Weighed /\ \A v \in Providers : Truth(v)

LEMMA OwedType == ASSUME Typed, NEW p \in PullIds, NEW v PROVE Owed(p, v) \in Nat
  <1>1. flight[p] \in Flight
    BY DEF Typed, TypeOK
  <1>2. flight[p].ask \cap NavSymbols \in SUBSET Symbols /\ flight[p].n \in Nat
    BY <1>1 DEF Flight
  <1>3. Cardinality(flight[p].ask \cap NavSymbols) \in Nat
    BY <1>2, CountType
  <1> QED
    BY <1>2, <1>3 DEF Owed

LEMMA TruthInit == ASSUME Init PROVE TruthInv
  <1>1. Weighed
    BY DEF Init, Weighed
  <1>2. ASSUME NEW v \in Providers PROVE Truth(v)
    <2> DEFINE o == [q \in PullIds |-> Owed(q, v)]
    <2>1. \A q \in PullIds : o[q] = 0
      BY DEF Owed, Init, TiPhases
    <2>2. Owes(v) = 0
      <3> HIDE DEF o
      <3>1. Counted(o) = 0
        BY <2>1, CountedNone
      <3> QED
        BY <3>1 DEF o, Owes
    <2>3. OnBooks(v) = 0
      <3> DEFINE z == [t \in Time |-> 0]
      <3>1. z \in [Time -> Int] /\ (\A t \in Time : 0 <= t /\ t <= MaxTime => z[t] = 0) /\ MaxTime \in Int
        BY CreditsAssumption
      <3>2. ledger[v].spent = z /\ ledger[v].back = z
        BY DEF Init, EmptyLedger
      <3> HIDE DEF z
      <3>3. Sum(z, 0, MaxTime) = 0
        BY <3>1, SumOfNone
      <3> QED
        BY <3>2, <3>3 DEF OnBooks, Net
    <2>4. billed[v] = 0
      BY DEF Init
    <2> QED
      BY <2>2, <2>3, <2>4 DEF Truth
  <1> QED
    BY <1>1, <1>2 DEF TruthInv

OwedCounts == \A q \in PullIds : \A v \in Providers : Owed(q, v) \in Nat
LEMMA OwedTypes == Typed => OwedCounts
  BY OwedType DEF OwedCounts

\* Of a step of p: the calls of the other pulls stay as they are.
OnlyOf(p) == \A q \in PullIds \ {p} : phase'[q] = phase[q] /\ flight'[q] = flight[q]

LEMMA OwesChanges ==
    ASSUME Typed, Typed', NEW p \in PullIds, OnlyOf(p), NEW v \in Providers
    PROVE  /\ Owes(v) \in Nat /\ Owed(p, v) \in Nat /\ Owed(p, v)' \in Nat /\ Owed(p, v) <= Owes(v)
           /\ Owes(v)' = Owes(v) - Owed(p, v) + Owed(p, v)'
  <1> DEFINE o == [q \in PullIds |-> Owed(q, v)]
             o2 == [q \in PullIds |-> Owed(q, v)']
  <1>1. \A q \in PullIds : o[q] \in Nat /\ o[q] = Owed(q, v)
    BY OwedType
  <1>2. \A q \in PullIds : o2[q] \in Nat /\ o2[q] = Owed(q, v)'
    <2>1. OwedCounts'
      BY OwedTypes, PTL
    <2> QED
      BY <2>1 DEF OwedCounts
  <1>3. \A q \in PullIds \ {p} : o2[q] = o[q]
    BY DEF OnlyOf, Owed
  <1>4. Owes(v) = Counted(o) /\ Owes(v)' = Counted(o2)
    BY DEF Owes, Counted
  <1> HIDE DEF o, o2
  <1>5. /\ Counted(o) \in Nat /\ o[p] <= Counted(o)
        /\ Counted(o2) = Counted(o) - o[p] + o2[p]
    BY <1>1, <1>2, <1>3, CountedChanges
  <1> QED
    BY <1>1, <1>2, <1>4, <1>5

LEMMA OnBooksType == ASSUME Typed, NEW v \in Providers PROVE OnBooks(v) \in Int
  <1>1. ledger[v] \in Ledger /\ MaxTime \in Int
    BY CreditsAssumption DEF Typed, TypeOK
  <1> QED
    BY <1>1, NetType DEF OnBooks

LEMMA OnBooksBooked ==
    ASSUME Typed, NEW v \in Providers, NEW n \in Nat, Reserve(v, n)
    PROVE  OnBooks(v)' = OnBooks(v) + n /\ \A w \in Providers \ {v} : OnBooks(w)' = OnBooks(w)
  <1>0. /\ ledger \in [Providers -> Ledger] /\ clock \in Time
    BY DEF Typed, TypeOK
  <1>1. /\ \A w \in Providers \ {v} : ledger'[w] = ledger[w]
        /\ ledger'[v].back = ledger[v].back
        /\ ledger'[v].spent = [ledger[v].spent EXCEPT ![clock] = ledger[v].spent[clock] + n]
    BY <1>0, Booked
  <1>2. ledger[v].spent \in [Time -> Int] /\ ledger[v].back \in [Time -> Int] /\ MaxTime \in Int
    BY <1>0, CreditsAssumption DEF Ledger
  <1>3. Sum(ledger'[v].spent, 0, MaxTime) = Sum(ledger[v].spent, 0, MaxTime) + n
    <2>1. 0 <= clock /\ clock <= MaxTime
      BY <1>0, CreditsAssumption DEF Time
    <2> QED
      BY <1>0, <1>1, <1>2, <2>1, SumBooked
  <1>4. Sum(ledger[v].spent, 0, MaxTime) \in Int /\ Sum(ledger[v].back, 0, MaxTime) \in Int
    BY <1>2, SumType
  <1>5. Sum(ledger'[v].back, 0, MaxTime) = Sum(ledger[v].back, 0, MaxTime)
    BY <1>1
  <1>6. OnBooks(v)' = Sum(ledger'[v].spent, 0, MaxTime) - Sum(ledger'[v].back, 0, MaxTime)
    BY DEF OnBooks, Net
  <1>7. OnBooks(v) = Sum(ledger[v].spent, 0, MaxTime) - Sum(ledger[v].back, 0, MaxTime)
    BY DEF OnBooks, Net
  <1>8. OnBooks(v)' = OnBooks(v) + n
    BY <1>3, <1>4, <1>5, <1>6, <1>7
  <1> QED
    BY <1>1, <1>8 DEF OnBooks

LEMMA OnBooksHandedBack ==
    ASSUME Typed, NEW v \in Providers, NEW n \in Nat, NEW t \in Time, Release(v, n, t)
    PROVE  /\ OnBooks(v)' = OnBooks(v) - Least(n, AtLeastZero(OnBooks(v)))
           /\ \A w \in Providers \ {v} : OnBooks(w)' = OnBooks(w)
  <1>0. ledger \in [Providers -> Ledger]
    BY DEF Typed, TypeOK
  <1> DEFINE m == Least(n, outstandingCredits(ledger[v]))
  <1>1. /\ \A w \in Providers \ {v} : ledger'[w] = ledger[w]
        /\ ledger'[v].spent = ledger[v].spent
        /\ m \in Nat
        /\ ledger'[v].back = [ledger[v].back EXCEPT ![t] = ledger[v].back[t] + m]
    <2>1. /\ \A w \in Providers \ {v} : ledger'[w] = ledger[w]
          /\ ledger'[v].spent = ledger[v].spent
          /\ Least(n, outstandingCredits(ledger[v])) \in Nat
          /\ ledger'[v].back = [ledger[v].back EXCEPT ![t] =
                ledger[v].back[t] + Least(n, outstandingCredits(ledger[v]))]
      BY <1>0, HandedBack
    <2> QED
      BY <2>1
  <1>m. m = Least(n, AtLeastZero(OnBooks(v)))
    BY DEF outstandingCredits, OnBooks
  <1> HIDE DEF m
  <1>2. ledger[v].spent \in [Time -> Int] /\ ledger[v].back \in [Time -> Int] /\ MaxTime \in Int
    BY <1>0, CreditsAssumption DEF Ledger
  <1>3. Sum(ledger'[v].back, 0, MaxTime) = Sum(ledger[v].back, 0, MaxTime) + m
    <2>1. 0 <= t /\ t <= MaxTime
      BY CreditsAssumption DEF Time
    <2> QED
      BY <1>1, <1>2, <2>1, SumBooked
  <1>4. Sum(ledger[v].spent, 0, MaxTime) \in Int /\ Sum(ledger[v].back, 0, MaxTime) \in Int
    BY <1>2, SumType
  <1>5. Sum(ledger'[v].spent, 0, MaxTime) = Sum(ledger[v].spent, 0, MaxTime)
    BY <1>1
  <1>6. OnBooks(v)' = Sum(ledger'[v].spent, 0, MaxTime) - Sum(ledger'[v].back, 0, MaxTime)
    BY DEF OnBooks, Net
  <1>7. OnBooks(v) = Sum(ledger[v].spent, 0, MaxTime) - Sum(ledger[v].back, 0, MaxTime)
    BY DEF OnBooks, Net
  <1>8. OnBooks(v)' = OnBooks(v) - m
    BY <1>1, <1>3, <1>4, <1>5, <1>6, <1>7
  <1> QED
    BY <1>1, <1>8, <1>m DEF OnBooks

----------------------------------------------------------------------------
Truths == \A v \in Providers : Truth(v)
Start(p) == Typed /\ Typed' /\ Truths /\ OnlyOf(p)

LEMMA TruthRests ==
    ASSUME NEW p \in PullIds, Start(p), NEW v \in Providers, OnBooks(v)' = OnBooks(v), billed'[v] = billed[v],
           Owed(p, v)' = Owed(p, v)
    PROVE  Truth(v)'
  <1>1. Owes(v)' = Owes(v)
    BY OwesChanges DEF Start
  <1> QED
    BY <1>1 DEF Start, Truths, Truth

LEMMA TruthBooks ==
    ASSUME NEW p \in PullIds, Start(p), NEW v \in Providers, NEW n \in Nat, Reserve(v, n), UNCHANGED billed,
           Owed(p, v)' = Owed(p, v) + n, \A w \in Providers \ {v} : Owed(p, w)' = Owed(p, w)
    PROVE  Truths'
  <1>1. /\ OnBooks(v)' = OnBooks(v) + n /\ \A w \in Providers \ {v} : OnBooks(w)' = OnBooks(w)
        /\ OnBooks(v) \in Int /\ billed[v] \in Nat
    BY OnBooksBooked, OnBooksType DEF Start, Typed, TypeOK
  <1>2. Owes(v)' = Owes(v) + n /\ Owes(v) \in Nat
    <2>1. /\ Owes(v) \in Nat /\ Owed(p, v) \in Nat
          /\ Owes(v)' = Owes(v) - Owed(p, v) + Owed(p, v)'
      BY OwesChanges DEF Start
    <2> QED
      BY <2>1
  <1>3. Truth(v)'
    BY <1>1, <1>2 DEF Start, Truths, Truth
  <1>4. \A w \in Providers \ {v} : Truth(w)'
    BY <1>1, TruthRests
  <1> QED
    BY <1>3, <1>4 DEF Truths

LEMMA TruthBills ==
    ASSUME NEW p \in PullIds, Start(p), NEW v \in Providers, NEW n \in Nat, Bill(v, n), UNCHANGED ledger,
           Owed(p, v) = Owed(p, v)' + n, \A w \in Providers \ {v} : Owed(p, w)' = Owed(p, w)
    PROVE  Truths'
  <1>1. /\ \A w \in Providers : OnBooks(w)' = OnBooks(w)
        /\ OnBooks(v) \in Int /\ billed[v] \in Nat /\ billed'[v] = billed[v] + n
        /\ \A w \in Providers \ {v} : billed'[w] = billed[w]
    BY OnBooksType DEF Start, Typed, TypeOK, Bill, OnBooks
  <1>2. Owes(v)' + n = Owes(v) /\ Owes(v) \in Nat /\ Owes(v)' \in Int
    <2>1. /\ Owes(v) \in Nat /\ Owed(p, v)' \in Nat
          /\ Owes(v)' = Owes(v) - Owed(p, v) + Owed(p, v)'
      BY OwesChanges DEF Start
    <2> QED
      BY <2>1
  <1>3. Truth(v)'
    BY <1>1, <1>2 DEF Start, Truths, Truth
  <1>4. \A w \in Providers \ {v} : Truth(w)'
    BY <1>1, TruthRests
  <1> QED
    BY <1>3, <1>4 DEF Truths

LEMMA TruthRefunds ==
    ASSUME NEW p \in PullIds, Start(p), NEW v \in Providers, NEW n \in Nat, NEW t \in Time, Release(v, n, t),
           UNCHANGED billed, Owed(p, v)' = 0, Owed(p, v) <= n, v = "tiingo" => Owed(p, v) = n,
           \A w \in Providers \ {v} : Owed(p, w)' = Owed(p, w)
    PROVE  Truths'
  <1>1. /\ OnBooks(v)' = OnBooks(v) - Least(n, AtLeastZero(OnBooks(v)))
        /\ \A w \in Providers \ {v} : OnBooks(w)' = OnBooks(w)
        /\ OnBooks(v) \in Int /\ billed[v] \in Nat
    BY OnBooksHandedBack, OnBooksType DEF Start, Typed, TypeOK
  <1>2. /\ Owes(v) \in Nat /\ Owed(p, v) \in Nat /\ Owed(p, v) <= Owes(v)
        /\ Owes(v)' = Owes(v) - Owed(p, v)
    <2>1. /\ Owes(v) \in Nat /\ Owed(p, v) \in Nat /\ Owed(p, v) <= Owes(v)
          /\ Owes(v)' = Owes(v) - Owed(p, v) + Owed(p, v)'
      BY OwesChanges DEF Start
    <2> QED
      BY <2>1
  <1>3. Truth(v)
    BY DEF Start, Truths
  <1>4. billed'[v] = billed[v]
    OBVIOUS
  <1>5. OnBooks(v)' <= billed'[v] + Owes(v)'
    BY <1>1, <1>2, <1>3, <1>4 DEF Truth, Least, AtLeastZero
  <1>6. v = "tiingo" => OnBooks(v)' = billed'[v] + Owes(v)'
    <2>1. SUFFICES ASSUME v = "tiingo" PROVE OnBooks(v)' = billed'[v] + Owes(v)'
      OBVIOUS
    <2>2. OnBooks(v) = billed[v] + Owes(v) /\ Owed(p, v) = n
      BY <1>3, <2>1 DEF Truth
    <2>3. OnBooks(v) >= n /\ Least(n, AtLeastZero(OnBooks(v))) = n
      BY <1>1, <1>2, <2>2 DEF Least, AtLeastZero
    <2> QED
      BY <1>1, <1>2, <1>4, <2>2, <2>3
  <1>7. Truth(v)'
    BY <1>5, <1>6 DEF Truth
  <1>8. \A w \in Providers \ {v} : Truth(w)'
    BY <1>1, TruthRests
  <1> QED
    BY <1>7, <1>8 DEF Truths

WeighedAt(p) == phase[p] \in {"market", "nav"} => flight[p].n = Cardinality(flight[p].ask)

Resting(p) == phase[p] \notin TdPhases \cup TiPhases

\* No call on its way, nothing owed.
LEMMA OwedNone == ASSUME NEW p, Resting(p), NEW v PROVE Owed(p, v) = 0
  BY DEF Resting, Owed, TdPhases, TiPhases
LEMMA OwedNoneNext == ASSUME NEW p, Resting(p)', NEW v PROVE Owed(p, v)' = 0
  BY DEF Resting, Owed, TdPhases, TiPhases

LEMMA TruthStep ==
    ASSUME TruthInv, NEW p \in PullIds, OnlyOf(p), WeighedAt(p)', Truths' PROVE TruthInv'
  BY DEF TruthInv, Truths, Weighed, WeighedAt, OnlyOf

LEMMA StartOf == ASSUME Typed, Typed', TruthInv, NEW p \in PullIds, OnlyOf(p) PROVE Start(p)
  BY DEF Start, TruthInv, Truths

LEMMA WeighedResting == ASSUME NEW p, Resting(p)' PROVE WeighedAt(p)'
  BY DEF WeighedAt, Resting, TdPhases

LEMMA WentTo == ASSUME Typed, NEW p \in PullIds, NEW to, Goto(p, to)
                PROVE  phase'[p] = to /\ \A q \in PullIds \ {p} : phase'[q] = phase[q]
  BY DEF Typed, TypeOK, Goto

LEMMA TookOff ==
    ASSUME Typed, NEW p \in PullIds, NEW n, NEW at, NEW ask, NEW fresh, NEW open, InFlight(p, n, at, ask, fresh, open)
    PROVE  /\ flight'[p].n = n /\ flight'[p].ask = ask /\ \A q \in PullIds \ {p} : flight'[q] = flight[q]
  <1> DEFINE f == [n |-> n, at |-> at, ask |-> ask, got |-> {}, fresh |-> fresh, open |-> open]
  <1>1. flight' = [flight EXCEPT ![p] = f]
    BY DEF InFlight
  <1>2. f.n = n /\ f.ask = ask
    OBVIOUS
  <1> HIDE DEF f
  <1> QED
    BY <1>1, <1>2 DEF Typed, TypeOK

LEMMA LandedOnly == ASSUME Typed, NEW p \in PullIds, Landed(p)
                    PROVE  \A q \in PullIds \ {p} : flight'[q] = flight[q]
  BY DEF Typed, TypeOK, Landed

LEMMA WentOnly ==
    ASSUME Typed, NEW p \in PullIds, NEW r, NEW again, Delivered(p, r, again) \/ AfterBackup(p, r)
    PROVE  /\ phase'[p] \in {"done", "fallback", "net"} /\ Resting(p)'
           /\ \A q \in PullIds \ {p} : phase'[q] = phase[q]
  <1>1. PICK to \in {"done", "fallback", "net"} : Goto(p, to)
    BY DEF Delivered, AfterBackup
  <1> QED
    BY <1>1, WentTo DEF Resting, TdPhases, TiPhases

\* A step of p that books and bills nothing, before and after a call.
LEMMA TruthIdles ==
    ASSUME Typed, Typed', TruthInv, NEW p \in PullIds, OnlyOf(p), Resting(p), Resting(p)', UNCHANGED <<ledger, billed>>
    PROVE  TruthInv'
  <1>1. \A v \in Providers : Owed(p, v)' = Owed(p, v)
    BY OwedNone, OwedNoneNext
  <1>2. ASSUME NEW v \in Providers PROVE Truth(v)'
    <2>1. OnBooks(v)' = OnBooks(v) /\ billed'[v] = billed[v]
      BY DEF OnBooks
    <2> QED
      BY <1>1, <2>1, StartOf, TruthRests
  <1>3. Truths'
    BY <1>2 DEF Truths
  <1> QED
    BY <1>3, WeighedResting, TruthStep

LEMMA TruthTime == ASSUME TruthInv, UNCHANGED <<ledger, billed, phase, flight>> PROVE TruthInv'
  <1>1. Weighed'
    BY DEF TruthInv, Weighed
  <1>2. ASSUME NEW v \in Providers PROVE Truth(v)'
    <2>1. \A q : Owed(q, v)' = Owed(q, v)
      BY DEF Owed
    <2>2. Owes(v)' = Owes(v)
      BY <2>1 DEF Owes, Counted
    <2> QED
      BY <2>2 DEF TruthInv, Truth, OnBooks
  <1> QED
    BY <1>1, <1>2 DEF TruthInv

LEMMA TruthBegin == ASSUME Typed, Typed', TruthInv, NEW p \in PullIds, Begin(p) \/ FxRests(p) \/ Leave(p) PROVE TruthInv'
  <1>1. PICK to \in {"fx", "quotes", "done"} : Goto(p, to) /\ UNCHANGED <<ledger, flight, billed>>
    BY DEF Begin, FxRests, Leave
  <1>2. Resting(p)
    BY DEF Begin, FxRests, Leave, Resting, TdPhases, TiPhases
  <1>3. Resting(p)' /\ OnlyOf(p)
    BY <1>1, WentTo DEF Resting, TdPhases, TiPhases, OnlyOf
  <1> QED
    BY <1>1, <1>2, <1>3, TruthIdles

LEMMA TruthFx == ASSUME Typed, Typed', TruthInv, NEW p \in PullIds, FxPull(p) \/ FxBackup(p) PROVE TruthInv'
  <1>0. Resting(p) /\ UNCHANGED billed
    BY DEF FxPull, FxBackup, Resting, TdPhases, TiPhases
  <1>1. CASE UNCHANGED <<ledger, flight>> /\ \E to \in {"fxBackup", "quotes"} : Goto(p, to)
    <2>1. Resting(p)' /\ OnlyOf(p)
      BY <1>1, WentTo DEF Resting, TdPhases, TiPhases, OnlyOf
    <2> QED
      BY <1>0, <1>1, <2>1, TruthIdles
  <1>2. ASSUME NEW v \in Providers, Reserve(v, 1), InFlight(p, 1, 0, {}, {}, {}),
               Goto(p, IF v = "tiingo" THEN "fxTi" ELSE "fxTd")
        PROVE  TruthInv'
    <2>1. /\ phase'[p] = (IF v = "tiingo" THEN "fxTi" ELSE "fxTd")
          /\ flight'[p].n = 1 /\ OnlyOf(p)
      BY <1>2, WentTo, TookOff DEF OnlyOf
    <2>2. \A w \in Providers : Owed(p, w)' = IF w = v THEN 1 ELSE 0
      BY <2>1 DEF Owed, TiPhases, Providers
    <2>3. \A w \in Providers : Owed(p, w) = 0
      BY <1>0, OwedNone
    <2>4. Truths'
      <3>1. Owed(p, v)' = Owed(p, v) + 1 /\ \A w \in Providers \ {v} : Owed(p, w)' = Owed(p, w)
        BY <2>2, <2>3
      <3> QED
        BY <1>0, <1>2, <2>1, <3>1, StartOf, TruthBooks
    <2>5. WeighedAt(p)'
      BY <2>1 DEF WeighedAt
    <2> QED
      BY <2>1, <2>4, <2>5, TruthStep
  <1>3. CASE FxPull(p)
    <2>1. \/ Reserve("twelvedata", 1) /\ InFlight(p, 1, 0, {}, {}, {}) /\ Goto(p, "fxTd")
          \/ UNCHANGED <<ledger, flight>> /\ Goto(p, "fxBackup")
      BY <1>3 DEF FxPull
    <2> QED
      BY <1>1, <1>2, <2>1 DEF Providers
  <1>4. CASE FxBackup(p)
    <2>1. \/ Reserve("tiingo", 1) /\ InFlight(p, 1, 0, {}, {}, {}) /\ Goto(p, "fxTi")
          \/ UNCHANGED <<ledger, flight>> /\ Goto(p, "quotes")
      BY <1>4 DEF FxBackup
    <2> QED
      BY <1>1, <1>2, <2>1 DEF Providers
  <1> QED
    BY <1>3, <1>4

\* A call of one provider ends with its whole grant billed or handed back.
LEMMA TruthEnds ==
    ASSUME Typed, Typed', TruthInv, NEW p \in PullIds, OnlyOf(p), Resting(p)',
           NEW v \in Providers, Owed(p, v) = flight[p].n, \A w \in Providers \ {v} : Owed(p, w) = 0,
           \/ Bill(v, flight[p].n) /\ UNCHANGED ledger
           \/ UNCHANGED billed /\ \E t \in Time : Release(v, flight[p].n, t)
    PROVE  TruthInv'
  <1>0. \A w \in Providers : Owed(p, w)' = 0
    BY OwedNoneNext
  <1>1. flight[p].n \in Nat /\ Start(p)
    BY StartOf DEF Typed, TypeOK, Flight
  <1>2. CASE Bill(v, flight[p].n) /\ UNCHANGED ledger
    <2>1. Owed(p, v) = Owed(p, v)' + flight[p].n /\ \A w \in Providers \ {v} : Owed(p, w)' = Owed(p, w)
      BY <1>0, <1>1
    <2>2. Truths'
      BY <1>1, <1>2, <2>1, TruthBills
    <2> QED
      BY <2>2, WeighedResting, TruthStep
  <1>3. ASSUME UNCHANGED billed, NEW t \in Time, Release(v, flight[p].n, t) PROVE TruthInv'
    <2>1. /\ Owed(p, v)' = 0 /\ Owed(p, v) <= flight[p].n
          /\ \A w \in Providers \ {v} : Owed(p, w)' = Owed(p, w)
      BY <1>0, <1>1
    <2>2. Truths'
      BY <1>1, <1>3, <2>1, TruthRefunds
    <2> QED
      BY <2>2, WeighedResting, TruthStep
  <1> QED
    BY <1>2, <1>3

LEMMA TruthFxAnswers ==
    ASSUME Typed, Typed', TruthInv, NEW p \in PullIds, FxTdAnswers(p) \/ FxTiAnswers(p) PROVE TruthInv'
  <1>1. PICK v \in Providers : /\ \E next \in {"fxBackup", "quotes"} : FxAnswers(p, v, next)
                               /\ phase[p] = IF v = "tiingo" THEN "fxTi" ELSE "fxTd"
    BY DEF FxTdAnswers, FxTiAnswers, Providers
  <1>2. \E to \in {"fxBackup", "quotes"} : Goto(p, to)
    BY <1>1 DEF FxAnswers
  <1>3. Resting(p)' /\ OnlyOf(p)
    BY <1>1, <1>2, WentTo, LandedOnly DEF Resting, TdPhases, TiPhases, OnlyOf, FxAnswers
  <1>4. Owed(p, v) = flight[p].n /\ \A w \in Providers \ {v} : Owed(p, w) = 0
    BY <1>1 DEF Owed, TiPhases, Providers
  <1>5. \/ Bill(v, flight[p].n) /\ UNCHANGED ledger
        \/ UNCHANGED billed /\ \E t \in Time : Release(v, flight[p].n, t)
    BY <1>1 DEF FxAnswers, Typed, TypeOK
  <1> QED
    BY <1>3, <1>4, <1>5, TruthEnds

LEMMA TruthLoad ==
    ASSUME Typed, Typed', TruthInv, NEW p \in PullIds, Quotes(p) \/ SafetyNet(p) PROVE TruthInv'
  <1>0. Resting(p) /\ UNCHANGED billed
    BY DEF Quotes, SafetyNet, Resting, TdPhases, TiPhases
  <1>1. \E want \in SUBSET Symbols : \E again \in BOOLEAN : \E budget : LoadQuotes(p, want, budget, again)
    <2>1. plan[p].want \in SUBSET Symbols /\ report[p].deferred \in SUBSET Symbols
      BY PullsAssumption DEF Typed, TypeOK, Report
    <2> QED
      BY <2>1 DEF Quotes, SafetyNet
  <1>2. PICK again \in BOOLEAN, fresh \in SUBSET Symbols, stale \in SUBSET Symbols, ask \in SUBSET Symbols :
           \/ /\ \E r : Delivered(p, r, again)
              /\ UNCHANGED <<ledger, flight>>
           \/ /\ Reserve("twelvedata", Cardinality(ask))
              /\ InFlight(p, Cardinality(ask), 0, ask, fresh, stale \ ask)
              /\ Goto(p, IF ask \subseteq NavSymbols THEN "nav" ELSE "market")
    <2>1. PICK want \in SUBSET Symbols, again \in BOOLEAN : \E budget : LoadQuotes(p, want, budget, again)
      BY <1>1
    <2>2. PICK budget : LoadQuotes(p, want, budget, again)
      BY <2>1
    <2>3. PICK fresh \in SUBSET (want \cap cached) :
           \E ask \in {s \in SUBSET (want \ fresh) : Cardinality(s) = Least(Cardinality(want \ fresh), budget)} :
              LET left == want \ fresh
                  granted == Least(Cardinality(left), budget)
              IN IF granted = 0
                 THEN /\ Delivered(p, Unpriced(fresh, left, {}), again)
                      /\ UNCHANGED <<ledger, flight>>
                 ELSE /\ Reserve("twelvedata", granted)
                      /\ InFlight(p, granted, 0, ask, fresh, left \ ask)
                      /\ Goto(p, IF ask \subseteq NavSymbols THEN "nav" ELSE "market")
                      /\ UNCHANGED report
      BY <2>2 DEF LoadQuotes
    <2> DEFINE left == want \ fresh
               granted == Least(Cardinality(left), budget)
    <2>4. PICK ask \in SUBSET left :
             /\ Cardinality(ask) = granted
             /\ IF granted = 0
                THEN /\ Delivered(p, Unpriced(fresh, left, {}), again)
                     /\ UNCHANGED <<ledger, flight>>
                ELSE /\ Reserve("twelvedata", granted)
                     /\ InFlight(p, granted, 0, ask, fresh, left \ ask)
                     /\ Goto(p, IF ask \subseteq NavSymbols THEN "nav" ELSE "market")
                     /\ UNCHANGED report
      BY <2>3
    <2>5. fresh \in SUBSET Symbols /\ left \in SUBSET Symbols /\ ask \in SUBSET Symbols
      OBVIOUS
    <2> HIDE DEF left, granted
    <2>6. \/ /\ \E r : Delivered(p, r, again)
             /\ UNCHANGED <<ledger, flight>>
          \/ /\ Reserve("twelvedata", Cardinality(ask))
             /\ InFlight(p, Cardinality(ask), 0, ask, fresh, left \ ask)
             /\ Goto(p, IF ask \subseteq NavSymbols THEN "nav" ELSE "market")
      BY <2>4
    <2> QED
      BY <2>5, <2>6
  <1>3. CASE (\E r : Delivered(p, r, again)) /\ UNCHANGED <<ledger, flight>>
    <2>1. Resting(p)' /\ OnlyOf(p)
      BY <1>3, WentOnly DEF OnlyOf
    <2> QED
      BY <1>0, <1>3, <2>1, TruthIdles
  <1>4. CASE /\ Reserve("twelvedata", Cardinality(ask))
             /\ InFlight(p, Cardinality(ask), 0, ask, fresh, stale \ ask)
             /\ Goto(p, IF ask \subseteq NavSymbols THEN "nav" ELSE "market")
    <2>1. /\ phase'[p] = (IF ask \subseteq NavSymbols THEN "nav" ELSE "market")
          /\ flight'[p].n = Cardinality(ask) /\ flight'[p].ask = ask /\ OnlyOf(p)
      BY <1>4, WentTo, TookOff DEF OnlyOf
    <2>2. Cardinality(ask) \in Nat /\ "twelvedata" \in Providers
      BY <1>2, CountType DEF Providers
    <2>3. Owed(p, "twelvedata")' = Cardinality(ask) /\ Owed(p, "tiingo")' = 0
      <3>1. CASE ask \subseteq NavSymbols
        <4>1. ask \cap NavSymbols = ask
          BY <3>1
        <4> QED
          BY <1>2, <2>1, <3>1, <4>1 DEF Owed, TiPhases
      <3>2. CASE ~ (ask \subseteq NavSymbols)
        BY <2>1, <3>2 DEF Owed, TiPhases
      <3> QED
        BY <3>1, <3>2
    <2>4. Owed(p, "twelvedata") = 0 /\ Owed(p, "tiingo") = 0
      BY <1>0, OwedNone
    <2>5. /\ Owed(p, "twelvedata")' = Owed(p, "twelvedata") + Cardinality(ask)
          /\ \A w \in Providers \ {"twelvedata"} : Owed(p, w)' = Owed(p, w)
      BY <2>2, <2>3, <2>4 DEF Providers
    <2>6. Truths'
      BY <1>0, <1>4, <2>1, <2>2, <2>5, StartOf, TruthBooks
    <2>7. WeighedAt(p)'
      BY <1>2, <2>1 DEF WeighedAt
    <2> QED
      BY <2>1, <2>6, <2>7, TruthStep
  <1> QED
    BY <1>2, <1>3, <1>4

LEMMA LandedQuotes ==
    ASSUME Typed, NEW p \in PullIds, NEW got, QuotesLand(p, got) PROVE Resting(p)' /\ OnlyOf(p)
  <1>1. Landed(p) /\ \E r : \E again : Delivered(p, r, again)
    BY DEF QuotesLand
  <1> QED
    BY <1>1, WentOnly, LandedOnly DEF OnlyOf

LEMMA TruthMarket == ASSUME Typed, Typed', TruthInv, NEW p \in PullIds, MarketAnswers(p) PROVE TruthInv'
  <1> DEFINE ask == flight[p].ask
             market == ask \ NavSymbols
             funds == ask \cap NavSymbols
  <1>0. /\ flight[p] \in Flight /\ phase[p] = "market" /\ "twelvedata" \in Providers
        /\ Bill("twelvedata", Cardinality(market)) /\ UNCHANGED ledger
    BY DEF Typed, TypeOK, MarketAnswers, Providers
  <1>1. /\ IsFiniteSet(market) /\ IsFiniteSet(funds)
        /\ Cardinality(market) \in Nat /\ Cardinality(funds) \in Nat /\ flight[p].n = Cardinality(ask)
    <2>1. market \in SUBSET Symbols /\ funds \in SUBSET Symbols
      BY <1>0 DEF Flight
    <2> QED
      BY <1>0, <2>1, CountType DEF TruthInv, Weighed
  <1>2. Cardinality(ask) = Cardinality(market) + Cardinality(funds)
    <2>1. ask = market \cup funds /\ market \cap funds = {}
      OBVIOUS
    <2>2. Cardinality(market \cup funds) = Cardinality(market) + Cardinality(funds) - Cardinality(market \cap funds)
      BY <1>1, FS_Union
    <2>3. Cardinality(market \cap funds) = 0
      BY <2>1, FS_EmptySet
    <2> HIDE DEF market, funds, ask
    <2> QED
      BY <1>1, <2>1, <2>2, <2>3
  <1>3. Owed(p, "twelvedata") = Cardinality(ask) /\ Owed(p, "tiingo") = 0
    BY <1>0, <1>1 DEF Owed, TiPhases
  <1>4. PICK got \in SUBSET market :
           IF ask = market
           THEN QuotesLand(p, got)
           ELSE /\ flight' = [flight EXCEPT ![p].got = got]
                /\ Goto(p, "nav")
                /\ UNCHANGED <<cached, report>>
    BY DEF MarketAnswers
  <1>5. CASE ask = market
    <2>1. Resting(p)' /\ OnlyOf(p)
      BY <1>4, <1>5, LandedQuotes
    <2>2. Owed(p, "twelvedata") = flight[p].n /\ \A w \in Providers \ {"twelvedata"} : Owed(p, w) = 0
      BY <1>1, <1>3 DEF Providers
    <2>3. Bill("twelvedata", flight[p].n)
      BY <1>0, <1>1, <1>5
    <2> QED
      BY <1>0, <2>1, <2>2, <2>3, TruthEnds
  <1>6. CASE ask # market
    <2>1. /\ flight' = [flight EXCEPT ![p].got = got] /\ Goto(p, "nav")
      BY <1>4, <1>6
    <2>2. /\ phase'[p] = "nav" /\ flight'[p].n = flight[p].n /\ flight'[p].ask = ask /\ OnlyOf(p)
      BY <1>0, <2>1, WentTo DEF OnlyOf, Typed, TypeOK, Flight
    <2>3. Owed(p, "twelvedata")' = Cardinality(funds) /\ Owed(p, "tiingo")' = 0
      BY <2>2 DEF Owed, TiPhases
    <2>4. Owed(p, "twelvedata") = Owed(p, "twelvedata")' + Cardinality(market)
      <3> HIDE DEF ask, market, funds
      <3> QED
        BY <1>1, <1>2, <1>3, <2>3
    <2>5. \A w \in Providers \ {"twelvedata"} : Owed(p, w)' = Owed(p, w)
      BY <1>3, <2>3 DEF Providers
    <2>6. Truths'
      BY <1>0, <1>1, <2>2, <2>4, <2>5, StartOf, TruthBills
    <2>7. WeighedAt(p)'
      BY <1>1, <2>2 DEF WeighedAt
    <2> QED
      BY <2>2, <2>6, <2>7, TruthStep
  <1> QED
    BY <1>5, <1>6

LEMMA TruthNav == ASSUME Typed, Typed', TruthInv, NEW p \in PullIds, NavAnswers(p) PROVE TruthInv'
  <1> DEFINE funds == flight[p].ask \cap NavSymbols
  <1>0. /\ phase[p] = "nav" /\ "twelvedata" \in Providers /\ UNCHANGED ledger
        /\ Bill("twelvedata", Cardinality(funds))
    BY DEF NavAnswers, Providers
  <1>1. Resting(p)' /\ OnlyOf(p)
    BY LandedQuotes DEF NavAnswers
  <1>2. Owed(p, "twelvedata") = Cardinality(funds) /\ Owed(p, "tiingo") = 0
    BY <1>0 DEF Owed, TiPhases
  <1>3. Owed(p, "twelvedata")' = 0 /\ Owed(p, "tiingo")' = 0 /\ Cardinality(funds) \in Nat
    BY <1>1, <1>2, OwedNoneNext, OwedType
  <1>4. /\ Owed(p, "twelvedata") = Owed(p, "twelvedata")' + Cardinality(funds)
        /\ \A w \in Providers \ {"twelvedata"} : Owed(p, w)' = Owed(p, w)
    BY <1>2, <1>3 DEF Providers
  <1>5. Truths'
    BY <1>0, <1>1, <1>3, <1>4, StartOf, TruthBills
  <1> QED
    BY <1>1, <1>5, WeighedResting, TruthStep

LEMMA TruthFail == ASSUME Typed, Typed', TruthInv, NEW p \in PullIds, QuotesFail(p) PROVE TruthInv'
  <1> DEFINE funds == flight[p].ask \cap NavSymbols
  <1>0. /\ phase[p] \in {"market", "nav"} /\ "twelvedata" \in Providers /\ UNCHANGED billed /\ clock \in Time
        /\ Release("twelvedata", flight[p].n, clock) /\ flight[p] \in Flight /\ flight[p].n \in Nat
    BY DEF QuotesFail, Providers, Typed, TypeOK, Flight
  <1>1. Resting(p)' /\ OnlyOf(p)
    <2>1. (\E r : \E again : Delivered(p, r, again)) \/ Goto(p, "done")
      BY DEF QuotesFail
    <2>2. Landed(p)
      BY DEF QuotesFail
    <2> QED
      BY <2>1, <2>2, WentOnly, WentTo, LandedOnly DEF OnlyOf, Resting, TdPhases, TiPhases
  <1>2. Owed(p, "twelvedata") <= flight[p].n /\ Owed(p, "tiingo") = 0
    <2>1. flight[p].n = Cardinality(flight[p].ask)
      BY <1>0 DEF TruthInv, Weighed
    <2>2. Cardinality(funds) <= Cardinality(flight[p].ask)
      <3>1. IsFiniteSet(flight[p].ask)
        BY <1>0, CountType DEF Flight
      <3> QED
        BY <3>1, FS_Subset
    <2>3. flight[p].n <= flight[p].n
      BY <1>0
    <2> QED
      BY <1>0, <2>1, <2>2, <2>3 DEF Owed, TiPhases
  <1>3. Owed(p, "twelvedata")' = 0 /\ \A w \in Providers \ {"twelvedata"} : Owed(p, w)' = Owed(p, w)
    BY <1>1, <1>2, OwedNoneNext DEF Providers
  <1>4. Truths'
    BY <1>0, <1>1, <1>2, <1>3, StartOf, TruthRefunds
  <1> QED
    BY <1>1, <1>4, WeighedResting, TruthStep

LEMMA TruthFallback == ASSUME Typed, Typed', TruthInv, NEW p \in PullIds, Fallback(p) PROVE TruthInv'
  <1>0. Resting(p) /\ UNCHANGED billed /\ "tiingo" \in Providers
    BY DEF Fallback, Resting, TdPhases, TiPhases, Providers
  <1>1. PICK ask \in SUBSET Symbols :
           \/ AfterBackup(p, report[p]) /\ UNCHANGED <<ledger, flight>>
           \/ /\ Reserve("tiingo", Cardinality(ask))
              /\ InFlight(p, Cardinality(ask), clock, ask, {}, {})
              /\ Goto(p, "backup")
    <2>1. plan[p].want \in SUBSET Symbols
      BY PullsAssumption
    <2> QED
      BY <2>1 DEF Fallback
  <1>2. CASE AfterBackup(p, report[p]) /\ UNCHANGED <<ledger, flight>>
    <2>1. Resting(p)' /\ OnlyOf(p)
      BY <1>2, WentOnly DEF OnlyOf
    <2> QED
      BY <1>0, <1>2, <2>1, TruthIdles
  <1>3. CASE /\ Reserve("tiingo", Cardinality(ask))
             /\ InFlight(p, Cardinality(ask), clock, ask, {}, {})
             /\ Goto(p, "backup")
    <2>1. phase'[p] = "backup" /\ flight'[p].n = Cardinality(ask) /\ OnlyOf(p)
      BY <1>3, WentTo, TookOff DEF OnlyOf
    <2>2. Cardinality(ask) \in Nat
      BY CountType
    <2>3. Owed(p, "tiingo")' = Cardinality(ask) /\ Owed(p, "twelvedata")' = 0
      BY <2>1 DEF Owed, TiPhases
    <2>4. Owed(p, "tiingo") = 0 /\ Owed(p, "twelvedata") = 0
      BY <1>0, OwedNone
    <2>5. /\ Owed(p, "tiingo")' = Owed(p, "tiingo") + Cardinality(ask)
          /\ \A w \in Providers \ {"tiingo"} : Owed(p, w)' = Owed(p, w)
      BY <2>2, <2>3, <2>4 DEF Providers
    <2>6. Truths'
      BY <1>0, <1>3, <2>1, <2>2, <2>5, StartOf, TruthBooks
    <2>7. WeighedAt(p)'
      BY <2>1 DEF WeighedAt
    <2> QED
      BY <2>1, <2>6, <2>7, TruthStep
  <1> QED
    BY <1>1, <1>2, <1>3

LEMMA TruthBackup ==
    ASSUME Typed, Typed', TruthInv, NEW p \in PullIds, BackupAnswers(p) \/ BackupFails(p) PROVE TruthInv'
  <1>0. phase[p] = "backup" /\ "tiingo" \in Providers /\ Landed(p) /\ \E r : AfterBackup(p, r)
    BY DEF BackupAnswers, BackupFails, Providers
  <1>1. Resting(p)' /\ OnlyOf(p)
    BY <1>0, WentOnly, LandedOnly DEF OnlyOf
  <1>2. Owed(p, "tiingo") = flight[p].n /\ \A w \in Providers \ {"tiingo"} : Owed(p, w) = 0
    BY <1>0 DEF Owed, TiPhases, Providers
  <1>3. \/ Bill("tiingo", flight[p].n) /\ UNCHANGED ledger
        \/ UNCHANGED billed /\ \E t \in Time : Release("tiingo", flight[p].n, t)
    <2>1. flight[p].at \in Time
      BY DEF Typed, TypeOK, Flight
    <2> QED
      BY <2>1 DEF BackupAnswers, BackupFails
  <1> QED
    BY <1>0, <1>1, <1>2, <1>3, TruthEnds

LEMMA TruthNext == ASSUME Typed, TruthInv, [Next]_vars PROVE TruthInv'
  <1>0. Typed'
    BY TypedStep
  <1>1. CASE PassTime \/ UNCHANGED vars
    BY <1>1, TruthTime DEF PassTime, vars
  <1>2. ASSUME NEW p \in PullIds,
           \/ Begin(p) \/ FxRests(p) \/ FxPull(p) \/ FxTdAnswers(p) \/ FxBackup(p) \/ FxTiAnswers(p)
           \/ Quotes(p) \/ MarketAnswers(p) \/ NavAnswers(p) \/ QuotesFail(p)
           \/ Fallback(p) \/ BackupAnswers(p) \/ BackupFails(p) \/ SafetyNet(p) \/ Leave(p)
        PROVE TruthInv'
    BY <1>0, <1>2, TruthBegin, TruthFx, TruthFxAnswers, TruthLoad, TruthMarket, TruthNav, TruthFail,
       TruthFallback, TruthBackup
  <1> QED
    BY <1>1, <1>2 DEF Next

\* What a call still owes is never more than it holds.
LEMMA TruthOfInv == ASSUME Typed, TruthInv PROVE LedgerTruthful
  <1> DEFINE n(p, v) == IF phase[p] \in (IF v = "twelvedata" THEN TdPhases ELSE TiPhases) THEN flight[p].n ELSE 0
             held(v) == [p \in PullIds |-> n(p, v)]
             owed(v) == [p \in PullIds |-> Owed(p, v)]
  <1>1. ASSUME NEW p \in PullIds, NEW v \in Providers
        PROVE  /\ n(p, v) \in Nat /\ HeldBy(p, v) = 1 .. n(p, v) /\ Owed(p, v) \in Nat /\ Owed(p, v) <= n(p, v)
               /\ v = "tiingo" => Owed(p, v) = n(p, v)
    <2>1. flight[p] \in Flight /\ flight[p].n \in Nat
      BY DEF Typed, TypeOK, Flight
    <2>2. n(p, v) \in Nat
      BY <2>1
    <2>3. HeldBy(p, v) = 1 .. n(p, v)
      BY DEF HeldBy
    <2>4. Owed(p, v) \in Nat
      BY OwedType
    <2>5. v = "tiingo" => Owed(p, v) = n(p, v)
      BY DEF Owed
    <2>6. phase[p] = "nav" => Cardinality(flight[p].ask \cap NavSymbols) <= flight[p].n
      <3>1. IsFiniteSet(flight[p].ask)
        BY <2>1, CountType DEF Flight
      <3>2. Cardinality(flight[p].ask \cap NavSymbols) <= Cardinality(flight[p].ask)
        BY <3>1, FS_Subset
      <3> QED
        BY <3>2 DEF TruthInv, Weighed
    <2>7. v = "twelvedata" => Owed(p, v) <= n(p, v)
      BY <2>1, <2>6 DEF Owed, TdPhases
    <2>8. Owed(p, v) <= n(p, v)
      BY <2>2, <2>5, <2>7 DEF Providers
    <2> QED
      BY <2>2, <2>3, <2>4, <2>5, <2>8
  <1>2. ASSUME NEW v \in Providers PROVE /\ Owes(v) \in Nat /\ Held(v) \in Nat /\ Owes(v) <= Held(v)
                                         /\ v = "tiingo" => Owes(v) = Held(v)
    <2>1. Held(v) = Counted(held(v))
      <3>1. \A p \in PullIds : HeldBy(p, v) = 1 .. held(v)[p]
        BY <1>1
      <3> HIDE DEF held
      <3>2. {{p} \X HeldBy(p, v) : p \in PullIds} = {{p} \X (1 .. held(v)[p]) : p \in PullIds}
        BY <3>1
      <3> QED
        BY <3>2 DEF Held, Counted
    <2>2. Owes(v) = Counted(owed(v))
      BY DEF Owes
    <2>3. \A p \in PullIds : owed(v)[p] \in Nat /\ held(v)[p] \in Nat /\ owed(v)[p] <= held(v)[p]
      BY <1>1
    <2>4. v = "tiingo" => owed(v) = held(v)
      BY <1>1
    <2> HIDE DEF owed, held
    <2>5. Counted(owed(v)) \in Nat /\ Counted(held(v)) \in Nat /\ Counted(owed(v)) <= Counted(held(v))
      BY <2>3, CountedGrows
    <2> QED
      BY <2>1, <2>2, <2>4, <2>5
  <1>3. "twelvedata" \in Providers /\ "tiingo" \in Providers
    BY DEF Providers
  <1>4. OnBooks("twelvedata") \in Int /\ billed["twelvedata"] \in Nat
    BY <1>3, OnBooksType DEF Typed, TypeOK
  <1>5. OnBooks("twelvedata") <= billed["twelvedata"] + Held("twelvedata")
    BY <1>2, <1>3, <1>4 DEF TruthInv, Truth
  <1>6. OnBooks("tiingo") = billed["tiingo"] + Held("tiingo")
    BY <1>2, <1>3 DEF TruthInv, Truth
  <1> QED
    BY <1>5, <1>6 DEF LedgerTruthful, OnBooks

\* The ledgers hold no phantom credits: Twelve Data's never more than it took and
\* its calls on their way may cost, Tiingo's exactly that (LedgerTruthful).
THEOREM NoPhantomCredit == Spec => []LedgerTruthful
  <1>1. Init => Typed /\ TruthInv
    BY TypedInit, TruthInit
  <1>2. (Typed /\ TruthInv) /\ [Next]_vars => (Typed /\ TruthInv)'
    BY TypedStep, TruthNext
  <1>3. Typed /\ TruthInv => LedgerTruthful
    BY TruthOfInv
  <1> QED
    BY <1>1, <1>2, <1>3, PTL DEF Spec
============================================================================
