-------------------------- MODULE CompanionProofs --------------------------
(***************************************************************************)
(* Proofs about the companion.  SessionCurve: a settled day was agreed on  *)
(* in enough hours, and a series nobody can advance is parked.  Algorithms: *)
(* whatever the input, the clock's answers fit together, the verdicts on     *)
(* what is due agree, the headline is honest, the plans of a pull skip and  *)
(* repeat nothing, and the orders overspend, oversell and skip nothing they *)
(* should not.  Valuation: the cache keeps a price with the close before it, *)
(* the baseline of the day's move is the book's worth before the session,   *)
(* and the board names the movers that moved most.                          *)
(***************************************************************************)
EXTENDS SessionCurve, Algorithms, Valuation, FiniteSetTheorems, SequenceTheorems, TLAPS

Steps == {"idle", "all", "first", "second", "merge", "save", "draw", "append", "trail"}
Probes == [lastBarAt : Nat, sources : 0 .. 2, agreements : Nat, settled : BOOLEAN, lastAttemptAt : Nat \cup {Never}]
Records == [tip : Nat, probe : Probes, crumbs : SUBSET Nat]
Answers == [tip : Nat, probe : Probes, clear : BOOLEAN]
Works == [step : Steps, began : Nat, seen : Records, first : Nat, found : Answers]

TypeOK ==
    /\ now \in Nat /\ disk \in Records /\ build \in [Builders -> Works] /\ filler \in Works
    /\ backoff \in [fails : Nat, armedAt : Nat \cup {Never}]
    /\ agreed \in SUBSET Nat /\ IsFiniteSet(agreed)

----------------------------------------------------------------------------
(* Types. *)

LEMMA AttemptedType ==
    ASSUME NEW tip \in Nat, NEW sources \in 0 .. 2, NEW agreements \in Nat, NEW at \in Nat
    PROVE  Attempted(tip, sources, agreements, at) \in Probes
  BY ProbesAssumption DEF Attempted, Probes

LEMMA NoRecordType == NoProbe \in Probes /\ NoRecord \in Records /\ Nothing \in Answers /\ Idle \in Works
  <1>1. NoProbe \in Probes
    BY DEF NoProbe, Probes, NoBars
  <1> QED
    BY <1>1 DEF NoRecord, Records, Nothing, Answers, Idle, Works, Steps, NoBars

LEMMA PrintedType == ASSUME NEW tip \in Tips PROVE tip \in Nat
  BY ProbesAssumption DEF Tips

LEMMA MergeType == ASSUME NEW r \in Records, NEW f \in Answers PROVE mergeSession(r, f) \in Records
  <1>1. mergeBars(r.tip, f.tip) \in Nat
    BY DEF mergeBars, Records, Answers
  <1>2. mergeCloseProbes(r.probe, f) \in Probes
    BY NoRecordType DEF mergeCloseProbes, Records, Answers, Probes
  <1> QED
    BY <1>1, <1>2 DEF mergeSession, Records

LEMMA CrumbType == ASSUME NEW r \in Records, NEW t \in Nat PROVE appendTip(r, t) \in Records
  <1> DEFINE kept == IF \E c \in r.crumbs : c >= t THEN r.crumbs \ {Max(r.crumbs)} ELSE r.crumbs
             all == kept \cup {t}
             crumbs == IF Cardinality(all) > MaxTips THEN all \ {Min(all)} ELSE all
  <1>1. r.crumbs \in SUBSET Nat
    BY DEF Records
  <1>2. crumbs \in SUBSET Nat
    BY <1>1
  <1>3. appendTip(r, t) = [r EXCEPT !.crumbs = crumbs]
    BY DEF appendTip
  <1> HIDE DEF crumbs
  <1> QED
    BY <1>2, <1>3 DEF Records

LEMMA FirstType == ASSUME NEW a \in Nat, NEW t \in Nat PROVE ResolvedByFirst(a, t) \in Answers
  BY AttemptedType, NoRecordType DEF ResolvedByFirst, Reached, Found, Answers

LEMMA SecondType ==
    ASSUME NEW a \in Nat, NEW b \in Nat, NEW p \in Probes, NEW stored \in Nat, NEW t \in Nat
    PROVE  /\ ResolvedBySecond(a, b, p, stored, t) \in Answers
           /\ \/ ResolvedBySecond(a, b, p, stored, t) = Reached(b)
              \/ a # NoBars /\ ResolvedBySecond(a, b, p, stored, t) = Found(a, Attempted(a, 2, p.agreements + 1, t))
              \/ \E tip, bar \in Nat, sources \in 0 .. 1 :
                   ResolvedBySecond(a, b, p, stored, t) = Found(tip, Attempted(bar, sources, 0, t))
  <1>1. prevTipOf(p, stored) \in Nat
    BY DEF prevTipOf, Probes
  <1>2. p.agreements + 1 \in Nat
    BY DEF Probes
  <1>3. NoBars \in Nat
    BY DEF NoBars
  <1>4. \/ ResolvedBySecond(a, b, p, stored, t) = Reached(b)
        \/ a # NoBars /\ ResolvedBySecond(a, b, p, stored, t) = Found(a, Attempted(a, 2, p.agreements + 1, t))
        \/ \E tip, bar \in Nat, sources \in 0 .. 1 :
             ResolvedBySecond(a, b, p, stored, t) = Found(tip, Attempted(bar, sources, 0, t))
    <2> DEFINE v == ResolvedBySecond(a, b, p, stored, t)
    <2>1. \/ v = Reached(b)
          \/ v = Found(b, Attempted(b, 1, 0, t))
          \/ Agree(a, b) /\ v = Found(a, Attempted(a, 2, p.agreements + 1, t))
          \/ v = Found(NoBars, Attempted(prevTipOf(p, stored), 0, 0, t))
          \/ v = Found(NoBars, Attempted(a, 1, 0, t))
      BY DEF ResolvedBySecond
    <2> QED
      BY <1>1, <1>3, <2>1 DEF Agree
  <1>5. \A tip, bar \in Nat, sources \in 0 .. 1 : Found(tip, Attempted(bar, sources, 0, t)) \in Answers
    BY AttemptedType DEF Found, Answers
  <1>6. Reached(b) \in Answers
    BY NoRecordType DEF Reached, Answers
  <1>7. Found(a, Attempted(a, 2, p.agreements + 1, t)) \in Answers
    BY <1>2, AttemptedType DEF Found, Answers
  <1> QED
    BY <1>4, <1>5, <1>6, <1>7

LEMMA ScoredType ==
    ASSUME NEW e \in [fails : Nat, armedAt : Nat \cup {Never}], NEW a, NEW b, NEW f, NEW t \in Nat
    PROVE  Scored(e, a, b, f, t) \in [fails : Nat, armedAt : Nat \cup {Never}]
  BY DEF Scored, NoStrike, fail, Never


\* What one step of a build or of the download may make of it.
Is(v, st, t, r, n, f) == v \in Works /\ v.step = st /\ v.began = t /\ v.seen = r /\ v.first = n /\ v.found = f

LEMMA WorkType ==
    ASSUME NEW w \in Works, NEW st \in Steps, NEW t \in Nat, NEW r \in Records, NEW f \in Answers, NEW n \in Nat
    PROVE  /\ Is([Idle EXCEPT !.step = st, !.began = t], st, t, NoRecord, NoBars, Nothing)
           /\ Is([Idle EXCEPT !.step = st, !.began = t, !.seen = r], st, t, r, NoBars, Nothing)
           /\ Is([Idle EXCEPT !.step = st, !.seen = r], st, 0, r, NoBars, Nothing)
           /\ Is(Saving(w, r), "save", w.began, r, NoBars, Nothing)
           /\ Is(Merging(w, f), "merge", w.began, NoRecord, NoBars, f)
           /\ Is([Idle EXCEPT !.step = "merge", !.found = f], "merge", 0, NoRecord, NoBars, f)
           /\ Is([w EXCEPT !.step = st, !.seen = r], st, w.began, r, w.first, w.found)
           /\ Is([[w EXCEPT !.step = st] EXCEPT !.first = n], st, w.began, w.seen, n, w.found)
           /\ Is(Idle, "idle", 0, NoRecord, NoBars, Nothing)
  <1> USE NoRecordType DEF Is, Works, Steps, NoBars
  <1>1. Is([Idle EXCEPT !.step = st, !.began = t], st, t, NoRecord, NoBars, Nothing)
    BY DEF Idle, Works
  <1>2. Is([Idle EXCEPT !.step = st, !.began = t, !.seen = r], st, t, r, NoBars, Nothing)
    BY DEF Idle, Works
  <1>3. Is([Idle EXCEPT !.step = st, !.seen = r], st, 0, r, NoBars, Nothing)
    BY DEF Idle, Works
  <1>4. Is(Saving(w, r), "save", w.began, r, NoBars, Nothing)
    BY DEF Idle, Saving
  <1>5. Is(Merging(w, f), "merge", w.began, NoRecord, NoBars, f)
    BY DEF Idle, Merging
  <1>6. Is([Idle EXCEPT !.step = "merge", !.found = f], "merge", 0, NoRecord, NoBars, f)
    BY DEF Idle, Works
  <1>7. Is([w EXCEPT !.step = st, !.seen = r], st, w.began, r, w.first, w.found)
    BY DEF Works
  <1>8. Is([[w EXCEPT !.step = st] EXCEPT !.first = n], st, w.began, w.seen, n, w.found)
    BY DEF Works
  <1>9. Is(Idle, "idle", 0, NoRecord, NoBars, Nothing)
    BY DEF Idle, Works
  <1> QED
    BY <1>1, <1>2, <1>3, <1>4, <1>5, <1>6, <1>7, <1>8, <1>9

LEMMA SecondStep ==
    ASSUME NEW w \in Works, NEW n \in Nat
    PROVE  LET v == [[w EXCEPT !.step = "second"] EXCEPT !.first = n]
           IN v \in Works /\ v.step = "second" /\ v.began = w.began /\ v.seen = w.seen /\ v.found = w.found
  <1>1. "second" \in Steps
    BY DEF Steps
  <1> QED
    BY <1>1 DEF Works

LEMMA DrawingType ==
    ASSUME NEW t \in Nat
    PROVE  /\ Drawing(t).step \in {"idle", "draw"} /\ Drawing(t).began \in {0, t}
           /\ Is(Drawing(t), Drawing(t).step, Drawing(t).began, NoRecord, NoBars, Nothing)
  <1>1. "draw" \in Steps
    BY DEF Steps
  <1>2. CASE open(t)
    <2> DEFINE v == [Idle EXCEPT !.step = "draw", !.began = t]
    <2>1. Drawing(t) = v
      BY <1>2 DEF Drawing
    <2>2. Is(v, "draw", t, NoRecord, NoBars, Nothing)
      BY <1>1, WorkType, NoRecordType
    <2> HIDE DEF v
    <2> QED
      BY <2>1, <2>2 DEF Is
  <1>3. CASE ~open(t)
    <2>1. Drawing(t) = Idle
      BY <1>3 DEF Drawing
    <2>2. Is(Idle, "idle", 0, NoRecord, NoBars, Nothing)
      BY <1>1, WorkType, NoRecordType
    <2> QED
      BY <2>1, <2>2 DEF Is
  <1> QED
    BY <1>2, <1>3

----------------------------------------------------------------------------
(* A probe's count of agreements is earned: that many hours in which both     *)
(* providers agreed lie no later than its last attempt, and a settled one has *)
(* its number of hours whatever became of its count.                          *)

UpTo(H, t) == {h \in H : h <= t \div Hour}

Earned(p, H) ==
    /\ p.agreements > 0 => /\ p.sources = 2 /\ p.lastAttemptAt \in Nat
                           /\ p.agreements <= Cardinality(UpTo(H, p.lastAttemptAt))
    /\ p.settled => Agreements <= Cardinality(H)

\* Of a record, and of what a resolution found.
EarnedBy(x, H) == Earned(x.probe, H) /\ (x.probe.settled => x.tip # NoBars)

\* A build that probes again after an agreement does so in a later hour.
EarnedWork(w, H) ==
    /\ EarnedBy(w.seen, H) /\ EarnedBy(w.found, H)
    /\ w.step \in {"first", "second"} /\ w.seen.probe.agreements > 0
         => w.began >= nextFullHourStart(w.seen.probe.lastAttemptAt)

EarnedInv ==
    /\ EarnedBy(disk, agreed)
    /\ \A b \in Builders : EarnedWork(build[b], agreed)
    /\ EarnedWork(filler, agreed)

LEMMA EarnedGrows ==
    ASSUME NEW H, NEW G, IsFiniteSet(G), H \subseteq G, NEW p \in Probes, Earned(p, H)
    PROVE  Earned(p, G)
  <1>1. IsFiniteSet(H) /\ Cardinality(H) <= Cardinality(G) /\ Cardinality(H) \in Nat /\ Cardinality(G) \in Nat
    BY FS_Subset, FS_CardinalityType
  <1>2. ASSUME p.agreements > 0 PROVE p.agreements <= Cardinality(UpTo(G, p.lastAttemptAt))
    <2>1. UpTo(H, p.lastAttemptAt) \subseteq UpTo(G, p.lastAttemptAt) /\ IsFiniteSet(UpTo(G, p.lastAttemptAt))
      BY FS_Subset DEF UpTo
    <2>2. /\ Cardinality(UpTo(H, p.lastAttemptAt)) <= Cardinality(UpTo(G, p.lastAttemptAt))
          /\ Cardinality(UpTo(H, p.lastAttemptAt)) \in Nat /\ Cardinality(UpTo(G, p.lastAttemptAt)) \in Nat
      BY <2>1, FS_Subset, FS_CardinalityType
    <2> QED
      BY <1>2, <2>2 DEF Earned, Probes
  <1> QED
    BY <1>1, <1>2, ProbesAssumption DEF Earned

LEMMA WorkGrows ==
    ASSUME NEW H, NEW G, IsFiniteSet(G), H \subseteq G, NEW w \in Works, EarnedWork(w, H)
    PROVE  EarnedWork(w, G)
  <1>1. w.seen.probe \in Probes /\ w.found.probe \in Probes
    BY DEF Works, Records, Answers
  <1> QED
    BY <1>1, EarnedGrows DEF EarnedWork, EarnedBy

\* Nothing found, or bars without an agreement, is earned whatever happened.
LEMMA FreshEarned ==
    ASSUME NEW H, NEW tip, NEW bar, NEW sources, NEW t
    PROVE  /\ EarnedBy(NoRecord, H) /\ EarnedBy(Nothing, H) /\ EarnedBy(Reached(tip), H)
           /\ EarnedBy(Found(tip, NoProbe), H)
           /\ EarnedBy(Found(tip, Attempted(bar, sources, 0, t)), H)
  <1>1. Earned(NoProbe, H) /\ ~NoProbe.settled
    BY DEF Earned, NoProbe
  <1>2. Earned(Attempted(bar, sources, 0, t), H) /\ ~Attempted(bar, sources, 0, t).settled
    <2> DEFINE p == Attempted(bar, sources, 0, t)
    <2>1. p.agreements = 0 /\ p.settled = (0 >= Agreements)
      BY DEF Attempted
    <2>2. ~ (0 >= Agreements) /\ ~ (0 > 0)
      BY ProbesAssumption
    <2> HIDE DEF p
    <2>3. Earned(p, H) /\ ~p.settled
      BY <2>1, <2>2 DEF Earned
    <2> QED
      BY <2>3 DEF p
  <1> QED
    BY <1>1, <1>2 DEF EarnedBy, NoRecord, Nothing, Reached, Found

LEMMA IdleEarned ==
    ASSUME NEW H, NEW v, NEW st, NEW t, NEW n, Is(v, st, t, NoRecord, n, Nothing)
    PROVE  EarnedWork(v, H)
  <1>1. NoRecord.probe.agreements = 0
    BY DEF NoRecord, NoProbe
  <1> QED
    BY <1>1, FreshEarned DEF EarnedWork, Is

LEMMA MergeEarned ==
    ASSUME NEW H, NEW r \in Records, NEW f \in Answers, EarnedBy(r, H), EarnedBy(f, H)
    PROVE  EarnedBy(mergeSession(r, f), H)
  <1> DEFINE m == mergeSession(r, f)
  <1>1. m.tip = mergeBars(r.tip, f.tip) /\ m.probe = mergeCloseProbes(r.probe, f)
    BY DEF mergeSession, Records
  <1>2. r.tip \in Nat /\ f.tip \in Nat /\ r.probe \in Probes /\ f.probe \in Probes
    BY DEF Records, Answers
  <1>3. (r.tip # NoBars \/ f.tip # NoBars) => m.tip # NoBars
    BY <1>1, <1>2 DEF mergeBars, NoBars
  <1>4. CASE f.clear
    BY <1>1, <1>4, FreshEarned DEF mergeCloseProbes, EarnedBy, NoRecord, NoProbe
  <1>5. CASE ~f.clear /\ f.probe = NoProbe
    BY <1>1, <1>3, <1>5 DEF mergeCloseProbes, EarnedBy
  <1>6. CASE ~f.clear /\ f.probe # NoProbe
    <2>1. /\ m.probe.agreements = f.probe.agreements /\ m.probe.sources = f.probe.sources
          /\ m.probe.lastAttemptAt = f.probe.lastAttemptAt
          /\ m.probe.settled <=> f.probe.settled \/ r.probe.settled
      BY <1>1, <1>2, <1>6 DEF mergeCloseProbes, Probes
    <2> QED
      BY <1>3, <2>1 DEF EarnedBy, Earned
  <1> QED
    BY <1>4, <1>5, <1>6

LEMMA HourOf == ASSUME NEW t \in Nat PROVE t \div Hour \in Nat
  BY ProbesAssumption

\* From the next full hour on, it is a later hour.
LEMMA NextHour ==
    ASSUME NEW t \in Nat, NEW u \in Nat, u >= nextFullHourStart(t)
    PROVE  u \div Hour > t \div Hour
  <1> DEFINE q == t \div Hour
             r == u \div Hour
  <1>1. q \in Nat /\ r \in Nat /\ Hour \in Nat /\ Hour > 0
    BY HourOf, ProbesAssumption
  <1>2. u >= q * Hour + Hour
    BY DEF nextFullHourStart
  <1>3. u < r * Hour + Hour
    <2>1. u = Hour * r + (u % Hour) /\ u % Hour < Hour /\ u % Hour \in Nat
      BY <1>1
    <2>2. Hour * r = r * Hour
      BY <1>1
    <2> QED
      BY <1>1, <2>1, <2>2
  <1> HIDE DEF q, r
  <1>4. ASSUME r <= q PROVE FALSE
    <2>1. r * Hour <= q * Hour
      <3>1. PICK d \in Nat : q = r + d
        BY <1>1, <1>4
      <3>2. q * Hour = r * Hour + d * Hour
        BY <1>1, <3>1
      <3>3. d * Hour >= 0
        BY <1>1
      <3> QED
        BY <1>1, <3>1, <3>2, <3>3
    <2>2. q * Hour \in Nat /\ r * Hour \in Nat
      BY <1>1
    <2> QED
      BY <1>1, <1>2, <1>3, <2>1, <2>2
  <1> QED
    BY <1>1, <1>4 DEF q, r

\* An agreement adds its hour to those of the agreements before it.
LEMMA AgreementEarned ==
    ASSUME NEW H \in SUBSET Nat, IsFiniteSet(H), NEW p \in Probes, Earned(p, H), NEW t \in Nat,
           p.agreements > 0 => t >= nextFullHourStart(p.lastAttemptAt), NEW a \in Nat \ {NoBars}
    PROVE  EarnedBy(Found(a, Attempted(a, 2, p.agreements + 1, t)), H \cup {t \div Hour})
  <1> DEFINE hour == t \div Hour
             G == H \cup {hour}
             before == IF p.agreements = 0 THEN {} ELSE UpTo(H, p.lastAttemptAt)
  <1>0. hour \in Nat /\ p.agreements \in Nat
    BY HourOf DEF Probes
  <1>1. hour \notin before /\ before \subseteq UpTo(G, t)
    <2>1. CASE p.agreements = 0
      BY <2>1
    <2>2. CASE p.agreements # 0
      <3>1. p.lastAttemptAt \in Nat /\ hour > p.lastAttemptAt \div Hour /\ p.lastAttemptAt \div Hour \in Nat
        BY <1>0, <2>2, NextHour, HourOf DEF Earned
      <3> DEFINE was == p.lastAttemptAt \div Hour
      <3>2. was \in Nat /\ hour \in Nat /\ hour > was /\ UpTo(H, p.lastAttemptAt) = {h \in H : h <= was}
        BY <1>0, <3>1 DEF UpTo
      <3> HIDE DEF hour, was
      <3>3. hour \notin UpTo(H, p.lastAttemptAt)
        BY <3>2
      <3>4. UpTo(H, p.lastAttemptAt) \subseteq {h \in G : h <= hour}
        <4>1. \A h \in Nat : h <= was => h <= hour
          BY <3>2
        <4> QED
          BY <3>2, <4>1
      <3> QED
        BY <2>2, <3>3, <3>4 DEF UpTo, hour
    <2> QED
      BY <2>1, <2>2
  <1>2. hour \in UpTo(G, t)
    BY <1>0 DEF UpTo
  <1>3. IsFiniteSet(G) /\ IsFiniteSet(UpTo(G, t)) /\ IsFiniteSet(before)
    <2>1. IsFiniteSet(G)
      BY FS_AddElement
    <2>2. UpTo(G, t) \subseteq G
      BY DEF UpTo
    <2> QED
      BY <1>1, <2>1, <2>2, FS_Subset
  <1> HIDE DEF hour, G, before
  <1>4. Cardinality(before) \in Nat /\ p.agreements <= Cardinality(before)
    <2>1. Cardinality(before) \in Nat
      BY <1>3, FS_CardinalityType
    <2> QED
      BY <1>0, <2>1 DEF before, Earned
  <1>5. Cardinality(before \cup {hour}) = Cardinality(before) + 1
    BY <1>1, <1>3, FS_AddElement
  <1>6. Cardinality(before \cup {hour}) <= Cardinality(UpTo(G, t))
    BY <1>1, <1>2, <1>3, FS_Subset
  <1>7. Cardinality(UpTo(G, t)) <= Cardinality(G) /\ Cardinality(UpTo(G, t)) \in Nat /\ Cardinality(G) \in Nat
    BY <1>3, FS_Subset, FS_CardinalityType DEF UpTo
  <1>8. p.agreements + 1 <= Cardinality(UpTo(G, t)) /\ p.agreements + 1 <= Cardinality(G)
    BY <1>0, <1>4, <1>5, <1>6, <1>7
  <1>9. Earned(Attempted(a, 2, p.agreements + 1, t), G)
    <2> DEFINE new == Attempted(a, 2, p.agreements + 1, t)
    <2>1. /\ new.agreements = p.agreements + 1 /\ new.sources = 2 /\ new.lastAttemptAt = t
          /\ new.settled <=> p.agreements + 1 >= Agreements
      BY DEF Attempted
    <2> HIDE DEF new
    <2>2. new.settled => Agreements <= Cardinality(G)
      BY <1>0, <1>7, <1>8, <2>1, ProbesAssumption
    <2>3. new.agreements <= Cardinality(UpTo(G, new.lastAttemptAt))
      BY <1>8, <2>1
    <2>4. Earned(new, G)
      BY <2>1, <2>2, <2>3 DEF Earned
    <2> QED
      BY <2>4 DEF new
  <1> QED
    BY <1>9 DEF EarnedBy, Found, G, hour

----------------------------------------------------------------------------
(* Every step keeps what is earned. *)

Inv == TypeOK /\ EarnedInv

LEMMA InvAtFirst == Init => Inv
  <1> SUFFICES ASSUME Init PROVE Inv
    OBVIOUS
  <1>1. EarnedWork(Idle, agreed) /\ EarnedBy(NoRecord, agreed)
    <2>1. "idle" \in Steps
      BY DEF Steps
    <2>2. Is(Idle, "idle", 0, NoRecord, NoBars, Nothing)
      BY <2>1, WorkType, NoRecordType
    <2> QED
      BY <2>2, IdleEarned, FreshEarned
  <1>2. IsFiniteSet({})
    BY FS_EmptySet
  <1> QED
    BY <1>1, <1>2, NoRecordType DEF Init, Inv, TypeOK, EarnedInv, NoStrike, Never

\* A step of one build.
LEMMA BuildKeeps ==
    ASSUME Inv, NEW b \in Builders, NEW v \in Works, build' = [build EXCEPT ![b] = v],
           UNCHANGED <<now, filler>>, backoff' \in [fails : Nat, armedAt : Nat \cup {Never}],
           agreed \subseteq agreed', agreed' \in SUBSET Nat, IsFiniteSet(agreed'),
           EarnedWork(v, agreed'), disk' \in Records, EarnedBy(disk', agreed')
    PROVE  Inv'
  <1>1. build' \in [Builders -> Works] /\ \A o \in Builders : build'[o] = IF o = b THEN v ELSE build[o]
    BY DEF Inv, TypeOK
  <1>2. \A o \in Builders : EarnedWork(build'[o], agreed')
    BY <1>1, WorkGrows DEF Inv, TypeOK, EarnedInv
  <1>3. EarnedWork(filler', agreed')
    BY WorkGrows DEF Inv, TypeOK, EarnedInv
  <1> QED
    BY <1>1, <1>2, <1>3 DEF Inv, TypeOK, EarnedInv

\* A step of the download.
LEMMA FillerKeeps ==
    ASSUME Inv, filler' \in Works, UNCHANGED <<now, build, backoff, agreed>>,
           EarnedWork(filler', agreed), disk' \in Records, EarnedBy(disk', agreed)
    PROVE  Inv'
  BY DEF Inv, TypeOK, EarnedInv

LEMMA StartKeeps ==
    ASSUME Inv, NEW b \in Builders, NEW kind, loadOrBuildSessionCurve(b, kind) PROVE Inv'
  <1> DEFINE v == CASE Needed(disk, kind) = "draw" -> Drawing(now)
                    [] Needed(disk, kind) = "all" -> [Idle EXCEPT !.step = "all", !.began = now]
                    [] OTHER -> [Idle EXCEPT !.step = "first", !.began = now, !.seen = disk]
  <1>0. "all" \in Steps /\ "first" \in Steps /\ now \in Nat /\ disk \in Records
    BY DEF Steps, Inv, TypeOK
  <1>1. CASE Needed(disk, kind) = "draw"
    <2>1. v = Drawing(now)
      BY <1>1
    <2>2. v \in Works /\ EarnedWork(v, agreed)
      BY <1>0, <2>1, DrawingType, IdleEarned DEF Is
    <2> QED
      BY <2>2, BuildKeeps DEF loadOrBuildSessionCurve, Inv, TypeOK, EarnedInv
  <1>2. CASE Needed(disk, kind) = "all"
    <2>1. v = [Idle EXCEPT !.step = "all", !.began = now]
      BY <1>2
    <2>2. Is(v, "all", now, NoRecord, NoBars, Nothing)
      BY <1>0, <2>1, WorkType, NoRecordType
    <2>3. v \in Works /\ EarnedWork(v, agreed)
      BY <2>2, IdleEarned DEF Is
    <2> QED
      BY <2>3, BuildKeeps DEF loadOrBuildSessionCurve, Inv, TypeOK, EarnedInv
  <1>3. CASE Needed(disk, kind) \notin {"draw", "all"}
    <2>1. v = [Idle EXCEPT !.step = "first", !.began = now, !.seen = disk]
      BY <1>3
    <2>2. Is(v, "first", now, disk, NoBars, Nothing)
      <3>1. Is([Idle EXCEPT !.step = "first", !.began = now, !.seen = disk], "first", now, disk, NoBars, Nothing)
        BY <1>0, WorkType, NoRecordType
      <3> HIDE DEF v
      <3> QED
        BY <2>1, <3>1
    <2>3. ~disk.probe.settled /\ closeProbeReady(disk.probe, now)
      BY <1>3 DEF Needed, incompleteAfterClose
    <2>4. disk.probe.agreements > 0 => now >= nextFullHourStart(disk.probe.lastAttemptAt)
      <3>1. disk.probe.agreements > 0 => disk.probe.sources = 2 /\ disk.probe # NoProbe
        BY DEF Inv, EarnedInv, EarnedBy, Earned, NoProbe
      <3> QED
        BY <2>3, <3>1 DEF closeProbeReady
    <2>5. v \in Works /\ EarnedWork(v, agreed)
      BY <2>2, <2>4, FreshEarned DEF Is, EarnedWork, Inv, EarnedInv
    <2> QED
      BY <2>5, BuildKeeps DEF loadOrBuildSessionCurve, Inv, TypeOK, EarnedInv
  <1> QED
    BY <1>1, <1>2, <1>3

\* A step of a build that asks nobody: it merges, saves, draws, or is given up.
LEMMA StoreKeeps ==
    ASSUME Inv, NEW b \in Builders,
           MergeLoads(b) \/ MergeSaves(b) \/ Appends(b) \/ Throws(b) \/ (\E whole \in BOOLEAN : Draws(b, whole))
    PROVE  Inv'
  <1> DEFINE w == build[b]
  <1>0. /\ w \in Works /\ EarnedWork(w, agreed) /\ disk \in Records /\ EarnedBy(disk, agreed)
        /\ w.seen \in Records /\ w.found \in Answers /\ w.began \in Nat
        /\ agreed \in SUBSET Nat /\ IsFiniteSet(agreed)
        /\ backoff \in [fails : Nat, armedAt : Nat \cup {Never}] /\ build \in [Builders -> Works]
    BY DEF Inv, TypeOK, EarnedInv, Works
  <1>1. Idle \in Works /\ EarnedWork(Idle, agreed)
    <2>1. "idle" \in Steps
      BY DEF Steps
    <2>2. Is(Idle, "idle", 0, NoRecord, NoBars, Nothing)
      BY <2>1, WorkType, NoRecordType
    <2> QED
      BY <2>2, IdleEarned DEF Is
  <1>2. CASE MergeLoads(b)
    <2> DEFINE r == mergeSession(disk, w.found)
    <2>1. r \in Records /\ EarnedBy(r, agreed)
      BY <1>0, MergeType, MergeEarned DEF EarnedWork
    <2>2. Saving(w, r) \in Works /\ EarnedWork(Saving(w, r), agreed)
      <3>1. "save" \in Steps
        BY DEF Steps
      <3>2. Is(Saving(w, r), "save", w.began, r, NoBars, Nothing)
        BY <1>0, <2>1, <3>1, WorkType, NoRecordType
      <3> QED
        BY <2>1, <3>2, FreshEarned DEF Is, EarnedWork
    <2> HIDE DEF r
    <2>3. build' = [build EXCEPT ![b] = Saving(w, r)] /\ UNCHANGED <<now, disk, backoff, filler, agreed>>
      BY <1>2 DEF MergeLoads, r
    <2> QED
      BY <1>0, <2>2, <2>3, BuildKeeps
  <1>3. CASE MergeSaves(b)
    <2>1. Drawing(w.began) \in Works /\ EarnedWork(Drawing(w.began), agreed)
      BY <1>0, DrawingType, IdleEarned DEF Is
    <2>2. /\ build' = [build EXCEPT ![b] = Drawing(w.began)] /\ disk' = w.seen
          /\ UNCHANGED <<now, backoff, filler, agreed>>
      BY <1>3 DEF MergeSaves
    <2> QED
      BY <1>0, <2>1, <2>2, BuildKeeps DEF EarnedWork
  <1>4. CASE Appends(b)
    <2>1. build' = [build EXCEPT ![b] = Idle] /\ disk' = w.seen /\ UNCHANGED <<now, backoff, filler, agreed>>
      BY <1>4 DEF Appends
    <2> QED
      BY <1>0, <1>1, <2>1, BuildKeeps DEF EarnedWork
  <1>5. CASE Throws(b) \/ Draws(b, FALSE)
    <2>1. build' = [build EXCEPT ![b] = Idle] /\ UNCHANGED <<now, disk, backoff, filler, agreed>>
      BY <1>5 DEF Throws, Draws
    <2> QED
      BY <1>0, <1>1, <2>1, BuildKeeps
  <1>6. CASE Draws(b, TRUE)
    <2> DEFINE r == appendTip(disk, w.began)
               v == [w EXCEPT !.step = "append", !.seen = r]
    <2>1. r \in Records /\ EarnedBy(r, agreed)
      <3>1. r.tip = disk.tip /\ r.probe = disk.probe
        BY <1>0 DEF appendTip, Records
      <3> QED
        BY <1>0, <3>1, CrumbType DEF EarnedBy
    <2>2. Is(v, "append", w.began, r, w.first, w.found)
      <3>1. "append" \in Steps
        BY DEF Steps
      <3> HIDE DEF r
      <3> QED
        BY <1>0, <2>1, <3>1, WorkType, NoRecordType
    <2> HIDE DEF r
    <2>3. v \in Works /\ EarnedWork(v, agreed)
      BY <1>0, <2>1, <2>2 DEF Is, EarnedWork
    <2>4. build' = [build EXCEPT ![b] = v] /\ UNCHANGED <<now, disk, backoff, filler, agreed>>
      BY <1>6 DEF Draws, r
    <2> HIDE DEF v
    <2> QED
      BY <1>0, <2>3, <2>4, BuildKeeps
  <1> QED
    BY <1>2, <1>3, <1>4, <1>5, <1>6

\* A build that merges what was found.
LEMMA MergingEarned ==
    ASSUME NEW H, NEW w \in Works, NEW f \in Answers, EarnedBy(f, H)
    PROVE  Merging(w, f) \in Works /\ EarnedWork(Merging(w, f), H)
  <1>1. "merge" \in Steps
    BY DEF Steps
  <1>2. Is(Merging(w, f), "merge", w.began, NoRecord, NoBars, f)
    BY <1>1, WorkType, NoRecordType
  <1> QED
    BY <1>2, FreshEarned DEF Is, EarnedWork

LEMMA FirstEarned == ASSUME NEW H, NEW a, NEW t PROVE EarnedBy(ResolvedByFirst(a, t), H)
  BY FreshEarned DEF ResolvedByFirst

LEMMA AnswersKeep ==
    ASSUME Inv, NEW b \in Builders, NEW tip \in Tips,
           AllAnswers(b, tip) \/ FirstAnswers(b, tip) \/ SecondAnswers(b, tip)
    PROVE  Inv'
  <1> DEFINE w == build[b]
  <1>0. /\ w \in Works /\ EarnedWork(w, agreed) /\ disk \in Records /\ EarnedBy(disk, agreed)
        /\ w.seen \in Records /\ w.began \in Nat /\ w.first \in Nat /\ tip \in Nat
        /\ w.seen.probe \in Probes /\ w.seen.tip \in Nat
        /\ agreed \in SUBSET Nat /\ IsFiniteSet(agreed)
        /\ backoff \in [fails : Nat, armedAt : Nat \cup {Never}]
    BY PrintedType DEF Inv, TypeOK, EarnedInv, Works, Records
  <1>1. CASE AllAnswers(b, tip)
    <2> DEFINE f == [Nothing EXCEPT !.tip = tip]
    <2>1. f \in Answers /\ EarnedBy(f, agreed)
      <3>1. f \in Answers /\ f.probe = NoProbe
        BY <1>0, NoRecordType DEF Answers, Nothing
      <3>2. ~NoProbe.settled /\ Earned(NoProbe, agreed)
        BY DEF Earned, NoProbe
      <3> QED
        BY <3>1, <3>2 DEF EarnedBy
    <2> HIDE DEF f
    <2>2. build' = [build EXCEPT ![b] = Merging(w, f)] /\ UNCHANGED <<now, disk, backoff, filler, agreed>>
      BY <1>1 DEF AllAnswers, f
    <2> QED
      BY <1>0, <2>1, <2>2, MergingEarned, BuildKeeps
  <1>2. CASE FirstAnswers(b, tip) /\ Escalates(tip, w.seen.probe, w.seen.tip)
    <2> DEFINE v == [[w EXCEPT !.step = "second"] EXCEPT !.first = tip]
    <2>1. v \in Works /\ v.step = "second" /\ v.began = w.began /\ v.seen = w.seen /\ v.found = w.found
      BY <1>0, SecondStep
    <2>2. EarnedWork(v, agreed)
      BY <1>0, <1>2, <2>1 DEF EarnedWork, FirstAnswers
    <2>3. build' = [build EXCEPT ![b] = v] /\ UNCHANGED <<now, disk, backoff, filler, agreed>>
      <3>1. build' = [build EXCEPT ![b].step = "second", ![b].first = tip]
        BY <1>2 DEF FirstAnswers
      <3>2. build \in [Builders -> Works]
        BY DEF Inv, TypeOK
      <3> QED
        BY <1>2, <3>1, <3>2 DEF FirstAnswers
    <2> HIDE DEF v
    <2> QED
      BY <1>0, <2>1, <2>2, <2>3, BuildKeeps
  <1>3. CASE FirstAnswers(b, tip) /\ ~Escalates(tip, w.seen.probe, w.seen.tip)
    <2> DEFINE f == ResolvedByFirst(tip, w.began)
    <2>1. f \in Answers /\ EarnedBy(f, agreed)
      BY <1>0, FirstType, FirstEarned
    <2>2. /\ build' = [build EXCEPT ![b] = Merging(w, f)] /\ UNCHANGED <<now, disk, filler, agreed>>
          /\ backoff' = Scored(backoff, tip, NoBars, f, w.began)
      BY <1>3 DEF FirstAnswers
    <2>3. backoff' \in [fails : Nat, armedAt : Nat \cup {Never}]
      BY <1>0, <2>2, ScoredType
    <2> HIDE DEF f
    <2> QED
      BY <1>0, <2>1, <2>2, <2>3, MergingEarned, BuildKeeps
  <1>4. CASE SecondAnswers(b, tip)
    <2> DEFINE p == w.seen.probe
               f == ResolvedBySecond(w.first, tip, p, w.seen.tip, w.began)
               hour == w.began \div Hour
    <2>1. /\ build' = [build EXCEPT ![b] = Merging(w, f)] /\ UNCHANGED <<now, disk, filler>>
          /\ backoff' = Scored(backoff, w.first, tip, f, w.began)
          /\ agreed' = IF f.probe.sources = 2 THEN agreed \cup {hour} ELSE agreed
      BY <1>4 DEF SecondAnswers
    <2>2. backoff' \in [fails : Nat, armedAt : Nat \cup {Never}]
      BY <1>0, <2>1, ScoredType
    <2>3. f \in Answers
      BY <1>0, SecondType
    <2>4. agreed \subseteq agreed' /\ agreed' \in SUBSET Nat /\ IsFiniteSet(agreed')
      BY <1>0, <2>1, HourOf, FS_AddElement
    <2>5. EarnedBy(f, agreed')
      <3>1. CASE \/ f = Reached(tip)
                 \/ \E n, bar \in Nat, sources \in 0 .. 1 : f = Found(n, Attempted(bar, sources, 0, w.began))
        BY <3>1, FreshEarned
      <3>2. CASE w.first # NoBars /\ f = Found(w.first, Attempted(w.first, 2, p.agreements + 1, w.began))
        <4>1. f.probe.sources = 2
          BY <3>2 DEF Found, Attempted
        <4>2. p.agreements > 0 => w.began >= nextFullHourStart(p.lastAttemptAt)
          BY <1>0, <1>4 DEF SecondAnswers, EarnedWork
        <4>3. Earned(p, agreed)
          BY <1>0 DEF EarnedWork, EarnedBy
        <4>4. EarnedBy(Found(w.first, Attempted(w.first, 2, p.agreements + 1, w.began)), agreed \cup {hour})
          BY <1>0, <3>2, <4>2, <4>3, AgreementEarned
        <4> QED
          BY <2>1, <3>2, <4>1, <4>4
      <3> QED
        BY <1>0, <3>1, <3>2, SecondType
    <2>6. EarnedBy(disk, agreed')
      BY <1>0, <2>4, EarnedGrows DEF EarnedBy, Records
    <2> HIDE DEF f
    <2> QED
      BY <1>0, <2>1, <2>2, <2>3, <2>4, <2>5, <2>6, MergingEarned, BuildKeeps
  <1> QED
    BY <1>1, <1>2, <1>3, <1>4

LEMMA DownloadKeeps ==
    ASSUME Inv,
           \/ \E wipe \in BOOLEAN : prefetchGraphBars(wipe)
           \/ \E tip \in Tips : FillerAnswers(tip)
           \/ persistSprungSessionDetail \/ \E t \in 0 .. Shut - 1 : TrailSaved(t)
           \/ FillerLoads \/ FillerSaves \/ FillerFails
    PROVE  Inv'
  <1>0. /\ filler \in Works /\ EarnedWork(filler, agreed) /\ disk \in Records /\ EarnedBy(disk, agreed)
        /\ filler.seen \in Records /\ filler.found \in Answers /\ filler.began \in Nat /\ now \in Nat
        /\ {"idle", "all", "merge", "save", "trail"} \subseteq Steps
    BY DEF Inv, TypeOK, EarnedInv, Works, Steps
  <1>1. Idle \in Works /\ EarnedWork(Idle, agreed)
    <2>1. Is(Idle, "idle", 0, NoRecord, NoBars, Nothing)
      BY <1>0, WorkType, NoRecordType
    <2> QED
      BY <2>1, IdleEarned DEF Is
  <1>2. ASSUME NEW wipe \in BOOLEAN, prefetchGraphBars(wipe) PROVE Inv'
    <2> DEFINE v == [Idle EXCEPT !.step = "all", !.began = now]
    <2>1. v \in Works /\ EarnedWork(v, agreed)
      <3>1. Is(v, "all", now, NoRecord, NoBars, Nothing)
        BY <1>0, WorkType, NoRecordType
      <3> QED
        BY <3>1, IdleEarned DEF Is
    <2>2. filler' = v /\ UNCHANGED <<now, backoff, build, agreed>> /\ disk' \in {NoRecord, disk}
      BY <1>2 DEF prefetchGraphBars
    <2> HIDE DEF v
    <2> QED
      BY <1>0, <2>1, <2>2, NoRecordType, FreshEarned, FillerKeeps
  <1>3. ASSUME NEW tip \in Tips, FillerAnswers(tip) PROVE Inv'
    <2> DEFINE q == IF open(filler.began) \/ tip = NoBars \/ sessionBarsComplete(tip)
                    THEN NoProbe ELSE Attempted(tip, 1, 0, filler.began)
               f == Found(tip, q)
               v == [Idle EXCEPT !.step = "merge", !.found = f]
    <2>1. f \in Answers /\ EarnedBy(f, agreed)
      <3>1. q \in Probes
        BY <1>0, PrintedType, AttemptedType, NoRecordType
      <3>2. f = Found(tip, NoProbe) \/ f = Found(tip, Attempted(tip, 1, 0, filler.began))
        OBVIOUS
      <3> HIDE DEF q
      <3>3. f \in Answers
        BY <3>1, PrintedType DEF Found, Answers
      <3> QED
        BY <3>2, <3>3, FreshEarned
    <2>2. filler' = v /\ UNCHANGED <<now, disk, backoff, build, agreed>>
      BY <1>3 DEF FillerAnswers
    <2> HIDE DEF f
    <2>3. v \in Works /\ EarnedWork(v, agreed)
      <3>1. Is(v, "merge", 0, NoRecord, NoBars, f)
        BY <1>0, <2>1, WorkType, NoRecordType
      <3> QED
        BY <2>1, <3>1, FreshEarned DEF Is, EarnedWork
    <2> HIDE DEF v
    <2> QED
      BY <1>0, <2>2, <2>3, FillerKeeps
  <1>4. CASE persistSprungSessionDetail
    <2> DEFINE v == [Idle EXCEPT !.step = "trail", !.seen = disk]
    <2>1. v \in Works /\ EarnedWork(v, agreed)
      <3>1. Is(v, "trail", 0, disk, NoBars, Nothing)
        BY <1>0, WorkType, NoRecordType
      <3> QED
        BY <1>0, <3>1, FreshEarned DEF Is, EarnedWork
    <2>2. filler' = v /\ UNCHANGED <<now, disk, backoff, build, agreed>>
      BY <1>4 DEF persistSprungSessionDetail
    <2> HIDE DEF v
    <2> QED
      BY <1>0, <2>1, <2>2, FillerKeeps
  <1>5. ASSUME NEW t \in 0 .. Shut - 1, TrailSaved(t) PROVE Inv'
    <2> DEFINE r == [filler.seen EXCEPT !.crumbs = {t}, !.probe = NoProbe]
    <2>1. r \in Records /\ r.probe = NoProbe
      <3>1. t \in Nat
        BY CurveAssumption
      <3> QED
        BY <1>0, <3>1, NoRecordType DEF Records
    <2>2. EarnedBy(r, agreed)
      <3>1. ~NoProbe.settled /\ Earned(NoProbe, agreed)
        BY DEF Earned, NoProbe
      <3> QED
        BY <2>1, <3>1 DEF EarnedBy
    <2>3. filler' = Idle /\ disk' = r /\ UNCHANGED <<now, backoff, build, agreed>>
      BY <1>5 DEF TrailSaved
    <2> HIDE DEF r
    <2> QED
      BY <1>1, <2>1, <2>2, <2>3, FillerKeeps
  <1>6. CASE FillerLoads
    <2> DEFINE r == mergeSession(disk, filler.found)
    <2>1. r \in Records /\ EarnedBy(r, agreed)
      BY <1>0, MergeType, MergeEarned DEF EarnedWork
    <2>2. filler' = Saving(filler, r) /\ UNCHANGED <<now, disk, backoff, build, agreed>>
      BY <1>6 DEF FillerLoads
    <2> HIDE DEF r
    <2>3. Saving(filler, r) \in Works /\ EarnedWork(Saving(filler, r), agreed)
      <3>1. Is(Saving(filler, r), "save", filler.began, r, NoBars, Nothing)
        BY <1>0, <2>1, WorkType, NoRecordType
      <3> QED
        BY <2>1, <3>1, FreshEarned DEF Is, EarnedWork
    <2> QED
      BY <1>0, <2>2, <2>3, FillerKeeps
  <1>7. CASE FillerSaves
    BY <1>0, <1>1, <1>7, FillerKeeps DEF FillerSaves, EarnedWork
  <1>8. CASE FillerFails
    BY <1>0, <1>1, <1>8, FillerKeeps DEF FillerFails
  <1> QED
    BY <1>2, <1>3, <1>4, <1>5, <1>6, <1>7, <1>8

LEMMA InvKept == Inv /\ [Next]_vars => Inv'
  <1> SUFFICES ASSUME Inv, [Next]_vars PROVE Inv'
    OBVIOUS
  <1>1. CASE Tick
    BY <1>1 DEF Tick, Inv, TypeOK, EarnedInv
  <1>2. CASE Reload
    <2>1. "idle" \in Steps
      BY DEF Steps
    <2>2. Is(Idle, "idle", 0, NoRecord, NoBars, Nothing)
      BY <2>1, WorkType, NoRecordType
    <2>3. EarnedWork(Idle, agreed)
      BY <2>2, IdleEarned
    <2> QED
      BY <1>2, <2>3, NoRecordType DEF Reload, Inv, TypeOK, EarnedInv
  <1>3. CASE UNCHANGED vars
    BY <1>3 DEF vars, Inv, TypeOK, EarnedInv
  <1>4. CASE \E b \in Builders : \E kind \in {"paint", "stored", "force"} : loadOrBuildSessionCurve(b, kind)
    BY <1>4, StartKeeps
  <1>5. CASE \E b \in Builders : \E tip \in Tips : AllAnswers(b, tip) \/ FirstAnswers(b, tip) \/ SecondAnswers(b, tip)
    BY <1>5, AnswersKeep
  <1>6. CASE \E b \in Builders : \/ \E whole \in BOOLEAN : Draws(b, whole)
                                 \/ Throws(b) \/ MergeLoads(b) \/ MergeSaves(b) \/ Appends(b)
    BY <1>6, StoreKeeps
  <1> QED
    BY <1>1, <1>2, <1>3, <1>4, <1>5, <1>6, DownloadKeeps DEF Next

\* Every reachable state is well-typed.
THEOREM TypeCorrect == Spec => []TypeOK
  <1>1. Inv => TypeOK
    BY DEF Inv
  <1> QED
    BY <1>1, InvAtFirst, InvKept, PTL DEF Spec

\* However builds, downloads and regenerations overlap and lose each other's writes, a day that
\* is stored as settled was agreed on in as many hours as AGREEMENTS_TO_SETTLE, and has bars
\* (close-completeness.ts, timeseries-store.ts mergeCloseProbes).
THEOREM NoneSettledEarly == Spec => []SettledEarned
  <1>1. Inv => SettledEarned
    <2> SUFFICES ASSUME Inv, disk.probe.settled PROVE Cardinality(agreed) >= Agreements /\ disk.tip # NoBars
      BY DEF SettledEarned
    <2>1. Agreements <= Cardinality(agreed) /\ Cardinality(agreed) \in Nat
      BY FS_CardinalityType DEF Inv, TypeOK, EarnedInv, EarnedBy, Earned
    <2> QED
      BY <2>1, ProbesAssumption DEF Inv, EarnedInv, EarnedBy
  <1> QED
    BY <1>1, InvAtFirst, InvKept, PTL DEF Spec

----------------------------------------------------------------------------
(* Strikes.  A series is armed from its Strikes-th strike on.  Builds whose     *)
(* request outlived the arming strike are all younger than the cooldown, since  *)
(* no request takes that long, and no build begins to probe in between: a build *)
(* under way adds a strike, or starts the count over.                           *)

Asking == {"first", "second"}
Probing == {b \in Builders : build[b].step \in Asking}
Counting == {b \in Probing : ~Elapsed(backoff, build[b].began)}

StrikeInv ==
    /\ backoff.armedAt # Never <=> backoff.fails >= Strikes
    /\ backoff.armedAt <= now
    /\ \A b \in Builders : build[b].step # "idle" => build[b].began <= now /\ now - build[b].began <= Patience
    /\ \A b \in Probing : backoff.armedAt # Never =>
          build[b].began <= backoff.armedAt + Patience \/ Elapsed(backoff, build[b].began)
    /\ backoff.fails + Cardinality(Counting) <= Strikes - 1 + Cardinality(Builders)

\* What a step does to the builds and the strikes: builds go on or end, one begins, ...
GoesOn ==
    /\ UNCHANGED <<now, backoff>>
    /\ \A b \in Builders :
          \/ build'[b].step = "idle"
          \/ /\ build[b].step # "idle" /\ build'[b].began = build[b].began
             /\ build'[b].step \in Asking => build[b].step \in Asking

Begins(b) ==
    /\ UNCHANGED <<now, backoff>>
    /\ \A o \in Builders \ {b} : build'[o] = build[o]
    /\ build'[b].step # "idle" => build'[b].began = now
    /\ build'[b].step \in Asking => ~suppressed(backoff, now)

\* ... or one has its answers, and the strikes are told.
Answered(b) ==
    /\ UNCHANGED now /\ b \in Probing /\ build'[b].step = "merge" /\ build'[b].began = build[b].began
    /\ \A o \in Builders \ {b} : build'[o] = build[o]
    /\ backoff' \in {backoff, NoStrike, fail(backoff, build[b].began)}

LEMMA StepShape ==
    ASSUME Inv, [Next]_vars
    PROVE  GoesOn \/ (\E b \in Builders : Begins(b) \/ Answered(b)) \/ Tick
  <1>0. build \in [Builders -> Works]
    BY DEF Inv, TypeOK
  <1>1. ASSUME NEW b \in Builders, NEW v, build' = [build EXCEPT ![b] = v]
        PROVE  build'[b] = v /\ \A o \in Builders \ {b} : build'[o] = build[o]
    BY <1>0, <1>1
  <1>2. \A b \in Builders : build[b] \in Works /\ build[b].began \in Nat
    BY <1>0 DEF Works
  <1>3. /\ now \in Nat /\ disk \in Records
        /\ {"idle", "all", "first", "second", "append", "merge", "save"} \subseteq Steps
    BY DEF Inv, TypeOK, Steps
  <1>4. Idle.step = "idle"
    BY DEF Idle
  <1>5. ASSUME NEW b \in Builders, NEW kind, loadOrBuildSessionCurve(b, kind) PROVE Begins(b)
    <2> DEFINE v == CASE Needed(disk, kind) = "draw" -> Drawing(now)
                      [] Needed(disk, kind) = "all" -> [Idle EXCEPT !.step = "all", !.began = now]
                      [] OTHER -> [Idle EXCEPT !.step = "first", !.began = now, !.seen = disk]
    <2>1. build' = [build EXCEPT ![b] = v] /\ UNCHANGED <<now, backoff>>
      BY <1>5 DEF loadOrBuildSessionCurve
    <2>2. CASE Needed(disk, kind) = "draw"
      <3>1. v = Drawing(now)
        BY <2>2
      <3>2. v.step \in {"idle", "draw"} /\ (v.step # "idle" => v.began = now)
        BY <1>3, <1>4, <3>1 DEF Drawing, Idle
      <3> HIDE DEF v
      <3> QED
        BY <1>1, <2>1, <3>2 DEF Begins, Asking
    <2>3. CASE Needed(disk, kind) = "all"
      <3>1. v.step = "all" /\ v.began = now
        BY <1>3, <2>3 DEF Idle
      <3> HIDE DEF v
      <3> QED
        BY <1>1, <2>1, <3>1 DEF Begins, Asking
    <2>4. CASE Needed(disk, kind) \notin {"draw", "all"}
      <3>1. v.began = now
        BY <1>3, <2>4 DEF Idle
      <3>2. ~suppressed(backoff, now)
        BY <2>4 DEF Needed
      <3> HIDE DEF v
      <3> QED
        BY <1>1, <2>1, <3>1, <3>2 DEF Begins, Asking
    <2> QED
      BY <2>2, <2>3, <2>4
  <1>6. ASSUME NEW b \in Builders, NEW tip \in Tips, AllAnswers(b, tip) PROVE GoesOn
    <2> DEFINE v == Merging(build[b], [Nothing EXCEPT !.tip = tip])
    <2>1. build' = [build EXCEPT ![b] = v] /\ UNCHANGED <<now, backoff>> /\ build[b].step = "all"
      BY <1>6 DEF AllAnswers
    <2>2. v.step = "merge" /\ v.began = build[b].began
      BY DEF Merging, Idle
    <2> HIDE DEF v
    <2> QED
      BY <1>1, <2>1, <2>2 DEF GoesOn, Asking
  <1>7. ASSUME NEW b \in Builders, NEW tip \in Tips, FirstAnswers(b, tip) PROVE GoesOn \/ Answered(b)
    <2> DEFINE w == build[b]
               f == ResolvedByFirst(tip, w.began)
    <2>1. CASE Escalates(tip, w.seen.probe, w.seen.tip)
      <3> DEFINE v == [[w EXCEPT !.step = "second"] EXCEPT !.first = tip]
      <3>1. build' = [build EXCEPT ![b] = v] /\ UNCHANGED <<now, backoff>> /\ w.step = "first"
        <4>1. build' = [build EXCEPT ![b].step = "second", ![b].first = tip]
          BY <1>7, <2>1 DEF FirstAnswers
        <4> QED
          BY <1>0, <1>7, <2>1, <4>1 DEF FirstAnswers
      <3>2. v.step = "second" /\ v.began = w.began
        BY <1>2, SecondStep, PrintedType
      <3> HIDE DEF v
      <3> QED
        BY <1>1, <3>1, <3>2 DEF GoesOn, Asking
    <2>2. CASE ~Escalates(tip, w.seen.probe, w.seen.tip)
      <3>1. /\ build' = [build EXCEPT ![b] = Merging(w, f)] /\ UNCHANGED now /\ w.step = "first"
            /\ backoff' = Scored(backoff, tip, NoBars, f, w.began)
        BY <1>7, <2>2 DEF FirstAnswers
      <3>2. Merging(w, f).step = "merge" /\ Merging(w, f).began = w.began
        BY DEF Merging, Idle
      <3>3. backoff' \in {backoff, NoStrike, fail(backoff, w.began)}
        BY <3>1 DEF Scored
      <3> QED
        BY <1>1, <3>1, <3>2, <3>3 DEF Answered, Probing, Asking
    <2> QED
      BY <2>1, <2>2
  <1>8. ASSUME NEW b \in Builders, NEW tip \in Tips, SecondAnswers(b, tip) PROVE Answered(b)
    <2> DEFINE w == build[b]
               f == ResolvedBySecond(w.first, tip, w.seen.probe, w.seen.tip, w.began)
    <2>1. /\ build' = [build EXCEPT ![b] = Merging(w, f)] /\ UNCHANGED now /\ w.step = "second"
          /\ backoff' = Scored(backoff, w.first, tip, f, w.began)
      BY <1>8 DEF SecondAnswers
    <2>2. Merging(w, f).step = "merge" /\ Merging(w, f).began = w.began
      BY DEF Merging, Idle
    <2>3. backoff' \in {backoff, NoStrike, fail(backoff, w.began)}
      BY <2>1 DEF Scored
    <2> HIDE DEF f
    <2> QED
      BY <1>1, <2>1, <2>2, <2>3 DEF Answered, Probing, Asking
  <1>9. ASSUME NEW b \in Builders,
               \/ \E whole \in BOOLEAN : Draws(b, whole)
               \/ Throws(b) \/ MergeLoads(b) \/ MergeSaves(b) \/ Appends(b)
        PROVE  GoesOn
    <2> DEFINE w == build[b]
    <2>1. CASE Throws(b) \/ Appends(b) \/ Draws(b, FALSE)
      <3>1. build' = [build EXCEPT ![b] = Idle] /\ UNCHANGED <<now, backoff>>
        BY <2>1 DEF Throws, Appends, Draws
      <3> QED
        BY <1>1, <1>4, <3>1 DEF GoesOn
    <2>2. CASE MergeLoads(b)
      <3> DEFINE v == Saving(w, mergeSession(disk, w.found))
      <3>1. build' = [build EXCEPT ![b] = v] /\ UNCHANGED <<now, backoff>> /\ w.step = "merge"
        BY <2>2 DEF MergeLoads
      <3>2. v.step = "save" /\ v.began = w.began
        BY DEF Saving, Idle
      <3> HIDE DEF v
      <3> QED
        BY <1>1, <3>1, <3>2 DEF GoesOn, Asking
    <2>3. CASE MergeSaves(b)
      <3> DEFINE v == Drawing(w.began)
      <3>1. build' = [build EXCEPT ![b] = v] /\ UNCHANGED <<now, backoff>> /\ w.step = "save"
        BY <2>3 DEF MergeSaves
      <3>2. v.step \in {"idle", "draw"} /\ (v.step # "idle" => v.began = w.began)
        BY <1>4 DEF Drawing, Idle
      <3> HIDE DEF v
      <3> QED
        BY <1>1, <3>1, <3>2 DEF GoesOn, Asking
    <2>4. CASE Draws(b, TRUE)
      <3> DEFINE v == [w EXCEPT !.step = "append", !.seen = appendTip(disk, w.began)]
      <3>1. build' = [build EXCEPT ![b] = v] /\ UNCHANGED <<now, backoff>> /\ w.step = "draw"
        BY <2>4 DEF Draws
      <3>2. v.step = "append" /\ v.began = w.began
        BY <1>2 DEF Works
      <3> HIDE DEF v
      <3> QED
        BY <1>1, <3>1, <3>2 DEF GoesOn, Asking
    <2> QED
      BY <1>9, <2>1, <2>2, <2>3, <2>4
  <1>10. ASSUME \/ \E wipe \in BOOLEAN : prefetchGraphBars(wipe)
                \/ \E tip \in Tips : FillerAnswers(tip)
                \/ persistSprungSessionDetail \/ \E t \in 0 .. Shut - 1 : TrailSaved(t)
                \/ FillerLoads \/ FillerSaves \/ FillerFails \/ UNCHANGED vars
         PROVE  GoesOn
    <2>1. UNCHANGED <<now, backoff, build>>
      BY <1>10 DEF prefetchGraphBars, FillerAnswers, persistSprungSessionDetail, TrailSaved, FillerLoads, FillerSaves,
                   FillerFails, vars
    <2> QED
      BY <2>1 DEF GoesOn
  <1>11. CASE Reload
    BY <1>4, <1>11 DEF Reload, GoesOn
  <1> QED
    BY <1>5, <1>6, <1>7, <1>8, <1>9, <1>10, <1>11 DEF Next

LEMMA CountType ==
    /\ IsFiniteSet(Probing) /\ IsFiniteSet(Counting)
    /\ Cardinality(Builders) \in Nat /\ Cardinality(Counting) \in Nat
    /\ Cardinality(Counting) <= Cardinality(Builders)
    /\ \A S \in SUBSET Builders : IsFiniteSet(S) /\ Cardinality(S) \in Nat /\ Cardinality(S) <= Cardinality(Builders)
  <1>1. \A S \in SUBSET Builders : IsFiniteSet(S) /\ Cardinality(S) \in Nat /\ Cardinality(S) <= Cardinality(Builders)
    BY CurveAssumption, FS_Subset, FS_CardinalityType
  <1>2. Probing \in SUBSET Builders /\ Counting \in SUBSET Builders
    BY DEF Probing, Counting
  <1> QED
    BY <1>1, <1>2, CurveAssumption, FS_CardinalityType

LEMMA StrikesAtFirst == Init => StrikeInv
  <1> SUFFICES ASSUME Init PROVE StrikeInv
    OBVIOUS
  <1>1. backoff.fails = 0 /\ backoff.armedAt = Never /\ now = 0
    BY DEF Init, NoStrike
  <1>2. \A b \in Builders : build[b].step = "idle"
    BY DEF Init, Idle
  <1>3. Probing = {}
    BY <1>2 DEF Probing, Asking
  <1>4. backoff.fails + Cardinality(Counting) <= Strikes - 1 + Cardinality(Builders)
    BY <1>1, CountType, ProbesAssumption
  <1> QED
    BY <1>1, <1>2, <1>3, <1>4, ProbesAssumption DEF StrikeInv, Never

LEMMA GoingOnKeeps == ASSUME Inv, Inv', StrikeInv, GoesOn PROVE StrikeInv'
  <1>1. Probing' \subseteq Probing /\ \A b \in Probing' : build'[b].began = build[b].began
    BY DEF GoesOn, Probing, Asking
  <1>2. Counting' \subseteq Counting
    BY <1>1 DEF Counting, GoesOn
  <1>3. Cardinality(Counting') <= Cardinality(Counting) /\ Cardinality(Counting') \in Nat
    <2>1. IsFiniteSet(Counting)
      BY CountType
    <2> QED
      BY <1>2, <2>1, FS_Subset, FS_CardinalityType
  <1>4. backoff'.fails + Cardinality(Counting)' <= Strikes - 1 + Cardinality(Builders)
    BY <1>3, CountType, ProbesAssumption DEF GoesOn, StrikeInv, Inv, TypeOK
  <1>5. \A b \in Probing' : backoff'.armedAt # Never =>
            build'[b].began <= backoff'.armedAt + Patience \/ Elapsed(backoff', build'[b].began)
    BY <1>1 DEF StrikeInv, GoesOn
  <1> QED
    BY <1>4, <1>5 DEF StrikeInv, GoesOn

\* A build that begins to probe starts the count over with its strike, or the series is not armed.
LEMMA BeginningKeeps == ASSUME Inv, Inv', StrikeInv, NEW b \in Builders, Begins(b) PROVE StrikeInv'
  <1>0. /\ backoff.fails \in Nat /\ backoff.armedAt \in Nat \cup {Never} /\ now \in Nat
        /\ Strikes \in Nat /\ Strikes > 0 /\ Cooldown \in Nat /\ Patience \in Nat
    BY ProbesAssumption, CurveAssumption DEF Inv, TypeOK
  <1>1. CASE build'[b].step \in Asking
    <2>1. build'[b].began = now /\ ~suppressed(backoff, now)
      BY <1>1 DEF Begins, Asking
    <2>2. \A o \in Probing' : o = b \/ (o \in Probing /\ build'[o] = build[o])
      BY DEF Begins, Probing
    <2>3. backoff.armedAt # Never => Elapsed(backoff, now)
      BY <2>1 DEF suppressed, StrikeInv
    <2>4. backoff'.fails + Cardinality(Counting)' <= Strikes - 1 + Cardinality(Builders)
      <3>1. CASE backoff.armedAt = Never
        <4>1. backoff.fails <= Strikes - 1
          BY <1>0, <3>1 DEF StrikeInv
        <4>2. Cardinality(Counting') \in Nat /\ Cardinality(Counting') <= Cardinality(Builders)
          <5>1. Counting' \in SUBSET Builders
            BY DEF Counting, Probing
          <5> QED
            BY <5>1, CountType
        <4> QED
          BY <1>0, <4>1, <4>2, CountType DEF Begins
      <3>2. CASE backoff.armedAt # Never
        <4>1. Counting' \subseteq Counting
          BY <2>1, <2>2, <2>3, <3>2 DEF Counting, Begins
        <4>2. Cardinality(Counting') <= Cardinality(Counting) /\ Cardinality(Counting') \in Nat
          <5>1. IsFiniteSet(Counting)
            BY CountType
          <5> QED
            BY <4>1, <5>1, FS_Subset, FS_CardinalityType
        <4> QED
          BY <1>0, <4>2, CountType DEF StrikeInv, Begins
      <3> QED
        BY <3>1, <3>2
    <2>5. \A o \in Probing' : backoff'.armedAt # Never =>
              build'[o].began <= backoff'.armedAt + Patience \/ Elapsed(backoff', build'[o].began)
      BY <2>1, <2>2, <2>3 DEF StrikeInv, Begins
    <2>6. \A o \in Builders : build'[o].step # "idle" => build'[o].began <= now' /\ now' - build'[o].began <= Patience
      BY <1>0, <2>1 DEF StrikeInv, Begins
    <2> QED
      BY <2>4, <2>5, <2>6 DEF StrikeInv, Begins
  <1>2. CASE build'[b].step \notin Asking
    <2>1. Probing' \subseteq Probing /\ \A o \in Probing' : build'[o] = build[o]
      BY <1>2 DEF Begins, Probing
    <2>2. Counting' \subseteq Counting
      BY <2>1 DEF Counting, Begins
    <2>3. Cardinality(Counting') <= Cardinality(Counting) /\ Cardinality(Counting') \in Nat
      <3>1. IsFiniteSet(Counting)
        BY CountType
      <3> QED
        BY <2>2, <3>1, FS_Subset, FS_CardinalityType
    <2>4. backoff'.fails + Cardinality(Counting)' <= Strikes - 1 + Cardinality(Builders)
      BY <1>0, <2>3, CountType DEF StrikeInv, Begins
    <2>5. \A o \in Builders : build'[o].step # "idle" => build'[o].began <= now' /\ now' - build'[o].began <= Patience
      BY <1>0 DEF StrikeInv, Begins
    <2>6. \A o \in Probing' : backoff'.armedAt # Never =>
              build'[o].began <= backoff'.armedAt + Patience \/ Elapsed(backoff', build'[o].began)
      BY <2>1 DEF StrikeInv, Begins
    <2> QED
      BY <2>4, <2>5, <2>6 DEF StrikeInv, Begins
  <1> QED
    BY <1>1, <1>2

LEMMA AnswerKeeps == ASSUME Inv, Inv', StrikeInv, NEW b \in Builders, Answered(b) PROVE StrikeInv'
  <1> DEFINE at == build[b].began
             e == backoff
  <1>0. /\ e.fails \in Nat /\ e.armedAt \in Nat \cup {Never} /\ now \in Nat /\ at \in Nat
        /\ Strikes \in Nat /\ Strikes > 0 /\ Cooldown \in Nat /\ Patience \in Nat /\ 2 * Patience < Cooldown
        /\ \A o \in Builders : build[o].began \in Nat
    BY ProbesAssumption, CurveAssumption, PatienceAssumption DEF Inv, TypeOK, Works
  <1>1. b \in Probing /\ Probing' = Probing \ {b} /\ \A o \in Probing' : build'[o] = build[o]
    BY DEF Answered, Probing, Asking
  <1>2. at <= now /\ now - at <= Patience
    BY <1>1 DEF StrikeInv, Probing, Asking
  <1>3. \A o \in Builders : build'[o].step # "idle" => build'[o].began <= now' /\ now' - build'[o].began <= Patience
    BY <1>2 DEF StrikeInv, Answered
  <1>4. \A o \in Probing : build[o].began <= now
    BY DEF StrikeInv, Probing, Asking
  <1>5. CASE backoff' = backoff
    <2>1. GoesOn
      BY <1>1, <1>5 DEF Answered, GoesOn, Asking, Probing
    <2> QED
      BY <2>1, GoingOnKeeps
  <1>6. CASE backoff' = NoStrike
    <2>1. Counting' \in SUBSET Builders
      BY DEF Counting, Probing
    <2>2. backoff'.fails = 0 /\ backoff'.armedAt = Never
      BY <1>6 DEF NoStrike
    <2>3. backoff'.fails + Cardinality(Counting)' <= Strikes - 1 + Cardinality(Builders)
      <3>1. Cardinality(Counting') \in Nat /\ Cardinality(Counting') <= Cardinality(Builders)
        BY <2>1, CountType
      <3> QED
        BY <1>0, <2>2, <3>1, CountType
    <2> QED
      BY <1>0, <1>3, <2>2, <2>3 DEF StrikeInv, Answered, Never
  <1>7. CASE backoff' = fail(backoff, at)
    <2> DEFINE n == (IF Elapsed(e, at) THEN 0 ELSE e.fails) + 1
               armed == IF Elapsed(e, at) THEN Never ELSE e.armedAt
    <2>1. backoff'.fails = n /\ backoff'.armedAt = IF n >= Strikes THEN at ELSE armed
      BY <1>7 DEF fail
    <2>2. n \in Nat /\ armed \in Nat \cup {Never}
      BY <1>0 DEF Never
    <2>3. backoff'.armedAt # Never <=> backoff'.fails >= Strikes
      <3>1. CASE n >= Strikes
        BY <1>0, <2>1, <3>1 DEF Never
      <3>2. CASE ~ (n >= Strikes)
        <4>1. armed = Never
          BY <1>0, <2>2, <3>2 DEF StrikeInv, Never
        <4> QED
          BY <2>1, <3>2, <4>1
      <3> QED
        BY <3>1, <3>2
    <2>4. n >= Strikes => \A o \in Probing' : build'[o].began <= at + Patience
      BY <1>0, <1>1, <1>2, <1>4 DEF Probing
    <2>5. n + Cardinality(Counting') <= Strikes - 1 + Cardinality(Builders)
      <3>1. Cardinality(Probing \ {b}) = Cardinality(Probing) - 1 /\ Cardinality(Probing) \in Nat
            /\ Cardinality(Probing) <= Cardinality(Builders) /\ Cardinality(Builders) \in Nat
        <4>1. Probing \in SUBSET Builders
          BY DEF Probing
        <4> QED
          BY <1>1, <4>1, CountType, FS_RemoveElement
      <3>2. Cardinality(Counting') <= Cardinality(Probing \ {b}) /\ Cardinality(Counting') \in Nat
        <4>1. Counting' \subseteq Probing \ {b} /\ IsFiniteSet(Probing \ {b})
          <5>1. Counting' \subseteq Probing'
            BY DEF Counting
          <5> QED
            BY <1>1, <5>1, CountType, FS_RemoveElement
        <4> QED
          BY <4>1, FS_Subset, FS_CardinalityType
      <3>3. CASE Elapsed(e, at) \/ e.fails < Strikes
        <4>1. n <= Strikes
          BY <1>0, <3>3
        <4> HIDE DEF n
        <4> QED
          BY <1>0, <2>2, <3>1, <3>2, <4>1
      <3>4. CASE ~Elapsed(e, at) /\ e.fails >= Strikes
        <4>1. e.armedAt \in Nat /\ at <= e.armedAt + Patience
          BY <1>0, <1>1, <3>4 DEF StrikeInv
        <4>2. \A o \in Probing : ~Elapsed(e, build[o].began)
          <5> SUFFICES ASSUME NEW o \in Probing PROVE ~Elapsed(e, build[o].began)
            OBVIOUS
          <5>1. build[o].began \in Nat /\ build[o].began <= now
            BY <1>0, <1>4 DEF Probing
          <5>2. build[o].began - e.armedAt < Cooldown
            BY <1>0, <1>2, <4>1, <5>1
          <5> QED
            BY <1>0, <4>1, <5>1, <5>2 DEF Elapsed
        <4>3. Counting = Probing
          BY <4>2 DEF Counting
        <4>4. e.fails + Cardinality(Probing) <= Strikes - 1 + Cardinality(Builders)
          BY <4>3 DEF StrikeInv
        <4>5. n = e.fails + 1
          BY <3>4
        <4> HIDE DEF n
        <4> QED
          BY <1>0, <3>1, <3>2, <4>4, <4>5
      <3> QED
        BY <1>0, <3>3, <3>4
    <2>6. backoff'.armedAt <= now'
      <3>1. e.armedAt <= now
        BY DEF StrikeInv
      <3> QED
        BY <1>0, <1>2, <2>1, <3>1 DEF Answered, Never
    <2>7. \A o \in Probing' : backoff'.armedAt # Never =>
              build'[o].began <= backoff'.armedAt + Patience \/ Elapsed(backoff', build'[o].began)
      BY <2>1, <2>3, <2>4
    <2> QED
      BY <1>3, <2>1, <2>3, <2>5, <2>6, <2>7 DEF StrikeInv
  <1> QED
    BY <1>5, <1>6, <1>7 DEF Answered

LEMMA TickKeepsStrikes == ASSUME Inv, Inv', StrikeInv, Tick PROVE StrikeInv'
  <1>1. UNCHANGED <<backoff, build>> /\ now' = now + 1 /\ now \in Nat /\ Patience \in Nat
    BY CurveAssumption DEF Tick, Inv, TypeOK
  <1>2. \A b \in Builders : build[b].began \in Nat
    BY DEF Inv, TypeOK, Works
  <1>3. \A b \in Builders : build'[b].step # "idle" => build'[b].began <= now' /\ now' - build'[b].began <= Patience
    BY <1>1, <1>2 DEF Tick, StrikeInv
  <1>4. Counting' = Counting /\ Probing' = Probing
    BY <1>1 DEF Counting, Probing
  <1>5. backoff'.armedAt <= now'
    BY <1>1 DEF StrikeInv, Inv, TypeOK, Never
  <1> QED
    BY <1>1, <1>3, <1>4, <1>5 DEF StrikeInv

\* A series that no provider can move on is parked after DEFAULT_SERIES_BACKOFF_ATTEMPTS
\* strikes: only builds already under way may add one each (cache.ts, live-graph.ts
\* cacheSeriesBackoff).
THEOREM DeadSeriesParked == Spec => []StrikesBounded
  <1>1. Inv /\ StrikeInv /\ [Next]_vars => (Inv /\ StrikeInv)'
    BY InvKept, StepShape, GoingOnKeeps, BeginningKeeps, AnswerKeeps, TickKeepsStrikes
  <1>2. Inv /\ StrikeInv => StrikesBounded
    BY CountType, ProbesAssumption DEF StrikeInv, StrikesBounded, Inv, TypeOK
  <1> QED
    BY <1>1, <1>2, InvAtFirst, StrikesAtFirst, PTL DEF Spec

----------------------------------------------------------------------------
(* Finite sets of numbers, and division. *)

\* A family of subsets of a finite set has a least member: what induction comes to here.
LEMMA LeastOf ==
    ASSUME NEW S, IsFiniteSet(S), NEW B \in SUBSET SUBSET S, B # {}
    PROVE  \E T \in B : \A U \in B : U \subseteq T => U = T
  <1> DEFINE R == StrictSubsetOrdering(S)
  <1>1. IsWellFoundedOn(R, FiniteSubsetsOf(S))
    BY FS_StrictSubsetOrderingWellFounded
  <1>2. B \subseteq FiniteSubsetsOf(S)
    BY FS_Subset DEF FiniteSubsetsOf
  <1>3. PICK T \in B : \A U \in B : <<U, T>> \notin R
    <2> HIDE DEF R
    <2> QED
      BY <1>1, <1>2, WFMin
  <1>4. ASSUME NEW U \in B, U \subseteq T, U # T PROVE FALSE
    BY <1>3, <1>4 DEF StrictSubsetOrdering
  <1> QED
    BY <1>3, <1>4

\* A finite set of numbers has a smallest.
LEMMA SmallestOf ==
    ASSUME NEW S, IsFiniteSet(S), S # {}, \A s \in S : s \in Int
    PROVE  Min(S) \in S /\ \A y \in S : Min(S) <= y
  <1> DEFINE Below(x) == {y \in S : y <= x}
             B == {Below(x) : x \in S}
  <1>1. B \in SUBSET SUBSET S /\ B # {}
    OBVIOUS
  <1>2. \E T \in B : \A U \in B : U \subseteq T => U = T
    <2> HIDE DEF B
    <2> QED
      BY <1>1, LeastOf
  <1>3. PICK x \in S : \A y \in S : Below(y) \subseteq Below(x) => Below(y) = Below(x)
    <2>1. PICK T \in B : \A U \in B : U \subseteq T => U = T
      BY <1>2
    <2>2. PICK x \in S : T = Below(x)
      OBVIOUS
    <2>3. \A y \in S : Below(y) \in B
      OBVIOUS
    <2> HIDE DEF B, Below
    <2> QED
      BY <2>1, <2>2, <2>3
  <1>4. ASSUME NEW y \in S, y <= x PROVE x <= y
    <2>1. \A z \in S : z <= y => z <= x
      BY <1>4
    <2>2. Below(y) \subseteq Below(x)
      BY <2>1
    <2>3. x \in Below(x)
      OBVIOUS
    <2>4. x \in Below(y)
      <3> HIDE DEF Below
      <3> QED
        BY <1>3, <2>2, <2>3
    <2> QED
      BY <2>4
  <1>5. \A y \in S : x <= y
    BY <1>4
  <1> QED
    BY <1>5 DEF Min

\* And a largest.
LEMMA LargestOf ==
    ASSUME NEW S, IsFiniteSet(S), S # {}, \A s \in S : s \in Int
    PROVE  Max(S) \in S /\ \A y \in S : y <= Max(S)
  <1> DEFINE Above(x) == {y \in S : x <= y}
             B == {Above(x) : x \in S}
  <1>1. B \in SUBSET SUBSET S /\ B # {}
    OBVIOUS
  <1>2. \E T \in B : \A U \in B : U \subseteq T => U = T
    <2> HIDE DEF B
    <2> QED
      BY <1>1, LeastOf
  <1>3. PICK x \in S : \A y \in S : Above(y) \subseteq Above(x) => Above(y) = Above(x)
    <2>1. PICK T \in B : \A U \in B : U \subseteq T => U = T
      BY <1>2
    <2>2. PICK x \in S : T = Above(x)
      OBVIOUS
    <2>3. \A y \in S : Above(y) \in B
      OBVIOUS
    <2> HIDE DEF B, Above
    <2> QED
      BY <2>1, <2>2, <2>3
  <1>4. ASSUME NEW y \in S, x <= y PROVE y <= x
    <2>1. \A z \in S : y <= z => x <= z
      BY <1>4
    <2>2. Above(y) \subseteq Above(x)
      BY <2>1
    <2>3. x \in Above(x)
      OBVIOUS
    <2>4. x \in Above(y)
      <3> HIDE DEF Above
      <3> QED
        BY <1>3, <2>2, <2>3
    <2> QED
      BY <2>4
  <1>5. \A y \in S : y <= x
    BY <1>4
  <1>6. \A y \in S : x >= y
    BY <1>5
  <1> QED
    BY <1>5, <1>6 DEF Max

LEMMA Quotient ==
    ASSUME NEW a \in Nat, NEW d \in Nat \ {0}
    PROVE  /\ a \div d \in Nat
           /\ d * (a \div d) <= a /\ a <= d * (a \div d) + (d - 1)
  OBVIOUS

LEMMA Cancels ==
    ASSUME NEW d \in Nat \ {0}, NEW a \in Int, NEW b \in Int, d * a <= d * b
    PROVE  a <= b
  OBVIOUS

----------------------------------------------------------------------------
(* The exchange's calendar: no six days in a row without a session. *)

\* Day 0 of March in the year y.
Base(y) == 365 * y + y \div 4 - y \div 100 + y \div 400 - 719469

LEMMA BaseType == ASSUME NEW y \in Nat PROVE Base(y) \in Int
  BY SMT DEF Base

\* A year is 365 or 366 days long.
LEMMA YearLong ==
    ASSUME NEW y \in Nat
    PROVE  Base(y + 1) = Base(y) + 365 \/ Base(y + 1) = Base(y) + 366
  BY SMT DEF Base

LEMMA Later ==
    ASSUME NEW y \in Nat, NEW p \in Nat, y <= p
    PROVE  Base(y) <= Base(p)
  BY SMT DEF Base

\* The dates the holidays are computed from, counted from the year's March.
LEMMA Dates ==
    ASSUME NEW y \in Nat \ {0}
    PROVE  /\ dayNumber(y, 1, 1) = Base(y - 1) + 307 /\ dayNumber(y, 12, 31) = Base(y) + 306
           /\ \A d \in Int : /\ dayNumber(y, 1, d) = Base(y - 1) + 306 + d
                             /\ dayNumber(y, 2, d) = Base(y - 1) + 337 + d
                             /\ dayNumber(y, 3, d) = Base(y) + d
                             /\ dayNumber(y, 4, d) = Base(y) + 31 + d
                             /\ dayNumber(y, 5, d) = Base(y) + 61 + d
                             /\ dayNumber(y, 6, d) = Base(y) + 92 + d
                             /\ dayNumber(y, 7, d) = Base(y) + 122 + d
                             /\ dayNumber(y, 9, d) = Base(y) + 184 + d
                             /\ dayNumber(y, 11, d) = Base(y) + 245 + d
                             /\ dayNumber(y, 12, d) = Base(y) + 275 + d
  BY SMT DEF dayNumber, MarchYear, Base

LEMMA OnWeekday ==
    ASSUME NEW f \in Int, NEW w \in 0 .. 6
    PROVE  /\ weekdayOf(f + ((w - weekdayOf(f) + 7) % 7)) = w
           /\ weekdayOf(f - ((weekdayOf(f) - w + 7) % 7)) = w
           /\ weekdayOf(f) \in 0 .. 6
           /\ weekdayOf(f + 7) = weekdayOf(f)
  BY SMT DEF weekdayOf

LEMMA EasterInSpring ==
    ASSUME NEW y \in Nat \ {0}
    PROVE  easterSunday(y) \in Base(y) + 1 .. Base(y) + 62
  <1> DEFINE a == y % 19
             e == y \div 100
             k == y % 100
             h == (19 * a + e - e \div 4 - (e - (e + 8) \div 25 + 1) \div 3 + 15) % 30
             l == (32 + 2 * (e % 4) + 2 * (k \div 4) - h - (k % 4)) % 7
             n == h + l - 7 * ((a + 11 * h + 22 * l) \div 451) + 114
  <1>1. a \in 0 .. 18 /\ e \in Nat /\ k \in Nat
    OBVIOUS
  <1> HIDE DEF a, e, k
  <1>2. h \in 0 .. 29
    BY SMT, <1>1
  <1> HIDE DEF h
  <1>3. l \in 0 .. 6
    BY SMT, <1>1, <1>2
  <1> HIDE DEF l
  <1>4. n \in 107 .. 149
    BY SMT, <1>1, <1>2, <1>3
  <1>5. easterSunday(y) = dayNumber(y, n \div 31, (n % 31) + 1)
    BY SMT DEF easterSunday, n, l, h, a, e, k
  <1> HIDE DEF n
  <1> DEFINE d == (n % 31) + 1
  <1>6. (n \div 31 = 3 \/ n \div 31 = 4) /\ d \in 1 .. 31 /\ d \in Int
    BY SMT, <1>4
  <1> HIDE DEF d
  <1>7. dayNumber(y, 3, d) = Base(y) + d /\ dayNumber(y, 4, d) = Base(y) + 31 + d
    BY SMT, <1>6, Dates
  <1>8. CASE n \div 31 = 3
    BY SMT, <1>5, <1>6, <1>7, <1>8, BaseType DEF d
  <1>9. CASE n \div 31 = 4
    BY SMT, <1>5, <1>6, <1>7, <1>9, BaseType DEF d
  <1> QED
    BY SMT, <1>6, <1>8, <1>9

\* Up to this day of the year 2790 a day's year is one of the three that yearOf looks at.
LastDay == 366 * 819

LEMMA Reach == LastDay \in Int /\ LastDay <= 366 * 819
  BY SMT DEF LastDay

\* The year of a day is found among the three the code guesses.
LEMMA YearFound ==
    ASSUME NEW day \in 0 .. LastDay
    PROVE  /\ yearOf(day) \in Nat \ {0}
           /\ dayNumber(yearOf(day), 1, 1) <= day /\ day < dayNumber(yearOf(day) + 1, 1, 1)
  <1> DEFINE k == day \div 366
             guess == 1970 + k
             A(y) == dayNumber(y, 1, 1)
  <1>1. k \in Nat /\ k <= 820 /\ 366 * k <= day /\ day <= 366 * k + 365
    <2>1. day \in Int /\ 0 <= day /\ day <= 366 * 819
      <3>1. LastDay \in Int
        BY Reach
      <3>2. day \in Int /\ 0 <= day /\ day <= LastDay
        BY SMT, <3>1
      <3> QED
        BY SMT, <3>2, Reach
    <2>2. k \in Int /\ 366 * k <= day /\ day <= 366 * k + 365
      BY SMT, <2>1
    <2> HIDE DEF k
    <2> QED
      BY SMT, <2>1, <2>2
  <1> HIDE DEF k
  <1>2. ASSUME NEW y \in Nat \ {0} PROVE A(y) = Base(y - 1) + 307
    BY SMT, Dates
  <1>3. A(guess) = Base(1969 + k) + 307 /\ A(guess + 3) = Base(1972 + k) + 307
    <2>1. guess \in Nat \ {0} /\ guess + 3 \in Nat \ {0} /\ guess - 1 = 1969 + k /\ guess + 3 - 1 = 1972 + k
      BY SMT, <1>1
    <2> HIDE DEF A, guess
    <2> QED
      BY SMT, <1>2, <2>1
  <1>4. Base(1969 + k) + 307 <= 366 * k /\ 366 * k + 365 < Base(1972 + k) + 307
    BY SMT, <1>1 DEF Base
  <1>5. A(guess) <= day /\ day < A(guess + 3)
    <2>1. Base(1969 + k) \in Int /\ Base(1972 + k) \in Int
      BY SMT, <1>1, BaseType
    <2> HIDE DEF A, guess
    <2> QED
      BY SMT, <1>1, <1>3, <1>4, <2>1
  <1>6. \E y \in guess .. guess + 2 : A(y) <= day /\ day < A(y + 1)
    <2>1. A(guess + 1) \in Int /\ A(guess + 2) \in Int
      <3>1. guess + 1 \in Nat \ {0} /\ guess + 2 \in Nat \ {0} /\ guess + 1 - 1 \in Nat /\ guess + 2 - 1 \in Nat
        BY SMT, <1>1
      <3> HIDE DEF A, guess
      <3> QED
        BY SMT, <1>2, <3>1, BaseType
    <2>2. guess \in Int /\ guess + 1 + 1 = guess + 2 /\ guess + 2 + 1 = guess + 3
      BY SMT, <1>1
    <2>3. guess \in guess .. guess + 2 /\ guess + 1 \in guess .. guess + 2 /\ guess + 2 \in guess .. guess + 2
      BY SMT, <2>2
    <2> HIDE DEF A, guess
    <2>4. CASE day < A(guess + 1)
      BY SMT, <1>5, <2>3, <2>4
    <2>5. CASE A(guess + 1) <= day /\ day < A(guess + 2)
      BY SMT, <2>2, <2>3, <2>5
    <2>6. CASE A(guess + 2) <= day
      BY SMT, <1>5, <2>2, <2>3, <2>6
    <2> QED
      BY SMT, <2>1, <2>4, <2>5, <2>6
  <1>7. /\ yearOf(day) \in guess .. guess + 2
        /\ A(yearOf(day)) <= day /\ day < A(yearOf(day) + 1)
    <2>1. yearOf(day) = CHOOSE y \in guess .. guess + 2 : A(y) <= day /\ day < A(y + 1)
      BY SMT DEF yearOf, k
    <2> HIDE DEF A, guess
    <2> QED
      BY SMT, <1>6, <2>1
  <1>8. yearOf(day) \in Nat \ {0}
    <2>1. guess \in Nat /\ guess > 0
      BY SMT, <1>1
    <2> HIDE DEF guess
    <2> QED
      BY SMT, <1>7, <2>1
  <1> QED
    BY SMT, <1>7, <1>8

\* From Tuesday to Thursday the exchange is closed for a date, the Friday before Easter or Thanksgiving.
LEMMA MidweekClosings ==
    ASSUME NEW y \in Nat \ {0}, NEW day \in holidaysForYear(y), weekdayOf(day) \in {2, 3, 4}
    PROVE  \/ day \in {Base(y - 1) + 307, Base(y) + 111, Base(y) + 126, Base(y) + 300, easterSunday(y) - 2}
           \/ weekdayOf(day) = 4 /\ day \in Base(y) + 267 .. Base(y) + 273
  <1>1. ASSUME NEW f \in Int, NEW w \in {1, 4}, NEW n \in 1 .. 4
        PROVE  weekdayOf(f + ((w - weekdayOf(f) + 7) % 7) + (n - 1) * 7) = w
    BY SMT DEF weekdayOf
  <1>2. /\ weekdayOf(nthWeekday(y, 1, 1, 3)) = 1 /\ weekdayOf(nthWeekday(y, 2, 1, 3)) = 1
        /\ weekdayOf(nthWeekday(y, 9, 1, 1)) = 1 /\ weekdayOf(nthWeekday(y, 11, 4, 4)) = 4
        /\ nthWeekday(y, 11, 4, 4) \in Base(y) + 267 .. Base(y) + 273
    <2>1. y - 1 \in Nat /\ Base(y - 1) \in Int /\ Base(y) \in Int
      BY SMT, BaseType
    <2>2. /\ dayNumber(y, 1, 1) = Base(y - 1) + 306 + 1 /\ dayNumber(y, 2, 1) = Base(y - 1) + 337 + 1
          /\ dayNumber(y, 9, 1) = Base(y) + 184 + 1 /\ dayNumber(y, 11, 1) = Base(y) + 245 + 1
      BY SMT, Dates
    <2>3. /\ dayNumber(y, 1, 1) \in Int /\ dayNumber(y, 2, 1) \in Int
          /\ dayNumber(y, 9, 1) \in Int /\ dayNumber(y, 11, 1) \in Int
      BY SMT, <2>1, <2>2
    <2>4. nthWeekday(y, 11, 4, 4) \in Base(y) + 267 .. Base(y) + 273
      <3> DEFINE f == dayNumber(y, 11, 1)
      <3>1. f = Base(y) + 246 /\ f \in Int
        BY SMT, <2>1, <2>2, <2>3
      <3>2. nthWeekday(y, 11, 4, 4) = f + ((4 - weekdayOf(f) + 7) % 7) + (4 - 1) * 7
        BY DEF nthWeekday
      <3> HIDE DEF f
      <3>3. (4 - weekdayOf(f) + 7) % 7 \in 0 .. 6
        BY SMT, <3>1 DEF weekdayOf
      <3> QED
        BY SMT, <2>1, <3>1, <3>2, <3>3
    <2> QED
      BY SMT, <1>1, <2>3, <2>4 DEF nthWeekday
  <1>3. weekdayOf(lastWeekday(y, 5, 1)) = 1
    <2>1. dayNumber(y, 6, 1) - 1 \in Int
      BY SMTT(20), Dates, BaseType
    <2> QED
      BY SMT, <2>1, OnWeekday DEF lastWeekday
  <1>4. ASSUME NEW m \in {1, 6, 7, 12}, NEW d \in {1, 4, 19, 25}, dayNumber(y, m, d) \in Int,
               weekdayOf(observed(y, m, d)) \in {2, 3, 4}
        PROVE  observed(y, m, d) = dayNumber(y, m, d) \/ (m = 1 /\ d = 1)
    <2> DEFINE f == dayNumber(y, m, d)
    <2>1. weekdayOf(f) = 6 => weekdayOf(f - 1) = 5
      BY SMT, <1>4 DEF weekdayOf
    <2>2. weekdayOf(f) = 0 => weekdayOf(f + 1) = 1
      BY SMT, <1>4 DEF weekdayOf
    <2>3. \/ observed(y, m, d) = f \/ (m = 1 /\ d = 1)
          \/ weekdayOf(f) = 6 /\ observed(y, m, d) = f - 1
          \/ weekdayOf(f) = 0 /\ observed(y, m, d) = f + 1
      BY SMT DEF observed
    <2> HIDE DEF f
    <2> QED
      BY SMT, <1>4, <2>1, <2>2, <2>3 DEF f
  <1>5. weekdayOf(observed(y, 1, 1)) \in {2, 3, 4} => observed(y, 1, 1) = dayNumber(y, 1, 1)
    <2> DEFINE f == dayNumber(y, 1, 1)
    <2>1. f = Base(y - 1) + 307 /\ dayNumber(y, 12, 31) = Base(y) + 306 /\ f \in Int
      BY SMT, Dates, BaseType
    <2>2. weekdayOf(f) = 6 => weekdayOf(dayNumber(y, 12, 31)) \in {6, 0}
      <3> DEFINE p == y - 1
      <3>1. p \in Nat /\ p + 1 = y
        OBVIOUS
      <3> HIDE DEF p
      <3>2. Base(y) = Base(p) + 365 \/ Base(y) = Base(p) + 366
        BY SMT, <3>1, YearLong
      <3>3. Base(p) \in Int
        BY SMT, <3>1, BaseType
      <3> QED
        BY SMT, <2>1, <3>2, <3>3 DEF weekdayOf, p
    <2>3. weekdayOf(f) = 0 => weekdayOf(f + 1) = 1
      BY SMT, <2>1 DEF weekdayOf
    <2>4. \/ observed(y, 1, 1) = f
          \/ weekdayOf(f) = 6 /\ observed(y, 1, 1) = dayNumber(y, 12, 31)
          \/ weekdayOf(f) = 0 /\ observed(y, 1, 1) = f + 1
      BY SMT DEF observed
    <2> HIDE DEF f
    <2> QED
      BY SMT, <2>2, <2>3, <2>4 DEF f
  <1>6. /\ dayNumber(y, 1, 1) = Base(y - 1) + 307 /\ dayNumber(y, 6, 19) = Base(y) + 111
        /\ dayNumber(y, 7, 4) = Base(y) + 126 /\ dayNumber(y, 12, 25) = Base(y) + 300
        /\ Base(y) \in Int
    <2>1. y - 1 \in Nat /\ Base(y - 1) \in Int /\ Base(y) \in Int
      BY SMT, BaseType
    <2>2. /\ dayNumber(y, 1, 1) = Base(y - 1) + 307 /\ dayNumber(y, 6, 19) = Base(y) + 92 + 19
          /\ dayNumber(y, 7, 4) = Base(y) + 122 + 4 /\ dayNumber(y, 12, 25) = Base(y) + 275 + 25
      BY SMT, Dates
    <2> QED
      BY SMT, <2>1, <2>2
  <1>7. /\ weekdayOf(observed(y, 6, 19)) \in {2, 3, 4} => observed(y, 6, 19) = dayNumber(y, 6, 19)
        /\ weekdayOf(observed(y, 7, 4)) \in {2, 3, 4} => observed(y, 7, 4) = dayNumber(y, 7, 4)
        /\ weekdayOf(observed(y, 12, 25)) \in {2, 3, 4} => observed(y, 12, 25) = dayNumber(y, 12, 25)
    BY SMT, <1>4, <1>6
  <1>8. \/ day \in {observed(y, 1, 1), observed(y, 6, 19), observed(y, 7, 4), observed(y, 12, 25),
                     easterSunday(y) - 2}
        \/ day \in {nthWeekday(y, 1, 1, 3), nthWeekday(y, 2, 1, 3), lastWeekday(y, 5, 1),
                    nthWeekday(y, 9, 1, 1), nthWeekday(y, 11, 4, 4)}
    BY SMT DEF holidaysForYear
  <1> QED
    BY SMT, <1>2, <1>3, <1>5, <1>6, <1>7, <1>8

\* Two days of the middle of a week, or of the end of one and the start of the next, are not both closed.
LEMMA NotBothClosed ==
    ASSUME NEW t \in 0 .. LastDay, NEW w \in 0 .. LastDay, NEW gap \in {1, 5}, w = t + gap,
           weekdayOf(t) \in {2, 3, 4}, weekdayOf(w) \in {2, 3, 4},
           weekdayOf(t) = 4 => gap = 5, weekdayOf(w) = 4 => gap = 1
    PROVE  isTradingDay(t) \/ isTradingDay(w)
  <1>3. SUFFICES ASSUME ~isTradingDay(t), ~isTradingDay(w) PROVE FALSE
    OBVIOUS
  <1> DEFINE y == yearOf(t)
             z == yearOf(w)
  <1>4. /\ y \in Nat \ {0} /\ dayNumber(y, 1, 1) <= t /\ t < dayNumber(y + 1, 1, 1)
        /\ z \in Nat \ {0} /\ dayNumber(z, 1, 1) <= w /\ w < dayNumber(z + 1, 1, 1)
    BY YearFound
  <1>1. t \in Int /\ w \in Int
    BY SMT, Reach
  <1>2. weekdayOf(t) \notin Weekend /\ weekdayOf(w) \notin Weekend
    BY SMT DEF Weekend
  <1>5. t \in holidaysForYear(y) /\ w \in holidaysForYear(z)
    BY <1>2, <1>3 DEF isTradingDay
  <1> HIDE DEF y, z
  <1>6. /\ \/ t \in {Base(y - 1) + 307, Base(y) + 111, Base(y) + 126, Base(y) + 300, easterSunday(y) - 2}
           \/ weekdayOf(t) = 4 /\ t \in Base(y) + 267 .. Base(y) + 273
        /\ \/ w \in {Base(z - 1) + 307, Base(z) + 111, Base(z) + 126, Base(z) + 300, easterSunday(z) - 2}
           \/ weekdayOf(w) = 4 /\ w \in Base(z) + 267 .. Base(z) + 273
    BY SMT, <1>4, <1>5, MidweekClosings
  <1> DEFINE o == y - 1
             p == z - 1
             Y == Base(o)
             Z == Base(p)
  <1>7. /\ o \in Nat /\ p \in Nat /\ y = o + 1 /\ z = p + 1 /\ Y \in Int /\ Z \in Int
    BY SMT, <1>4, BaseType
  <1> HIDE DEF o, p
  <1>8. /\ Base(y) \in Y + 365 .. Y + 366 /\ Base(z) \in Z + 365 .. Z + 366
    <2>1. Base(y) = Y + 365 \/ Base(y) = Y + 366
      BY SMT, <1>7, YearLong
    <2>2. Base(z) = Z + 365 \/ Base(z) = Z + 366
      BY SMT, <1>7, YearLong
    <2> HIDE DEF Y, Z
    <2> QED
      BY SMT, <1>7, <2>1, <2>2
  <1>9. /\ easterSunday(y) \in Base(y) + 1 .. Base(y) + 62 /\ easterSunday(z) \in Base(z) + 1 .. Base(z) + 62
    BY <1>4, EasterInSpring
  <1>10. /\ dayNumber(y, 1, 1) = Y + 307 /\ dayNumber(z, 1, 1) = Z + 307
         /\ dayNumber(y + 1, 1, 1) = Base(y) + 307 /\ dayNumber(z + 1, 1, 1) = Base(z) + 307
    <2>1. y + 1 \in Nat \ {0} /\ y + 1 - 1 = y /\ z + 1 \in Nat \ {0} /\ z + 1 - 1 = z
      BY SMT, <1>4
    <2>2. \A x \in Nat \ {0} : dayNumber(x, 1, 1) = Base(x - 1) + 307
      BY Dates
    <2> QED
      BY SMT, <1>4, <2>1, <2>2 DEF o, p
  <1> DEFINE E == easterSunday(y)
             F == easterSunday(z)
             U == Base(y)
             V == Base(z)
  <1>12. /\ E \in Int /\ F \in Int /\ U \in Int /\ V \in Int
         /\ U + 1 <= E /\ E <= U + 62 /\ V + 1 <= F /\ F <= V + 62
         /\ (U = Y + 365 \/ U = Y + 366) /\ (V = Z + 365 \/ V = Z + 366)
    <2> HIDE DEF Y, Z
    <2> QED
      BY SMT, <1>7, <1>8, <1>9
  <1>13. /\ \/ t = Y + 307 \/ t = U + 111 \/ t = U + 126 \/ t = U + 300 \/ t = E - 2
            \/ gap = 5 /\ U + 267 <= t /\ t <= U + 273
         /\ \/ w = Z + 307 \/ w = V + 111 \/ w = V + 126 \/ w = V + 300 \/ w = F - 2
            \/ gap = 1 /\ V + 267 <= w /\ w <= V + 273
    <2>1. y - 1 = o /\ z - 1 = p
      BY DEF o, p
    <2> HIDE DEF Y, Z, U, V, E, F
    <2> QED
      BY SMT, <1>1, <1>6, <1>12, <2>1 DEF Y, Z, U, V, E, F
  <1>14. /\ Y + 307 <= t /\ t < U + 307 /\ Z + 307 <= w /\ w < V + 307
    <2> HIDE DEF Y, Z, U, V
    <2> QED
      BY SMT, <1>4, <1>10 DEF U, V
  <1>15. y < z => U <= Z
    <2>1. ASSUME y < z PROVE U <= Z
      <3>1. y <= p
        BY SMT, <1>4, <1>7, <2>1
      <3> QED
        BY <1>4, <1>7, <3>1, Later
    <2> QED
      BY <2>1
  <1>16. z < y => V <= Y
    <2>1. ASSUME z < y PROVE V <= Y
      <3>1. z <= o
        BY SMT, <1>4, <1>7, <2>1
      <3> QED
        BY <1>4, <1>7, <3>1, Later
    <2> QED
      BY <2>1
  <1>17. y = z => Y = Z /\ U = V /\ E = F
    BY DEF o, p
  <1>18. y < z \/ z < y \/ y = z
    BY SMT, <1>4
  <1> HIDE DEF Y, Z, U, V, E, F
  <1>19. t <= U + 300 /\ w <= V + 300
    BY SMT, <1>1, <1>7, <1>12, <1>13
  <1>20. y = z
    BY SMT, <1>1, <1>7, <1>12, <1>14, <1>15, <1>16, <1>18, <1>19
  <1>21. Y = Z /\ U = V /\ E = F
    BY <1>17, <1>20
  <1>22. w = t + 1 \/ w = t + 5
    OBVIOUS
  <1>23. Y = U - 365 \/ Y = U - 366
    BY SMT, <1>7, <1>12
  <1>24. /\ \/ t = Y + 307 \/ t = U + 111 \/ t = U + 126 \/ t = U + 300 \/ t = E - 2
            \/ w = t + 5 /\ U + 267 <= t /\ t <= U + 273
         /\ \/ w = Y + 307 \/ w = U + 111 \/ w = U + 126 \/ w = U + 300 \/ w = E - 2
            \/ w = t + 1 /\ U + 267 <= w /\ w <= U + 273
    BY SMT, <1>12, <1>13, <1>21
  <1>25. U + 1 <= E /\ E <= U + 62 /\ U \in Int /\ E \in Int
    BY <1>12
  <1> DEFINE d == t - U
             e == E - U
             j == Y + 307 - U
  <1>26. /\ d \in Int /\ e \in 1 .. 62 /\ (j = -58 \/ j = -59)
         /\ \/ d = j \/ d = 111 \/ d = 126 \/ d = 300 \/ d = e - 2
            \/ w = t + 5 /\ 267 <= d /\ d <= 273
    BY SMT, <1>1, <1>7, <1>23, <1>24, <1>25
  <1>27. CASE w = t + 1
    <2>1. \/ d + 1 = j \/ d + 1 = 111 \/ d + 1 = 126 \/ d + 1 = 300 \/ d + 1 = e - 2
          \/ 267 <= d + 1 /\ d + 1 <= 273
      BY SMT, <1>1, <1>7, <1>23, <1>24, <1>25, <1>27
    <2>2. w # t + 5
      BY SMT, <1>1, <1>27
    <2> HIDE DEF d, e, j
    <2> QED
      BY SMT, <1>26, <2>1, <2>2
  <1>28. CASE w = t + 5
    <2>1. \/ d + 5 = j \/ d + 5 = 111 \/ d + 5 = 126 \/ d + 5 = 300 \/ d + 5 = e - 2
          \/ w = t + 1
      BY SMT, <1>1, <1>7, <1>23, <1>24, <1>25, <1>28
    <2>2. w # t + 1
      BY SMT, <1>1, <1>28
    <2> HIDE DEF d, e, j
    <2> QED
      BY SMT, <1>26, <2>1, <2>2
  <1> QED
    BY <1>22, <1>27, <1>28

\* Six days in a row hold a session of the exchange (market-hours.ts).
THEOREM ExchangeNeverShut ==
    ASSUME NEW day \in 0 .. LastDay - 5
    PROVE  \E d \in day .. day + 5 : isTradingDay(d)
  <1>1. day \in Int /\ 0 <= day /\ day + 5 <= LastDay /\ LastDay \in Int
    <2>1. LastDay \in Int
      BY Reach
    <2> QED
      BY SMT, <2>1
  <1>2. \E t \in day .. day + 5, w \in day .. day + 5, gap \in {1, 5} :
            /\ w = t + gap /\ weekdayOf(t) \in {2, 3, 4} /\ weekdayOf(w) \in {2, 3, 4}
            /\ weekdayOf(t) = 4 => gap = 5
            /\ weekdayOf(w) = 4 => gap = 1
    <2>1. weekdayOf(day) \in 0 .. 6
      BY SMT, <1>1 DEF weekdayOf
    <2>2. CASE weekdayOf(day) = 4
      <3>1. weekdayOf(day + 5) = 2
        BY SMT, <1>1, <2>2 DEF weekdayOf
      <3>2. day \in day .. day + 5 /\ day + 5 \in day .. day + 5
        BY SMT, <1>1
      <3> QED
        BY <2>2, <3>1, <3>2
    <2>3. CASE weekdayOf(day) = 3
      <3>1. weekdayOf(day + 1) = 4
        BY SMT, <1>1, <2>3 DEF weekdayOf
      <3>2. day \in day .. day + 5 /\ day + 1 \in day .. day + 5
        BY SMT, <1>1
      <3> QED
        BY <2>3, <3>1, <3>2
    <2>4. CASE weekdayOf(day) \notin {3, 4}
      <3> DEFINE t == day + ((2 - weekdayOf(day) + 7) % 7)
                 w == t + 1
      <3>1. t \in Int /\ day <= t /\ t <= day + 4 /\ weekdayOf(t) = 2 /\ weekdayOf(w) = 3
        BY SMT, <1>1, <2>1, <2>4 DEF weekdayOf
      <3> HIDE DEF t
      <3>2. t \in day .. day + 5 /\ w \in day .. day + 5
        BY SMT, <1>1, <3>1
      <3> QED
        BY <3>1, <3>2
    <2> QED
      BY <2>2, <2>3, <2>4
  <1>3. PICK t \in day .. day + 5, w \in day .. day + 5, gap \in {1, 5} :
            /\ w = t + gap /\ weekdayOf(t) \in {2, 3, 4} /\ weekdayOf(w) \in {2, 3, 4}
            /\ weekdayOf(t) = 4 => gap = 5
            /\ weekdayOf(w) = 4 => gap = 1
    BY <1>2
  <1>4. t \in 0 .. LastDay /\ w \in 0 .. LastDay
    <2> HIDE DEF LastDay
    <2> QED
      BY SMT, <1>1
  <1>5. isTradingDay(t) \/ isTradingDay(w)
    BY <1>3, <1>4, NotBothClosed
  <1> QED
    BY <1>5

----------------------------------------------------------------------------
(* The calendar's answers at a moment. *)
\* The moments from 1970 to the year 2790, but for the first and the last days.
Moments == [day : 2 * Stretch .. LastDay - Stretch, minutes : 0 .. DayMinutes - 1]

LEMMA ClockOfDay ==
    ASSUME NEW d \in Int
    PROVE  /\ sessionClose(d) = d * 1440 + 960 /\ sessionOpen(d) = d * 1440 + 570
           /\ sessionClose(d) \in Int /\ sessionOpen(d) \in Int
  BY DEF DayMinutes, sessionClose, sessionOpen, Instant, CloseMinutes, OpenMinutes

LEMMA ClockOfMoment ==
    ASSUME NEW m \in Moments
    PROVE  /\ m.day \in Int /\ m.minutes \in Int /\ 0 <= m.minutes /\ m.minutes < 1440
           /\ At(m) = m.day * 1440 + m.minutes /\ At(m) \in Int
  <1>0. LastDay \in Int
    BY Reach
  <1>1. m.day \in Int /\ m.minutes \in Int /\ 0 <= m.minutes /\ m.minutes < 1440
    BY SMTT(20), <1>0 DEF Moments, DayMinutes, Stretch
  <1> DEFINE day == m.day
             minutes == m.minutes
  <1> HIDE DEF day, minutes
  <1>2. DayMinutes = 1440
    BY DEF DayMinutes
  <1>3. day \in Int /\ minutes \in Int /\ 0 <= minutes /\ minutes < 1440
    BY <1>1 DEF day, minutes
  <1>4. At(m) = day * 1440 + minutes
    BY <1>2 DEF At, Instant, day, minutes
  <1>5. day * 1440 + minutes \in Int
    BY <1>3
  <1> QED
    BY <1>3, <1>4, <1>5 DEF day, minutes

\* The session before a day is at most six days back.
LEMMA SessionBefore ==
    ASSUME NEW day \in Stretch .. LastDay
    PROVE  /\ previousTradingSession(day) \in day - 6 .. day - 1
           /\ isTradingDay(previousTradingSession(day))
  <1> DEFINE S == {d \in day - Stretch .. day - 1 : isTradingDay(d)}
  <1>0. day \in Int /\ day - 6 \in 0 .. LastDay - 5 /\ day - 6 \in Int /\ day - 6 + 5 = day - 1
    <2>1. LastDay \in Int /\ Stretch = 10
      BY Reach DEF Stretch
    <2> HIDE DEF LastDay
    <2> QED
      BY SMT, <2>1
  <1>1. PICK near \in day - 6 .. day - 1 : isTradingDay(near)
    <2> DEFINE from == day - 6
    <2>1. from \in 0 .. LastDay - 5 /\ from + 5 = day - 1
      BY <1>0
    <2> HIDE DEF from
    <2>2. \E d \in from .. from + 5 : isTradingDay(d)
      BY <2>1, ExchangeNeverShut
    <2> QED
      BY <2>1, <2>2 DEF from
  <1>1a. near \in S /\ S # {}
    <2>1. near \in day - Stretch .. day - 1
      BY SMT, <1>0, <1>1 DEF Stretch
    <2> QED
      BY <1>1, <2>1
  <1>2. IsFiniteSet(S)
    <2>1. IsFiniteSet(day - Stretch .. day - 1)
      <3> DEFINE a == day - Stretch
                 b == day - 1
      <3>1. a \in Int /\ b \in Int
        BY DEF Stretch
      <3> HIDE DEF a, b
      <3>2. IsFiniteSet(a .. b)
        BY <3>1, FS_Interval
      <3> QED
        BY <3>2 DEF a, b
    <2> QED
      BY <2>1, FS_Subset
  <1>3. \A d \in S : d \in Int
    OBVIOUS
  <1>4. Max(S) \in S /\ near <= Max(S)
    <2> HIDE DEF S
    <2> QED
      BY <1>1a, <1>2, <1>3, LargestOf
  <1>5. Max(S) \in day - 6 .. day - 1
    <2>1. Max(S) \in Int /\ Max(S) <= day - 1 /\ near \in Int /\ day - 6 <= near
      BY <1>0, <1>1, <1>4 DEF Stretch
    <2> HIDE DEF S
    <2> QED
      BY <1>0, <1>4, <2>1
  <1> QED
    BY <1>4, <1>5 DEF previousTradingSession

LEMMA NextCloseAhead ==
    ASSUME NEW m \in Moments
    PROVE  nextSessionClose(m) \in Int /\ At(m) < nextSessionClose(m)
  <1> DEFINE S == {d \in m.day .. m.day + Stretch : isTradingDay(d) /\ sessionClose(d) > At(m)}
  <1>1. m.day \in Int /\ m.minutes \in 0 .. DayMinutes - 1
    BY ClockOfMoment DEF Moments
  <1>2. S # {}
    <2> DEFINE day == m.day + 1
    <2>1. day \in Int /\ day \in 0 .. LastDay - 5
      <3>1. m.day \in 2 * Stretch .. LastDay - Stretch
        BY DEF Moments
      <3>2. LastDay \in Int
        BY Reach
      <3> HIDE DEF LastDay
      <3> QED
        BY SMT, <3>1, <3>2 DEF Stretch
    <2>2. PICK d \in day .. day + 5 : isTradingDay(d)
      <3> HIDE DEF day
      <3> QED
        BY <2>1, ExchangeNeverShut
    <2>3. d \in Int /\ m.day + 1 <= d /\ d <= m.day + Stretch
      BY <1>1, <2>2 DEF Stretch
    <2>4. sessionClose(d) > At(m)
      <3>1. sessionClose(d) = d * 1440 + 960
        BY <2>3, ClockOfDay
      <3>2. At(m) = m.day * 1440 + m.minutes /\ m.minutes < 1440 /\ m.minutes \in Int
        BY ClockOfMoment
      <3> QED
        BY <1>1, <2>3, <3>1, <3>2
    <2>5. d \in m.day .. m.day + Stretch
      BY <1>1, <2>3 DEF Stretch
    <2> QED
      BY <2>2, <2>4, <2>5
  <1>3. IsFiniteSet(S)
    <2>1. IsFiniteSet(m.day .. m.day + Stretch)
      <3> DEFINE a == m.day
                 b == m.day + Stretch
      <3>1. a \in Int /\ b \in Int
        BY <1>1 DEF Stretch
      <3> HIDE DEF a, b
      <3>2. IsFiniteSet(a .. b)
        BY <3>1, FS_Interval
      <3> QED
        BY <3>2 DEF a, b
    <2> QED
      BY <2>1, FS_Subset
  <1>4. \A d \in S : d \in Int
    BY <1>1
  <1>5. Min(S) \in S
    <2> HIDE DEF S
    <2> QED
      BY <1>2, <1>3, <1>4, SmallestOf
  <1>6. sessionClose(Min(S)) \in Int /\ At(m) \in Int
    <2>1. Min(S) \in Int
      BY <1>4, <1>5
    <2> HIDE DEF S
    <2> QED
      BY <2>1, ClockOfDay, ClockOfMoment
  <1>7. nextSessionClose(m) = sessionClose(Min(S))
    BY DEF nextSessionClose
  <1> QED
    BY <1>5, <1>6, <1>7

\* What the clock and the calendar say at a moment fits together.
LEMMA ContextFits ==
    ASSUME NEW m \in Moments
    PROVE  LET x == Context(m)
           IN  /\ x.now \in Int /\ x.nextClose \in Int /\ x.now < x.nextClose /\ x.open \in BOOLEAN
               /\ x.settled \in Int /\ x.published \in Int /\ x.published <= x.settled
               /\ m.day - 6 <= x.settled
  <1> DEFINE x == Context(m)
  <1>1. m.day \in Int /\ m.minutes \in 0 .. DayMinutes - 1
    BY ClockOfMoment DEF Moments
  <1>2. /\ x.now = At(m) /\ x.nextClose = nextSessionClose(m) /\ x.open = isUsMarketOpen(m)
        /\ x.settled = latestSettledSessionDate(m) /\ x.published = latestPublishedNavDate(m)
    BY DEF Context
  <1> HIDE DEF x
  <1>2a. m.day \in 2 * Stretch .. LastDay - Stretch /\ LastDay \in Int /\ Stretch = 10
    BY Reach DEF Moments, Stretch
  <1>3. latestSettledSessionDate(m) \in m.day - 6 .. m.day
    <2>1. m.day \in Stretch .. LastDay
      <3> HIDE DEF LastDay
      <3> QED
        BY SMT, <1>2a
    <2>2. previousTradingSession(m.day) \in m.day - 6 .. m.day - 1
      <3> DEFINE day == m.day
      <3> HIDE DEF day
      <3>1. day \in Stretch .. LastDay
        BY <2>1 DEF day
      <3> QED
        BY <3>1, SessionBefore DEF day
    <2>3. latestSettledSessionDate(m) = m.day \/ latestSettledSessionDate(m) = previousTradingSession(m.day)
      BY DEF latestSettledSessionDate
    <2> QED
      BY <1>1, <2>2, <2>3
  <1> DEFINE settled == latestSettledSessionDate(m)
             before == previousTradingSession(settled)
  <1>4. settled \in Int /\ m.day - 6 <= settled /\ before \in Int /\ before <= settled
    <2> HIDE DEF settled
    <2>1. settled \in Stretch .. LastDay /\ settled \in Int /\ m.day - 6 <= settled
      <3>1. settled \in m.day - 6 .. m.day
        BY <1>3 DEF settled
      <3> HIDE DEF LastDay
      <3> QED
        BY SMT, <1>1, <1>2a, <3>1
    <2>2. before \in settled - 6 .. settled - 1
      BY <2>1, SessionBefore
    <2> QED
      BY <2>1, <2>2
  <1>5. latestPublishedNavDate(m) = before \/ latestPublishedNavDate(m) = settled
    BY DEF latestPublishedNavDate
  <1> HIDE DEF settled, before
  <1>6. latestPublishedNavDate(m) \in Int /\ latestPublishedNavDate(m) <= settled
    BY <1>4, <1>5
  <1>7. At(m) \in Int /\ isUsMarketOpen(m) \in BOOLEAN
    BY ClockOfMoment DEF isUsMarketOpen
  <1>8. x.now \in Int /\ x.nextClose \in Int /\ x.now < x.nextClose /\ x.open \in BOOLEAN
    BY <1>2, <1>7, NextCloseAhead
  <1>9. x.settled \in Int /\ x.published \in Int /\ x.published <= x.settled /\ m.day - 6 <= x.settled
    BY <1>2, <1>4, <1>6 DEF settled
  <1> QED
    BY <1>8, <1>9 DEF x

----------------------------------------------------------------------------
(* The clock's answers fit together. *)
\* The moments with two months of sessions behind them.
Settling == {m \in Moments : m.day >= 60}

\* Such a moment's day and minute, as numbers.
LEMMA FarEnough ==
    ASSUME NEW m \in Settling
    PROVE  /\ m \in Moments /\ m.day \in Int /\ 60 <= m.day /\ m.day + 10 <= LastDay /\ LastDay \in Int
           /\ m.minutes \in Int /\ 0 <= m.minutes /\ m.minutes < 1440
  <1>1. m \in Moments /\ 60 <= m.day
    BY DEF Settling
  <1>2. LastDay \in Int
    BY Reach
  <1>3. m.day \in Int /\ m.minutes \in Int /\ 0 <= m.minutes /\ m.minutes < 1440
    BY <1>1, ClockOfMoment
  <1>4. m.day \in 2 * Stretch .. LastDay - Stretch
    BY <1>1 DEF Moments
  <1> DEFINE day == m.day
  <1>5. day \in Int /\ day \in 2 * Stretch .. LastDay - Stretch
    BY <1>3, <1>4
  <1> HIDE DEF day, LastDay
  <1>6. day + 10 <= LastDay
    BY SMT, <1>2, <1>5 DEF Stretch
  <1> QED
    BY <1>1, <1>2, <1>3, <1>6 DEF day

\* The session before a day is one, and none lies in between.
LEMMA PreviousIs ==
    ASSUME NEW day \in Stretch .. LastDay
    PROVE  LET p == previousTradingSession(day)
           IN  /\ day \in Int /\ p \in Int /\ day - 6 <= p /\ p < day /\ isTradingDay(p)
               /\ \A e \in Int : p < e /\ e < day => ~isTradingDay(e)
  <1> DEFINE p == previousTradingSession(day)
             S == {d \in day - Stretch .. day - 1 : isTradingDay(d)}
  <1>1. day \in Int /\ Stretch = 10
    <2>1. LastDay \in Int /\ Stretch = 10
      BY Reach DEF Stretch
    <2> HIDE DEF LastDay
    <2> QED
      BY SMT, <2>1
  <1>2. p \in day - 6 .. day - 1 /\ isTradingDay(p)
    BY SessionBefore
  <1> HIDE DEF p
  <1>3. p \in Int /\ day - 6 <= p /\ p < day
    BY <1>1, <1>2
  <1>4. p = Max(S)
    BY DEF previousTradingSession, p
  <1>5. IsFiniteSet(S)
    <2>1. IsFiniteSet(day - Stretch .. day - 1)
      <3> DEFINE a == day - Stretch
                 b == day - 1
      <3>1. a \in Int /\ b \in Int
        BY <1>1
      <3> HIDE DEF a, b
      <3>2. IsFiniteSet(a .. b)
        BY <3>1, FS_Interval
      <3> QED
        BY <3>2 DEF a, b
    <2> QED
      BY <2>1, FS_Subset
  <1>6. p \in S
    BY <1>1, <1>2, <1>3
  <1>7. \A y \in S : y <= p
    <2>1. \A s \in S : s \in Int
      BY <1>1
    <2> HIDE DEF S
    <2> QED
      BY <1>4, <1>5, <1>6, <2>1, LargestOf
  <1>8. ASSUME NEW e \in Int, p < e, e < day, isTradingDay(e) PROVE FALSE
    <2>1. e \in S
      BY <1>1, <1>3, <1>8
    <2> QED
      BY <1>3, <1>7, <1>8, <2>1
  <1> QED
    BY <1>1, <1>2, <1>3, <1>8 DEF p

\* And it is the only such day.
LEMMA OnlyPrevious ==
    ASSUME NEW day \in Stretch .. LastDay, NEW s \in Int, isTradingDay(s), s < day,
           \A e \in Int : s < e /\ e < day => ~isTradingDay(e)
    PROVE  previousTradingSession(day) = s
  <1> DEFINE p == previousTradingSession(day)
  <1>1. /\ day \in Int /\ p \in Int /\ p < day /\ isTradingDay(p)
        /\ \A e \in Int : p < e /\ e < day => ~isTradingDay(e)
    BY PreviousIs
  <1> HIDE DEF p
  <1>2. ~(p < s) /\ ~(s < p)
    BY <1>1
  <1> QED
    BY <1>1, <1>2 DEF p

\* The session settled at a moment: it is over, and none after it is.
LEMMA SettledIs ==
    ASSUME NEW m \in Settling
    PROVE  LET s == latestSettledSessionDate(m)
           IN  /\ s \in Int /\ m.day - 6 <= s /\ s <= m.day /\ isTradingDay(s)
               /\ sessionClose(s) <= At(m)
               /\ \A e \in Int : s < e /\ isTradingDay(e) => sessionClose(e) > At(m)
  <1> DEFINE day == m.day
             minutes == m.minutes
             s == latestSettledSessionDate(m)
             p == previousTradingSession(day)
  <1>1. /\ day \in Int /\ 60 <= day /\ day + 10 <= LastDay /\ LastDay \in Int
        /\ minutes \in Int /\ 0 <= minutes /\ minutes < 1440 /\ At(m) = day * 1440 + minutes
    BY FarEnough, ClockOfMoment
  <1>2. s = IF isTradingDay(day) /\ minutes >= 960 THEN day ELSE p
    BY DEF latestSettledSessionDate, CloseMinutes
  <1> HIDE DEF day, minutes, s
  <1>3. day \in Stretch .. LastDay
    <2> HIDE DEF LastDay
    <2> QED
      BY SMT, <1>1 DEF Stretch
  <1>4. /\ p \in Int /\ day - 6 <= p /\ p < day /\ isTradingDay(p)
        /\ \A e \in Int : p < e /\ e < day => ~isTradingDay(e)
    BY <1>3, PreviousIs
  <1> HIDE DEF p
  <1>5. \A e \in Int : sessionClose(e) = e * 1440 + 960
    BY ClockOfDay
  <1>6. CASE isTradingDay(day) /\ minutes >= 960
    <2>1. s = day
      BY <1>2, <1>6
    <2>2. sessionClose(day) <= At(m)
      BY <1>1, <1>5, <1>6
    <2>3. ASSUME NEW e \in Int, day < e PROVE sessionClose(e) > At(m)
      BY <1>1, <1>5, <2>3
    <2> QED
      BY <1>1, <1>6, <2>1, <2>2, <2>3 DEF s, day
  <1>7. CASE ~(isTradingDay(day) /\ minutes >= 960)
    <2>1. s = p
      BY <1>2, <1>7
    <2>2. sessionClose(p) <= At(m)
      BY <1>1, <1>4, <1>5
    <2>3. ASSUME NEW e \in Int, p < e, isTradingDay(e) PROVE sessionClose(e) > At(m)
      <3>1. day <= e
        BY <1>1, <1>4, <2>3
      <3>2. e = day => minutes < 960
        BY <1>1, <1>7, <2>3
      <3> QED
        BY <1>1, <1>5, <3>1, <3>2
    <2> QED
      BY <1>1, <1>4, <2>1, <2>2, <2>3 DEF s, day
  <1> QED
    BY <1>6, <1>7

\* The session whose close is the next: the one after the settled.
LEMMA FollowingIs ==
    ASSUME NEW m \in Settling
    PROVE  LET f == CHOOSE d \in m.day .. m.day + Stretch : sessionClose(d) = nextSessionClose(m)
               s == latestSettledSessionDate(m)
           IN  /\ f \in Int /\ m.day <= f /\ f <= m.day + 10 /\ isTradingDay(f) /\ sessionClose(f) > At(m)
               /\ s < f /\ previousTradingSession(f) = s
  <1> DEFINE day == m.day
             days == {d \in day .. day + Stretch : isTradingDay(d) /\ sessionClose(d) > At(m)}
             f == CHOOSE d \in day .. day + Stretch : sessionClose(d) = nextSessionClose(m)
             s == latestSettledSessionDate(m)
  <1>1. /\ day \in Int /\ 60 <= day /\ day + 10 <= LastDay /\ LastDay \in Int /\ At(m) \in Int
        /\ m \in Moments /\ Stretch = 10
    BY FarEnough, ClockOfMoment DEF Stretch
  <1>2. /\ s \in Int /\ day - 6 <= s /\ s <= day /\ isTradingDay(s) /\ sessionClose(s) <= At(m)
        /\ \A e \in Int : s < e /\ isTradingDay(e) => sessionClose(e) > At(m)
    BY SettledIs
  <1> HIDE DEF day, s
  <1>3. \A e \in Int : sessionClose(e) = e * 1440 + 960
    BY ClockOfDay
  <1>4. \E d \in s + 1 .. s + 6 : isTradingDay(d)
    <2> DEFINE from == s + 1
    <2>1. from \in 0 .. LastDay - 5 /\ from + 5 = s + 6
      <3> HIDE DEF LastDay
      <3> QED
        BY SMT, <1>1, <1>2
    <2> HIDE DEF from
    <2>2. \E d \in from .. from + 5 : isTradingDay(d)
      BY <2>1, ExchangeNeverShut
    <2> QED
      BY <2>1, <2>2 DEF from
  <1>5. PICK g \in s + 1 .. s + 6 : isTradingDay(g)
    BY <1>4
  <1>6. g \in Int /\ s < g /\ g <= s + 6 /\ sessionClose(g) > At(m)
    BY <1>2, <1>5
  <1>7. ASSUME NEW e \in Int, s < e, isTradingDay(e) PROVE day <= e
    <2>1. sessionClose(e) > At(m)
      BY <1>2, <1>7
    <2>2. At(m) >= day * 1440
      <3>1. At(m) = m.day * 1440 + m.minutes /\ 0 <= m.minutes /\ m.minutes \in Int
        BY <1>1, ClockOfMoment
      <3> QED
        BY <1>1, <3>1 DEF day
    <2> QED
      BY <1>1, <1>3, <2>1, <2>2
  <1>8. g \in days
    <2>1. day <= g
      BY <1>5, <1>6, <1>7
    <2> QED
      BY <1>1, <1>2, <1>5, <1>6, <2>1
  <1>9. Min(days) \in days /\ \A y \in days : Min(days) <= y
    <2>1. IsFiniteSet(day .. day + Stretch)
      <3> DEFINE b == day + Stretch
      <3>1. b \in Int
        BY <1>1
      <3> HIDE DEF b
      <3>2. IsFiniteSet(day .. b)
        BY <1>1, <3>1, FS_Interval
      <3> QED
        BY <3>2 DEF b
    <2>2. IsFiniteSet(days) /\ days # {}
      BY <1>8, <2>1, FS_Subset
    <2>3. \A d \in days : d \in Int
      BY <1>1
    <2> HIDE DEF days
    <2> QED
      BY <2>2, <2>3, SmallestOf
  <1> DEFINE n == Min(days)
  <1>10. /\ n \in day .. day + Stretch /\ n \in Int /\ day <= n /\ isTradingDay(n) /\ sessionClose(n) > At(m)
         /\ n <= g /\ \A y \in days : n <= y
    BY <1>1, <1>8, <1>9
  <1>11. nextSessionClose(m) = sessionClose(n)
    BY DEF nextSessionClose, day
  <1> HIDE DEF n
  <1>12. f = n
    <2>1. \A d \in day .. day + Stretch : sessionClose(d) = sessionClose(n) => d = n
      BY <1>1, <1>3, <1>10
    <2>2. f \in day .. day + Stretch /\ sessionClose(f) = sessionClose(n)
      BY <1>10, <1>11
    <2> HIDE DEF f
    <2> QED
      BY <2>1, <2>2
  <1>13. s < n
    <2>1. sessionClose(s) <= At(m) /\ sessionClose(n) > At(m)
      BY <1>2, <1>10
    <2> QED
      BY <1>1, <1>2, <1>3, <1>10, <2>1
  <1>14. ASSUME NEW e \in Int, s < e, e < n, isTradingDay(e) PROVE FALSE
    <2>1. day <= e /\ sessionClose(e) > At(m)
      BY <1>2, <1>7, <1>14
    <2>2. e \in days
      BY <1>1, <1>6, <1>10, <1>14, <2>1
    <2> QED
      BY <1>10, <1>14, <2>2
  <1>15. previousTradingSession(n) = s
    <2>1. n \in Stretch .. LastDay
      <3> HIDE DEF LastDay
      <3> QED
        BY SMT, <1>1, <1>2, <1>6, <1>10
    <2> QED
      BY <1>2, <1>13, <1>14, <2>1, OnlyPrevious
  <1> HIDE DEF f
  <1>16. f \in Int /\ day <= f /\ f <= day + 10 /\ isTradingDay(f) /\ sessionClose(f) > At(m)
         /\ s < f /\ previousTradingSession(f) = s
    BY <1>1, <1>10, <1>12, <1>13, <1>15
  <1> QED
    BY <1>16 DEF f, s, day

\* The session begun last is the settled one, or the one after it while the exchange is open.
LEMMA LastIs ==
    ASSUME NEW m \in Settling
    PROVE  LET f == CHOOSE d \in m.day .. m.day + Stretch : sessionClose(d) = nextSessionClose(m)
               s == latestSettledSessionDate(m)
               last == lastSessionDate(m)
           IN  last \in {s, f} /\ (isUsMarketOpen(m) <=> last = f)
  <1> DEFINE day == m.day
             minutes == m.minutes
             f == CHOOSE d \in day .. day + Stretch : sessionClose(d) = nextSessionClose(m)
             s == latestSettledSessionDate(m)
             last == lastSessionDate(m)
             p == previousTradingSession(day)
             trades == isTradingDay(day)
  <1>1. /\ day \in Int /\ 60 <= day /\ day + 10 <= LastDay /\ LastDay \in Int /\ minutes \in Int /\ minutes < 1440
        /\ At(m) = day * 1440 + minutes /\ \A e \in Int : sessionClose(e) = e * 1440 + 960
    BY FarEnough, ClockOfMoment, ClockOfDay
  <1>2. /\ f \in Int /\ day <= f /\ isTradingDay(f) /\ sessionClose(f) > At(m)
        /\ s < f /\ previousTradingSession(f) = s
    BY FollowingIs
  <1>3. /\ s = IF trades /\ minutes >= 960 THEN day ELSE p
        /\ last = IF trades /\ minutes >= 570 THEN day ELSE p
        /\ isUsMarketOpen(m) <=> trades /\ 570 <= minutes /\ minutes < 960
    BY DEF latestSettledSessionDate, CloseMinutes, lastSessionDate, OpenMinutes, isUsMarketOpen
  <1>4. s \in Int
    BY SettledIs
  <1>5. f \in Stretch .. LastDay /\ day \in Stretch .. LastDay
    <2>1. f <= day + 10
      BY FollowingIs
    <2> HIDE DEF LastDay, f
    <2> QED
      BY SMT, <1>1, <1>2, <2>1 DEF Stretch
  <1>6. \A e \in Int : s < e /\ e < f => ~isTradingDay(e)
    BY <1>2, <1>5, PreviousIs
  <1> HIDE DEF f, s, last, p, day, minutes, trades
  <1>7. CASE trades /\ 570 <= minutes /\ minutes < 960
    <2>1. last = day /\ s = p
      BY <1>1, <1>3, <1>7
    <2>2. p < day
      BY <1>5, PreviousIs DEF p
    <2>3. day = f
      <3>1. ~(day < f)
        BY <1>1, <1>6, <1>7, <2>1, <2>2 DEF trades
      <3> QED
        BY <1>1, <1>2, <3>1
    <2>4. last = f
      BY <2>1, <2>3
    <2>5. isUsMarketOpen(m)
      BY <1>3, <1>7
    <2> QED
      BY <2>4, <2>5 DEF f, s, last, day
  <1>8. CASE ~(trades /\ 570 <= minutes /\ minutes < 960)
    <2>1. last = s
      BY <1>1, <1>3, <1>8
    <2>2. last # f
      BY <1>2, <1>4, <2>1
    <2>3. ~isUsMarketOpen(m)
      BY <1>3, <1>8
    <2> QED
      BY <2>1, <2>2, <2>3 DEF f, s, last, day
  <1> QED
    BY <1>7, <1>8 DEF f, s, last, day

\* No more than the session settled last is unpublished.
LEMMA PublishedIs ==
    ASSUME NEW m \in Settling
    PROVE  LET s == latestSettledSessionDate(m)
               n == latestPublishedNavDate(m)
           IN  Cardinality({d \in n + 1 .. s : isTradingDay(d)}) \in {0, 1}
  <1> DEFINE s == latestSettledSessionDate(m)
             n == latestPublishedNavDate(m)
             B == {d \in n + 1 .. s : isTradingDay(d)}
  <1>1. s \in Int /\ isTradingDay(s) /\ s \in Stretch .. LastDay
    <2>1. s \in Int /\ m.day - 6 <= s /\ s <= m.day /\ isTradingDay(s)
      BY SettledIs
    <2> DEFINE day == m.day
    <2>2. day \in Int /\ 60 <= day /\ day + 10 <= LastDay /\ LastDay \in Int /\ day - 6 <= s /\ s <= day
      BY <2>1, FarEnough
    <2> HIDE DEF s, day, LastDay
    <2>3. s \in Stretch .. LastDay
      BY SMT, <2>1, <2>2 DEF Stretch
    <2> QED
      BY <2>1, <2>3
  <1>2. n = s \/ n = previousTradingSession(s)
    BY DEF latestPublishedNavDate
  <1> HIDE DEF s, n
  <1>3. CASE n = s
    <2>1. B = {}
      BY <1>1, <1>3
    <2> QED
      BY <2>1, FS_EmptySet DEF s, n
  <1>4. CASE n = previousTradingSession(s)
    <2>1. n \in Int /\ n < s /\ \A e \in Int : n < e /\ e < s => ~isTradingDay(e)
      BY <1>1, <1>4, PreviousIs
    <2>2. B = {s}
      BY <1>1, <2>1
    <2>3. Cardinality(B) = 1
      BY <2>2, FS_Singleton
    <2> QED
      BY <2>3 DEF s, n
  <1> QED
    BY <1>2, <1>3, <1>4
\* The lesser of two numbers.
LEMMA PairHasLeast ==
    ASSUME NEW a \in Int, NEW b \in Int
    PROVE  Min({a, b}) = IF a <= b THEN a ELSE b
  <1> DEFINE S == {a, b}
  <1>1. IsFiniteSet(S) /\ S # {} /\ \A s \in S : s \in Int
    <2>1. IsFiniteSet({a}) /\ IsFiniteSet({b}) /\ S = {a} \cup {b}
      BY FS_Singleton
    <2> QED
      BY <2>1, FS_Union
  <1>2. a \in S /\ b \in S /\ \A s \in S : s = a \/ s = b
    OBVIOUS
  <1> HIDE DEF S
  <1>3. Min(S) \in S /\ \A y \in S : Min(S) <= y
    BY <1>1, SmallestOf
  <1> DEFINE n == Min(S)
  <1> HIDE DEF n
  <1>4. (n = a \/ n = b) /\ n <= a /\ n <= b
    BY <1>2, <1>3 DEF n
  <1>5. n = IF a <= b THEN a ELSE b
    BY <1>4
  <1> QED
    BY <1>5 DEF S, n

\* Sessions counted one by one, from the last back, are all the sessions after a day, up
\* to the cap.
LEMMA CountedBack ==
    ASSUME NEW u, NEW from \in Int,
           \A n \in 0 .. 7 : u[n] \in Int /\ isTradingDay(u[n]),
           \A n \in 0 .. 6 : /\ u[n + 1] < u[n]
                             /\ \A e \in Int : u[n + 1] < e /\ e < u[n] => ~isTradingDay(e)
    PROVE  Cardinality({n \in 0 .. 6 : u[n] > from})
              = Min({7, Cardinality({d \in from + 1 .. u[0] : isTradingDay(d)})})
  <1> DEFINE A == {n \in 0 .. 6 : u[n] > from}
             B == {d \in from + 1 .. u[0] : isTradingDay(d)}
             f == [n \in A |-> u[n]]
  <1>1. /\ u[0] \in Int /\ u[1] \in Int /\ u[2] \in Int /\ u[3] \in Int /\ u[4] \in Int /\ u[5] \in Int /\ u[6] \in Int
        /\ u[6] < u[5] /\ u[5] < u[4] /\ u[4] < u[3] /\ u[3] < u[2] /\ u[2] < u[1] /\ u[1] < u[0]
    BY 0 + 1 = 1, 1 + 1 = 2, 2 + 1 = 3, 3 + 1 = 4, 4 + 1 = 5, 5 + 1 = 6
  <1>2. ASSUME NEW i \in 0 .. 6, NEW j \in 0 .. 6, i < j PROVE u[j] < u[i]
    BY <1>1, <1>2
  <1>3. ASSUME NEW e \in Int, isTradingDay(e), u[6] <= e, e <= u[0] PROVE \E n \in 0 .. 6 : u[n] = e
    <2>1. \A n \in 0 .. 5 : ~(u[n + 1] < e /\ e < u[n])
      BY <1>3
    <2>2. /\ ~(u[1] < e /\ e < u[0]) /\ ~(u[2] < e /\ e < u[1]) /\ ~(u[3] < e /\ e < u[2])
          /\ ~(u[4] < e /\ e < u[3]) /\ ~(u[5] < e /\ e < u[4]) /\ ~(u[6] < e /\ e < u[5])
      BY <2>1, 0 + 1 = 1, 1 + 1 = 2, 2 + 1 = 3, 3 + 1 = 4, 4 + 1 = 5, 5 + 1 = 6
    <2>3. e = u[0] \/ e = u[1] \/ e = u[2] \/ e = u[3] \/ e = u[4] \/ e = u[5] \/ e = u[6]
      BY <1>1, <1>3, <2>2
    <2> QED
      BY <2>3
  <1>4. IsFiniteSet(B) /\ Cardinality(B) \in Nat
    <2> DEFINE a == from + 1
               b == u[0]
    <2>1. a \in Int /\ b \in Int
      BY <1>1
    <2> HIDE DEF a, b
    <2>2. IsFiniteSet(a .. b)
      BY <2>1, FS_Interval
    <2>3. IsFiniteSet(B)
      BY <2>2, FS_Subset DEF a, b
    <2> QED
      BY <2>3, FS_CardinalityType
  <1>5. IsFiniteSet(0 .. 6) /\ Cardinality(0 .. 6) = 7
    <2> DEFINE a == 0
               b == 6
    <2>1. a \in Int /\ b \in Int /\ ~(a > b) /\ b - a + 1 = 7
      OBVIOUS
    <2> HIDE DEF a, b
    <2>2. IsFiniteSet(a .. b) /\ Cardinality(a .. b) = 7
      BY <2>1, FS_Interval
    <2> QED
      BY <2>2 DEF a, b
  <1>6. Cardinality(A) \in Nat /\ Cardinality(A) <= 7
    BY <1>5, FS_Subset, FS_CardinalityType
  <1>7. f \in Injection(A, B)
    <2>1. \A n \in A : n \in 0 .. 6 /\ u[n] \in Int /\ from < u[n] /\ isTradingDay(u[n])
      BY <1>1
    <2>2. \A n \in A : u[n] <= u[0]
      BY <1>1, <1>2, <2>1
    <2>3. \A n \in A : u[n] \in B
      BY <1>1, <2>1, <2>2
    <2>4. \A i, j \in A : u[i] = u[j] => i = j
      <3> SUFFICES ASSUME NEW i \in A, NEW j \in A, i # j PROVE u[i] # u[j]
        OBVIOUS
      <3>1. i < j \/ j < i
        BY <2>1
      <3> QED
        BY <1>2, <2>1, <3>1
    <2> HIDE DEF A, B
    <2> QED
      BY <2>3, <2>4 DEF Injection, IsInjective
  <1>8. Cardinality(A) <= Cardinality(B) /\ (f \in Surjection(A, B) => Cardinality(A) = Cardinality(B))
    <2> HIDE DEF A, B, f
    <2> QED
      BY <1>4, <1>7, FS_Injection
  <1>9. CASE u[6] > from
    <2>1. A = 0 .. 6
      <3>1. ASSUME NEW n \in 0 .. 6 PROVE u[n] > from
        BY <1>1, <1>2, <1>9
      <3> QED
        BY <3>1
    <2>2. Cardinality(A) = 7
      BY <1>5, <2>1
    <2> HIDE DEF A, B
    <2>3. Min({7, Cardinality(B)}) = 7
      BY <1>4, <1>8, <2>2, PairHasLeast
    <2> QED
      BY <2>2, <2>3 DEF A, B
  <1>10. CASE ~(u[6] > from)
    <2>1. \A e \in B : e \in Int /\ isTradingDay(e) /\ from < e /\ u[6] <= e /\ e <= u[0]
      BY <1>1, <1>10
    <2>2. \A e \in B : \E n \in A : f[n] = e
      <3> SUFFICES ASSUME NEW e \in B PROVE \E n \in A : f[n] = e
        OBVIOUS
      <3>1. PICK n \in 0 .. 6 : u[n] = e
        BY <1>3, <2>1
      <3>2. n \in A
        BY <2>1, <3>1
      <3> QED
        BY <3>1, <3>2
    <2>3. f \in Surjection(A, B)
      <3> HIDE DEF A, B, f
      <3> QED
        BY <1>7, <2>2 DEF Surjection, Injection
    <2>4. Cardinality(A) = Cardinality(B)
      BY <1>8, <2>3
    <2> HIDE DEF A, B
    <2>5. Min({7, Cardinality(B)}) = Cardinality(B)
      BY <1>4, <1>6, <2>4, PairHasLeast
    <2> QED
      BY <2>4, <2>5 DEF A, B
  <1> QED
    BY <1>9, <1>10

\* The settled sessions of a moment are counted from any of the days before.
LEMMA CountedSettled ==
    ASSUME NEW m \in Settling, NEW from \in Int
    PROVE  LET s == latestSettledSessionDate(m)
           IN  settledSessionsSince(from, m, 7) = Min({7, Cardinality({d \in from + 1 .. s : isTradingDay(d)})})
  <1> DEFINE s == latestSettledSessionDate(m)
             E(u) == u = [n \in 0 .. 7 |-> IF n = 0 THEN s ELSE previousTradingSession(u[n - 1])]
             nth == CHOOSE u : E(u)
             s1 == previousTradingSession(s)
             s2 == previousTradingSession(s1)
             s3 == previousTradingSession(s2)
             s4 == previousTradingSession(s3)
             s5 == previousTradingSession(s4)
             s6 == previousTradingSession(s5)
             s7 == previousTradingSession(s6)
             w == [n \in 0 .. 7 |-> IF n = 0 THEN s ELSE IF n = 1 THEN s1 ELSE IF n = 2 THEN s2
                                    ELSE IF n = 3 THEN s3 ELSE IF n = 4 THEN s4 ELSE IF n = 5 THEN s5
                                    ELSE IF n = 6 THEN s6 ELSE s7]
  <1>1. settledSessionsSince(from, m, 7) = Cardinality({n \in 0 .. 6 : nth[n] > from})
    <2>1. 7 - 1 = 6
      OBVIOUS
    <2> QED
      BY <2>1 DEF settledSessionsSince
  <1>2. s \in Int /\ 54 <= s /\ s <= LastDay /\ LastDay \in Int /\ isTradingDay(s)
    <2> DEFINE day == m.day
    <2>1. s \in Int /\ day - 6 <= s /\ s <= day /\ isTradingDay(s)
      BY SettledIs
    <2>2. day \in Int /\ 60 <= day /\ day + 10 <= LastDay /\ LastDay \in Int
      BY FarEnough
    <2> HIDE DEF day, s, LastDay
    <2> QED
      BY SMT, <2>1, <2>2
  <1> HIDE DEF s, LastDay
  <1>3. \E u : E(u)
    <2>1. /\ w[0] = s /\ w[1] = s1 /\ w[2] = s2 /\ w[3] = s3 /\ w[4] = s4 /\ w[5] = s5 /\ w[6] = s6 /\ w[7] = s7
          /\ w = [n \in 0 .. 7 |-> w[n]]
      BY DEF w
    <2> HIDE DEF w
    <2>2. ASSUME NEW n \in 0 .. 7 PROVE w[n] = IF n = 0 THEN s ELSE previousTradingSession(w[n - 1])
      <3>1. n \in {0, 1, 2, 3, 4, 5, 6, 7}
        BY <2>2
      <3>2. 1 - 1 = 0 /\ 2 - 1 = 1 /\ 3 - 1 = 2 /\ 4 - 1 = 3 /\ 5 - 1 = 4 /\ 6 - 1 = 5 /\ 7 - 1 = 6
        OBVIOUS
      <3> QED
        BY <2>1, <3>1, <3>2
    <2>3. E(w)
      BY <2>1, <2>2
    <2> HIDE DEF E
    <2> QED
      BY <2>3
  <1>4. E(nth)
    <2> HIDE DEF E
    <2> QED
      BY <1>3
  <1> HIDE DEF nth
  <1>5. nth[0] = s /\ \A n \in 0 .. 6 : nth[n + 1] = previousTradingSession(nth[n])
    <2>1. \A n \in 0 .. 7 : nth[n] = IF n = 0 THEN s ELSE previousTradingSession(nth[n - 1])
      BY <1>4
    <2> HIDE DEF E
    <2>2. ASSUME NEW n \in 0 .. 6 PROVE nth[n + 1] = previousTradingSession(nth[n])
      <3>1. n + 1 \in 0 .. 7 /\ n + 1 # 0 /\ (n + 1) - 1 = n
        OBVIOUS
      <3> DEFINE k == n + 1
      <3>2. nth[k] = IF k = 0 THEN s ELSE previousTradingSession(nth[k - 1])
        BY <2>1, <3>1
      <3> QED
        BY <3>1, <3>2
    <2>3. nth[0] = s
      BY <2>1, 0 \in 0 .. 7
    <2> QED
      BY <2>2, <2>3
  <1>6. ASSUME NEW d \in Int, 12 <= d, d <= LastDay
        PROVE  LET p == previousTradingSession(d)
               IN  /\ p \in Int /\ d - 6 <= p /\ p < d /\ isTradingDay(p)
                   /\ \A e \in Int : p < e /\ e < d => ~isTradingDay(e)
    <2>1. d \in Stretch .. LastDay
      BY SMT, <1>2, <1>6 DEF Stretch
    <2> QED
      BY <2>1, PreviousIs
  <1> DEFINE Stood(n) == nth[n] \in Int /\ isTradingDay(nth[n]) /\ nth[n] <= LastDay /\ s - 6 * n <= nth[n]
  <1>7. ASSUME NEW n \in 0 .. 6, Stood(n)
        PROVE  /\ Stood(n + 1) /\ nth[n + 1] < nth[n]
               /\ \A e \in Int : nth[n + 1] < e /\ e < nth[n] => ~isTradingDay(e)
    <2> DEFINE d == nth[n]
               p == nth[n + 1]
    <2>1. d \in Int /\ 12 <= d /\ d <= LastDay /\ s - 6 * n <= d
      BY <1>2, <1>7
    <2>2. p = previousTradingSession(d)
      BY <1>5
    <2>3. /\ p \in Int /\ d - 6 <= p /\ p < d /\ isTradingDay(p)
          /\ \A e \in Int : p < e /\ e < d => ~isTradingDay(e)
      BY <1>6, <2>1, <2>2
    <2> HIDE DEF d, p
    <2>4. p <= LastDay /\ s - 6 * (n + 1) <= p
      BY <1>2, <2>1, <2>3
    <2> QED
      BY <2>3, <2>4 DEF d, p
  <1>8. Stood(0)
    BY <1>2, <1>5
  <1>9. Stood(1) /\ Stood(2) /\ Stood(3) /\ Stood(4) /\ Stood(5) /\ Stood(6) /\ Stood(7)
    <2>1. \A n \in 0 .. 6 : Stood(n) => Stood(n + 1)
      BY <1>7
    <2> HIDE DEF Stood
    <2> QED
      BY <1>8, <2>1, 0 + 1 = 1, 1 + 1 = 2, 2 + 1 = 3, 3 + 1 = 4, 4 + 1 = 5, 5 + 1 = 6, 6 + 1 = 7
  <1>10. \A n \in 0 .. 7 : Stood(n)
    <2> HIDE DEF Stood
    <2>1. \A n \in 0 .. 7 : n = 0 \/ n = 1 \/ n = 2 \/ n = 3 \/ n = 4 \/ n = 5 \/ n = 6 \/ n = 7
      OBVIOUS
    <2> QED
      BY <1>8, <1>9, <2>1
  <1>11. \A n \in 0 .. 7 : nth[n] \in Int /\ isTradingDay(nth[n])
    BY <1>10
  <1>12. \A n \in 0 .. 6 : /\ nth[n + 1] < nth[n]
                           /\ \A e \in Int : nth[n + 1] < e /\ e < nth[n] => ~isTradingDay(e)
    BY <1>7, <1>10
  <1> HIDE DEF Stood, E
  <1>13. Cardinality({n \in 0 .. 6 : nth[n] > from})
            = Min({7, Cardinality({d \in from + 1 .. nth[0] : isTradingDay(d)})})
    BY <1>11, <1>12, CountedBack
  <1> QED
    BY <1>1, <1>5, <1>13 DEF s

\* While the currency trades again and the exchange has not since, the last session closed
\* before the currency reopened.
LEMMA OvernightIs ==
    ASSUME NEW m \in Settling, isWeekendOvernight(m)
    PROVE  sessionClose(lastSessionDate(m)) < lastForexReopen(m)
  <1> DEFINE day == m.day
             last == lastSessionDate(m)
             sunday == CHOOSE d \in day - 6 .. day : weekdayOf(d) = 0
  <1>1. day \in Int /\ 60 <= day /\ day <= LastDay /\ LastDay \in Int
    BY FarEnough
  <1>2. sunday \in Int /\ weekdayOf(sunday) = 0
    <2> HIDE DEF day
    <2> DEFINE d == day - weekdayOf(day)
    <2>1. d \in day - 6 .. day /\ weekdayOf(d) = 0
      BY SMT, <1>1 DEF weekdayOf
    <2> HIDE DEF d
    <2> QED
      BY <1>1, <2>1
  <1>3. lastForexReopen(m) = sunday * 1440 + 1020
    BY DEF lastForexReopen, Instant, DayMinutes, ForexBoundary, day
  <1>4. last \in Int /\ isTradingDay(last)
    BY LastIs, SettledIs, FollowingIs
  <1>5. sessionOpen(last) < lastForexReopen(m)
    BY DEF isWeekendOvernight
  <1>6. weekdayOf(last) # 0
    BY <1>4 DEF isTradingDay, Weekend
  <1> HIDE DEF last, sunday, LastDay
  <1>7. sessionOpen(last) = last * 1440 + 570 /\ sessionClose(last) = last * 1440 + 960
    BY <1>4, ClockOfDay
  <1>8. last # sunday
    BY <1>2, <1>6
  <1> QED
    BY <1>2, <1>3, <1>4, <1>5, <1>7, <1>8 DEF last

\* At every minute from March 1970 to the year 2790 the clock's answers fit together: what is
\* published, settled and begun is at most one session apart and in this order, the next
\* close is of the session after the settled one, the market is open exactly between the
\* two, and sessions are counted right from any of ten days (market-hours.ts).
LEMMA ClockAlwaysConsistent ==
    ASSUME NEW m \in Settling
    PROVE  SessionsConsistent(m)
  <1>1. \A back \in 0 .. Stretch : latestSettledSessionDate(m) - back \in Int
    <2> DEFINE s == latestSettledSessionDate(m)
    <2>1. s \in Int
      BY SettledIs
    <2> HIDE DEF s
    <2>2. \A back \in 0 .. Stretch : s - back \in Int
      BY <2>1
    <2> QED
      BY <2>2 DEF s
  <1>2. \A back \in 0 .. Stretch :
           settledSessionsSince(latestSettledSessionDate(m) - back, m, 7)
              = Min({7, Cardinality({d \in (latestSettledSessionDate(m) - back) + 1 .. latestSettledSessionDate(m) :
                                        isTradingDay(d)})})
    BY <1>1, CountedSettled
  <1> QED
    BY <1>2, PublishedIs, FollowingIs, LastIs, OvernightIs DEF SessionsConsistent

----------------------------------------------------------------------------
(* The published closings. *)

\* Where a holiday that falls on a weekend is kept, New Year's day apart.
LEMMA ObservedIs ==
    ASSUME NEW y \in Nat \ {0}, NEW m \in 1 .. 12, NEW d \in 1 .. 31, NEW day \in Int, dayNumber(y, m, d) = day
    PROVE  /\ weekdayOf(day) \notin Weekend => observed(y, m, d) = day
           /\ weekdayOf(day) = 6 /\ ~(m = 1 /\ d = 1) => observed(y, m, d) = day - 1
           /\ weekdayOf(day) = 6 /\ m = 1 /\ d = 1 => observed(y, m, d) = dayNumber(y, 12, 31)
           /\ weekdayOf(day) = 0 => observed(y, m, d) = day + 1
  BY DEF observed, Weekend

\* A day between a year's first and last is of that year.
LEMMA YearIs ==
    ASSUME NEW y \in 1971 .. 2700, NEW day \in dayNumber(y, 1, 1) .. dayNumber(y, 12, 31)
    PROVE  yearOf(day) = y
  <1> DEFINE p == yearOf(day)
  <1>1. /\ y \in Nat \ {0} /\ y - 1 \in Nat /\ dayNumber(y, 1, 1) = Base(y - 1) + 307
        /\ dayNumber(y, 12, 31) = Base(y) + 306 /\ Base(y - 1) \in Int /\ Base(y) \in Int
    <2>1. y \in Nat \ {0} /\ y \in Nat /\ y - 1 \in Nat
      OBVIOUS
    <2> QED
      BY <2>1, Dates, BaseType
  <1>2. day \in 0 .. LastDay
    <2>1. Base(y - 1) + 307 >= 0 /\ Base(y) + 306 <= LastDay
      BY SMT DEF Base, LastDay
    <2> QED
      BY <1>1, <2>1, Reach
  <1>3. p \in Nat \ {0} /\ dayNumber(p, 1, 1) <= day /\ day < dayNumber(p + 1, 1, 1)
    BY <1>2, YearFound
  <1> HIDE DEF p
  <1>4. /\ p - 1 \in Nat /\ Base(p - 1) \in Int /\ Base(p) \in Int
        /\ dayNumber(p, 1, 1) = Base(p - 1) + 307 /\ dayNumber(p + 1, 1, 1) = Base(p) + 307
    <2>1. p + 1 \in Nat \ {0} /\ (p + 1) - 1 = p
      BY <1>3
    <2> QED
      BY <1>3, <2>1, Dates, BaseType
  <1>5. ~(p < y)
    <2>1. p < y => Base(p) <= Base(y - 1)
      BY <1>1, <1>3, Later
    <2> QED
      BY <1>1, <1>3, <1>4, <2>1
  <1>6. ~(y < p)
    <2>1. y < p => Base(y) <= Base(p - 1)
      BY <1>1, <1>3, <1>4, Later
    <2> QED
      BY <1>1, <1>3, <1>4, <2>1
  <1> QED
    BY <1>1, <1>3, <1>5, <1>6 DEF p

\* What the rules compute for a year, one holiday at a time, is what was published; New
\* Year's day of 2022 is kept on a Saturday.
LEMMA ClosingsOf2021 ==
    HolidaysRight(2021, Published(2021))
  <1> DEFINE K == {dayNumber(2021, 1, 1), dayNumber(2021, 1, 18), dayNumber(2021, 2, 15),
                    dayNumber(2021, 4, 2), dayNumber(2021, 5, 31), dayNumber(2021, 7, 5),
                    dayNumber(2021, 9, 6), dayNumber(2021, 11, 25), dayNumber(2021, 12, 24)}
  <1>1. Published(2021) = K
    BY DEF Published
  <1>2. /\ observed(2021, 1, 1) = dayNumber(2021, 1, 1)
        /\ observed(2021, 7, 4) = dayNumber(2021, 7, 5)
        /\ observed(2021, 12, 25) = dayNumber(2021, 12, 24)
    BY SMT, ObservedIs DEF weekdayOf, Weekend, dayNumber, MarchYear
  <1>3. /\ nthWeekday(2021, 1, 1, 3) = dayNumber(2021, 1, 18)
        /\ nthWeekday(2021, 2, 1, 3) = dayNumber(2021, 2, 15)
        /\ easterSunday(2021) - 2 = dayNumber(2021, 4, 2)
        /\ lastWeekday(2021, 5, 1) = dayNumber(2021, 5, 31)
        /\ nthWeekday(2021, 9, 1, 1) = dayNumber(2021, 9, 6)
        /\ nthWeekday(2021, 11, 4, 4) = dayNumber(2021, 11, 25)
    BY SMT DEF nthWeekday, lastWeekday, easterSunday, weekdayOf, dayNumber, MarchYear
  <1>4. holidaysForYear(2021) = K
    BY <1>2, <1>3 DEF holidaysForYear
  <1>5. \A day \in dayNumber(2021, 1, 1) .. dayNumber(2021, 12, 31) : yearOf(day) = 2021
    BY YearIs
  <1> HIDE DEF K
  <1> QED
    BY <1>1, <1>4, <1>5 DEF HolidaysRight, isTradingDay

LEMMA ClosingsOf2022 ==
    HolidaysRight(2022, Published(2022))
  <1> DEFINE K == {dayNumber(2022, 1, 17), dayNumber(2022, 2, 21), dayNumber(2022, 4, 15),
                    dayNumber(2022, 5, 30), dayNumber(2022, 7, 4), dayNumber(2022, 9, 5),
                    dayNumber(2022, 11, 24), dayNumber(2022, 12, 26), dayNumber(2022, 6, 20)}
  <1>1. Published(2022) = K
    BY DEF Published
  <1>2. /\ observed(2022, 1, 1) = dayNumber(2022, 12, 31)
        /\ observed(2022, 7, 4) = dayNumber(2022, 7, 4)
        /\ observed(2022, 12, 25) = dayNumber(2022, 12, 26)
        /\ observed(2022, 6, 19) = dayNumber(2022, 6, 20)
    BY SMT, ObservedIs DEF weekdayOf, Weekend, dayNumber, MarchYear
  <1>3. /\ nthWeekday(2022, 1, 1, 3) = dayNumber(2022, 1, 17)
        /\ nthWeekday(2022, 2, 1, 3) = dayNumber(2022, 2, 21)
        /\ easterSunday(2022) - 2 = dayNumber(2022, 4, 15)
        /\ lastWeekday(2022, 5, 1) = dayNumber(2022, 5, 30)
        /\ nthWeekday(2022, 9, 1, 1) = dayNumber(2022, 9, 5)
        /\ nthWeekday(2022, 11, 4, 4) = dayNumber(2022, 11, 24)
    BY SMT DEF nthWeekday, lastWeekday, easterSunday, weekdayOf, dayNumber, MarchYear
  <1>4. holidaysForYear(2022) = K \cup {dayNumber(2022, 12, 31)}
    BY <1>2, <1>3 DEF holidaysForYear
  <1>5. weekdayOf(dayNumber(2022, 12, 31)) \in Weekend
    BY SMT DEF weekdayOf, dayNumber, MarchYear, Weekend
  <1>6. \A day \in dayNumber(2022, 1, 1) .. dayNumber(2022, 12, 31) : yearOf(day) = 2022
    BY YearIs
  <1> HIDE DEF K
  <1> QED
    BY <1>1, <1>4, <1>5, <1>6 DEF HolidaysRight, isTradingDay

LEMMA ClosingsOf2023 ==
    HolidaysRight(2023, Published(2023))
  <1> DEFINE K == {dayNumber(2023, 1, 2), dayNumber(2023, 1, 16), dayNumber(2023, 2, 20),
                    dayNumber(2023, 4, 7), dayNumber(2023, 5, 29), dayNumber(2023, 7, 4),
                    dayNumber(2023, 9, 4), dayNumber(2023, 11, 23), dayNumber(2023, 12, 25),
                    dayNumber(2023, 6, 19)}
  <1>1. Published(2023) = K
    BY DEF Published
  <1>2. /\ observed(2023, 1, 1) = dayNumber(2023, 1, 2)
        /\ observed(2023, 7, 4) = dayNumber(2023, 7, 4)
        /\ observed(2023, 12, 25) = dayNumber(2023, 12, 25)
        /\ observed(2023, 6, 19) = dayNumber(2023, 6, 19)
    BY SMT, ObservedIs DEF weekdayOf, Weekend, dayNumber, MarchYear
  <1>3. /\ nthWeekday(2023, 1, 1, 3) = dayNumber(2023, 1, 16)
        /\ nthWeekday(2023, 2, 1, 3) = dayNumber(2023, 2, 20)
        /\ easterSunday(2023) - 2 = dayNumber(2023, 4, 7)
        /\ lastWeekday(2023, 5, 1) = dayNumber(2023, 5, 29)
        /\ nthWeekday(2023, 9, 1, 1) = dayNumber(2023, 9, 4)
        /\ nthWeekday(2023, 11, 4, 4) = dayNumber(2023, 11, 23)
    BY SMT DEF nthWeekday, lastWeekday, easterSunday, weekdayOf, dayNumber, MarchYear
  <1>4. holidaysForYear(2023) = K
    BY <1>2, <1>3 DEF holidaysForYear
  <1>5. \A day \in dayNumber(2023, 1, 1) .. dayNumber(2023, 12, 31) : yearOf(day) = 2023
    BY YearIs
  <1> HIDE DEF K
  <1> QED
    BY <1>1, <1>4, <1>5 DEF HolidaysRight, isTradingDay

LEMMA ClosingsOf2024 ==
    HolidaysRight(2024, Published(2024))
  <1> DEFINE K == {dayNumber(2024, 1, 1), dayNumber(2024, 1, 15), dayNumber(2024, 2, 19),
                    dayNumber(2024, 3, 29), dayNumber(2024, 5, 27), dayNumber(2024, 7, 4),
                    dayNumber(2024, 9, 2), dayNumber(2024, 11, 28), dayNumber(2024, 12, 25),
                    dayNumber(2024, 6, 19)}
  <1>1. Published(2024) = K
    BY DEF Published
  <1>2. /\ observed(2024, 1, 1) = dayNumber(2024, 1, 1)
        /\ observed(2024, 7, 4) = dayNumber(2024, 7, 4)
        /\ observed(2024, 12, 25) = dayNumber(2024, 12, 25)
        /\ observed(2024, 6, 19) = dayNumber(2024, 6, 19)
    BY SMT, ObservedIs DEF weekdayOf, Weekend, dayNumber, MarchYear
  <1>3. /\ nthWeekday(2024, 1, 1, 3) = dayNumber(2024, 1, 15)
        /\ nthWeekday(2024, 2, 1, 3) = dayNumber(2024, 2, 19)
        /\ easterSunday(2024) - 2 = dayNumber(2024, 3, 29)
        /\ lastWeekday(2024, 5, 1) = dayNumber(2024, 5, 27)
        /\ nthWeekday(2024, 9, 1, 1) = dayNumber(2024, 9, 2)
        /\ nthWeekday(2024, 11, 4, 4) = dayNumber(2024, 11, 28)
    BY SMT DEF nthWeekday, lastWeekday, easterSunday, weekdayOf, dayNumber, MarchYear
  <1>4. holidaysForYear(2024) = K
    BY <1>2, <1>3 DEF holidaysForYear
  <1>5. \A day \in dayNumber(2024, 1, 1) .. dayNumber(2024, 12, 31) : yearOf(day) = 2024
    BY YearIs
  <1> HIDE DEF K
  <1> QED
    BY <1>1, <1>4, <1>5 DEF HolidaysRight, isTradingDay

----------------------------------------------------------------------------
(* One verdict on what is due, and what the headline says of it. *)

\* A quote is of a session that had begun when it was pulled.
Quotes ==
    {q \in [valueDate : Int, live : BOOLEAN, late : BOOLEAN, at : Int, priced : BOOLEAN] :
        q # NoQuote => q.at >= sessionOpen(q.valueDate)}

\* The cache, the tap and the list agree on one symbol.
LEMMA VerdictRight ==
    ASSUME NEW m \in Moments, NEW x, x = Context(m), 7 * DayMinutes <= ClosedTtl,
           NEW e, e.market \in BOOLEAN, e.quote \in Quotes
    PROVE  OneVerdict(e, x)
  <1> DEFINE q == e.quote
  <1>1. /\ x.now \in Int /\ x.nextClose \in Int /\ x.now < x.nextClose /\ x.open \in BOOLEAN
        /\ x.settled \in Int /\ x.published \in Int
    BY ContextFits
  <1>1a. x.now - sessionOpen(x.settled) < ClosedTtl
    <2>1. x.now = m.day * 1440 + m.minutes /\ m.day \in Int /\ m.minutes \in Int /\ m.minutes < 1440
      BY ClockOfMoment DEF Context
    <2>2. m.day - 6 <= x.settled /\ sessionOpen(x.settled) = x.settled * 1440 + 570
      BY <1>1, ContextFits, ClockOfDay
    <2>3. 10080 <= ClosedTtl /\ ClosedTtl \in Int
      BY StalenessAssumption DEF DayMinutes
    <2> DEFINE settled == x.settled
               day == m.day
               minutes == m.minutes
    <2>4. settled \in Int /\ day \in Int /\ minutes \in Int /\ minutes < 1440 /\ day - 6 <= settled
      BY <1>1, <2>1, <2>2
    <2>5. x.now - sessionOpen(x.settled) = (day * 1440 + minutes) - (settled * 1440 + 570)
      BY <2>1, <2>2
    <2> HIDE DEF settled, day, minutes
    <2>6. (day * 1440 + minutes) - (settled * 1440 + 570) < 10080
      BY SMT, <2>4
    <2>7. (day * 1440 + minutes) - (settled * 1440 + 570) \in Int
      BY SMT, <2>4
    <2> QED
      BY <2>3, <2>5, <2>6, <2>7
  <1>2. CASE q = NoQuote
    <2>1. ~servedFromCache(e, x) /\ ~holdsSettledClose(q, x.settled) /\ ~holdsNav(q, x.published)
      BY <1>2 DEF servedFromCache, holdsSettledClose, holdsNav
    <2> QED
      BY <1>2, <2>1 DEF OneVerdict, forceFetch, staleFetch
  <1>3. CASE q # NoQuote
    <2> DEFINE age == x.now - q.at
               close == holdsSettledClose(q, x.settled)
               nav == holdsNav(q, x.published)
    <2>1. q.at \in Int /\ q.valueDate \in Int /\ q.at >= sessionOpen(q.valueDate)
      BY <1>3 DEF Quotes
    <2>2. age \in Int /\ Interval \in Nat \ {0} /\ ClosedTtl \in Nat
      BY <1>1, <2>1, StalenessAssumption
    <2>3. close /\ ~x.open => age < ClosedTtl
      <3>1. SUFFICES ASSUME close, ~x.open PROVE age < ClosedTtl
        OBVIOUS
      <3>2. q.valueDate >= x.settled
        BY <3>1 DEF holdsSettledClose
      <3>3. sessionOpen(x.settled) \in Int /\ sessionOpen(q.valueDate) >= sessionOpen(x.settled)
            /\ sessionOpen(q.valueDate) \in Int
        BY <1>1, <2>1, <3>2 DEF sessionOpen, Instant, OpenMinutes, DayMinutes
      <3> QED
        BY <1>1, <1>1a, <2>1, <2>2, <3>3
    <2>4. x.now - q.at < x.nextClose - q.at
      BY <1>1, <2>1
    <2> DEFINE served == servedFromCache(e, x)
               old == age >= Interval
    <2>5. age < Interval <=> ~old
      BY <2>2
    <2>6. e.market => (served <=> ((~x.open /\ close) \/ ~old))
      <3>1. CASE ~x.open /\ close
        BY <1>3, <2>3, <3>1 DEF servedFromCache, cacheTtl, marketCacheTtl
      <3>2. CASE ~(~x.open /\ close)
        BY <1>3, <2>5, <3>2 DEF servedFromCache, cacheTtl, marketCacheTtl
      <3> QED
        BY <3>1, <3>2
    <2>7. ~e.market => (served <=> (x.open \/ nav \/ ~old))
      <3>1. CASE x.open \/ nav
        BY <1>3, <2>4, <3>1 DEF servedFromCache, cacheTtl, navCacheTtl
      <3>2. CASE ~(x.open \/ nav)
        BY <1>3, <2>5, <3>2 DEF servedFromCache, cacheTtl, navCacheTtl
      <3> QED
        BY <3>1, <3>2
    <2>8. /\ e.market => (staleFetch(e, x) <=> x.open \/ ~close)
          /\ ~e.market => (staleFetch(e, x) <=> x.open \/ ~nav)
          /\ e.market => (forceFetch(e, x, TRUE, FALSE, FALSE) <=> x.open \/ ~close)
          /\ ~e.market => (forceFetch(e, x, TRUE, FALSE, FALSE) <=> ~x.open /\ ~nav)
      BY DEF staleFetch, forceFetch
    <2>9. OneVerdict(e, x) <=>
            LET due == old /\ IF x.open THEN e.market ELSE staleFetch(e, x)
            IN  /\ due <=> ~served
                /\ ~x.open => (forceFetch(e, x, TRUE, FALSE, FALSE) <=> staleFetch(e, x))
                /\ x.open => (forceFetch(e, x, TRUE, FALSE, FALSE) <=> e.market)
      <3> HIDE DEF served
      <3> QED
        BY <1>3 DEF OneVerdict, served
    <2> HIDE DEF served, old, close, nav
    <2> QED
      BY <1>1, <2>6, <2>7, <2>8, <2>9
  <1> QED
    BY <1>2, <1>3

IsPainted(painted) ==
    /\ IsFiniteSet(DOMAIN painted)
    /\ \A s \in DOMAIN painted : painted[s] \in [market : BOOLEAN, quote : Quotes, list : Touched \cup {"none"}]

\* The headline over one book.
LEMMA HeadlineRight ==
    ASSUME NEW m \in Moments, NEW x, x = Context(m),
           NEW painted, IsPainted(painted), NEW window, NEW burst
    PROVE  HeadlineTrue(painted, x, window, burst)
  <1> DEFINE book == {[market |-> painted[s].market, quote |-> painted[s].quote] : s \in DOMAIN painted}
             report == bookCoverageReport(painted)
             f == buildCoverageFacts(report, x, window, burst, FALSE, "none")
             shown == DOMAIN painted
             market == {s \in shown : painted[s].market}
             nav == shown \ market
             close == {s \in market : holdsSettledClose(painted[s].quote, x.settled)}
             awaiting == {s \in nav : ~holdsNav(painted[s].quote, x.settled)}
  <1> SUFFICES ASSUME book # {}
               PROVE  /\ summarizeCoverage(f).headline = "closed, up to date" <=> fullyUpToDate(book, x)
                      /\ fullyUpToDate(book, x) =>
                           \A e \in book : ~staleFetch(e, x) /\ holdingCoversLatestClose(e.quote, x, FALSE, TRUE)
    BY DEF HeadlineTrue
  <1>1. /\ x.open \in BOOLEAN /\ x.settled \in Int /\ x.published \in Int /\ x.published <= x.settled
    BY ContextFits
  <1>2. /\ DOMAIN report = shown
        /\ \A s \in shown : /\ report[s].market = painted[s].market /\ report[s].quote = painted[s].quote
                            /\ report[s].list \in Touched
    <2>1. DOMAIN report = shown
      BY DEF bookCoverageReport
    <2>2. ASSUME NEW s \in shown
          PROVE  /\ report[s].market = painted[s].market /\ report[s].quote = painted[s].quote
                 /\ report[s].list \in Touched
      <3> DEFINE p == painted[s]
      <3>1. p \in [market : BOOLEAN, quote : Quotes, list : Touched \cup {"none"}]
        BY DEF IsPainted
      <3>2. report[s] = IF p.list = "none" THEN [p EXCEPT !.list = "servedFresh"] ELSE p
        BY DEF bookCoverageReport
      <3> HIDE DEF report, p
      <3>3. CASE p.list = "none"
        <4>1. "servedFresh" \in Touched
          BY DEF Touched
        <4> QED
          BY <3>1, <3>2, <3>3, <4>1 DEF p
      <3>4. CASE p.list # "none"
        BY <3>1, <3>2, <3>4 DEF p
      <3> QED
        BY <3>3, <3>4
    <2> QED
      BY <2>1, <2>2
  <1> HIDE DEF report
  <1>3. /\ f.marketOpen = x.open /\ f.error = FALSE /\ f.marketTotal = Cardinality(market)
        /\ f.marketAtClose = Cardinality(close) /\ f.navTotal = Cardinality(nav)
        /\ f.navAwaiting = Cardinality(awaiting)
    <2>1. {s \in DOMAIN report : report[s].list \in Touched} = shown
      BY <1>2
    <2>2. {s \in shown : report[s].market} = market
      BY <1>2
    <2>3. {s \in market : holdsSettledClose(report[s].quote, x.settled)} = close
      BY <1>2
    <2>4. {s \in nav : behindSettled(report[s].quote, x)} = awaiting
      BY <1>2 DEF behindSettled
    <2> QED
      BY <2>1, <2>2, <2>3, <2>4 DEF buildCoverageFacts
  <1>4. shown # {} /\ IsFiniteSet(shown)
    BY DEF IsPainted
  <1>5. /\ IsFiniteSet(market) /\ IsFiniteSet(nav) /\ IsFiniteSet(close) /\ IsFiniteSet(awaiting)
        /\ close \subseteq market /\ market \cup nav = shown
    BY <1>4, FS_Subset
  <1>6. /\ Cardinality(market) \in Nat /\ Cardinality(nav) \in Nat
        /\ Cardinality(market) = 0 <=> market = {}
        /\ Cardinality(nav) = 0 <=> nav = {}
        /\ Cardinality(awaiting) = 0 <=> awaiting = {}
        /\ Cardinality(close) = Cardinality(market) <=> close = market
    <2> HIDE DEF market, nav, close, awaiting
    <2> QED
      BY <1>5, FS_CardinalityType, FS_EmptySet, FS_Subset
  <1> DEFINE says == summarizeCoverage(f).headline = "closed, up to date"
             held == \A s \in shown : IF painted[s].market THEN holdsSettledClose(painted[s].quote, x.settled)
                                      ELSE holdsNav(painted[s].quote, x.settled)
  <1>7. says <=> ~x.open /\ close = market /\ awaiting = {}
    <2> HIDE DEF f, market, nav, close, awaiting
    <2>1. f.marketTotal + f.navTotal > 0
      BY <1>3, <1>4, <1>5, <1>6
    <2>2. says <=> ~f.marketOpen /\ f.marketAtClose = f.marketTotal /\ f.navAwaiting = 0
      BY <1>3, <2>1 DEF summarizeCoverage
    <2> QED
      BY <1>3, <1>6, <2>2
  <1>8. close = market /\ awaiting = {} <=> held
    BY <1>4 DEF IsPainted
  <1>9. fullyUpToDate(book, x) <=> ~x.open /\ held
    <2>1. marketDataOutdated(book, x) <=>
            \E s \in shown : painted[s].market /\ ~holdsSettledClose(painted[s].quote, x.settled)
      <3>1. ASSUME NEW e \in book, e.market, ~holdsSettledClose(e.quote, x.settled)
            PROVE  \E s \in shown : painted[s].market /\ ~holdsSettledClose(painted[s].quote, x.settled)
        <4>1. PICK s \in shown : e = [market |-> painted[s].market, quote |-> painted[s].quote]
          OBVIOUS
        <4> QED
          BY <3>1, <4>1
      <3>2. ASSUME NEW s \in shown, painted[s].market, ~holdsSettledClose(painted[s].quote, x.settled)
            PROVE  \E e \in book : e.market /\ ~holdsSettledClose(e.quote, x.settled)
        <4> DEFINE e == [market |-> painted[s].market, quote |-> painted[s].quote]
        <4>1. e \in book /\ e.market = painted[s].market /\ e.quote = painted[s].quote
          OBVIOUS
        <4> HIDE DEF e, book
        <4> QED
          BY <3>2, <4>1
      <3> HIDE DEF book
      <3> QED
        BY <3>1, <3>2 DEF marketDataOutdated
    <2>2. navOutstanding(book, x) <=> \E s \in shown : ~painted[s].market /\ ~holdsNav(painted[s].quote, x.settled)
      <3>1. ASSUME NEW e \in book, ~e.market, ~holdsNav(e.quote, x.settled)
            PROVE  \E s \in shown : ~painted[s].market /\ ~holdsNav(painted[s].quote, x.settled)
        <4>1. PICK s \in shown : e = [market |-> painted[s].market, quote |-> painted[s].quote]
          OBVIOUS
        <4> QED
          BY <3>1, <4>1
      <3>2. ASSUME NEW s \in shown, ~painted[s].market, ~holdsNav(painted[s].quote, x.settled)
            PROVE  \E e \in book : ~e.market /\ ~holdsNav(e.quote, x.settled)
        <4> DEFINE e == [market |-> painted[s].market, quote |-> painted[s].quote]
        <4>1. e \in book /\ e.market = painted[s].market /\ e.quote = painted[s].quote
          OBVIOUS
        <4> HIDE DEF e, book
        <4> QED
          BY <3>2, <4>1
      <3> HIDE DEF book
      <3> QED
        BY <3>1, <3>2 DEF navOutstanding
    <2>3. fullyUpToDate(book, x) <=> ~x.open /\ ~navOutstanding(book, x) /\ ~marketDataOutdated(book, x)
      BY DEF fullyUpToDate, currentRefreshPhase
    <2> QED
      BY <2>1, <2>2, <2>3 DEF IsPainted
  <1>10. ASSUME held, ~x.open, NEW e \in book
         PROVE  ~staleFetch(e, x) /\ holdingCoversLatestClose(e.quote, x, FALSE, TRUE)
    <2>1. PICK s \in shown : e = [market |-> painted[s].market, quote |-> painted[s].quote]
      OBVIOUS
    <2>2. e.market = painted[s].market /\ e.quote = painted[s].quote /\ e.quote \in Quotes
      BY <2>1 DEF IsPainted
    <2>3. e.quote.valueDate \in Int
      BY <2>2 DEF Quotes
    <2>4. IF e.market THEN holdsSettledClose(e.quote, x.settled) ELSE holdsNav(e.quote, x.settled)
      BY <1>10, <2>2
    <2>5. e.quote # NoQuote /\ e.quote.valueDate >= x.settled
      BY <2>4 DEF holdsSettledClose, holdsNav
    <2>6. e.quote.valueDate >= x.published
      BY <1>1, <2>3, <2>5
    <2> QED
      BY <1>10, <2>4, <2>5, <2>6 DEF staleFetch, holdingCoversLatestClose, holdsNav
  <1> HIDE DEF book, f, market, close, awaiting, held
  <1> QED
    BY <1>7, <1>8, <1>9, <1>10 DEF says

----------------------------------------------------------------------------
(* The plan of a pull. *)
Kinds == {"auto", "start", "manual", "reset"}
PullInputs ==
    [open : BOOLEAN, sinceOpen : Nat, interval : Nat, dataAge : Nat, quoteAge : Nat, fxAge : Nat, missing : Nat,
     blobDays : Nat, navHeld : BOOLEAN, anchorMissing : BOOLEAN, barAge : Nat \cup {None}]

LEMMA WindowOfLegs ==
    ASSUME NEW l \in Legs, NEW n \in Int
    PROVE  /\ setBarWindow(l, n) \in Legs
           /\ setBarWindow(l, n).quotes = l.quotes /\ setBarWindow(l, n).nav = l.nav
           /\ setBarWindow(l, n).fx = l.fx /\ setBarWindow(l, n).fxBars = l.fxBars
           /\ setBarWindow(l, n).bars = Larger(0, Smaller(n, FullWeek))
  BY PlansAssumption DEF setBarWindow, Legs, Larger, Smaller

LEMMA LegsOfNothing == noLegs \in Legs /\ allLegs \in Legs
  BY PlansAssumption DEF noLegs, allLegs, Legs

LEMMA Graded ==
    ASSUME NEW i \in PullInputs
    PROVE  LET l == gradedPull(i).legs
           IN  /\ l \in Legs
               /\ i.dataAge > i.interval => /\ i.open => l.quotes
                                            /\ ~i.open /\ ~i.navHeld => l.nav
                                            /\ l.fx
  <1> DEFINE prices == [noLegs EXCEPT !.quotes = TRUE, !.fx = TRUE]
             w == [prices EXCEPT !.nav = ~i.open /\ ~i.navHeld]
             n == IF i.open /\ i.sinceOpen < Warmup THEN 0 ELSE 1
             g == setBarWindow(w, n)
             s == IF i.open THEN prices ELSE [prices EXCEPT !.quotes = FALSE, !.nav = ~i.navHeld]
             l == gradedPull(i).legs
  <1>1. /\ w \in Legs /\ w.quotes /\ w.fx /\ w.nav = (~i.open /\ ~i.navHeld)
        /\ s \in Legs /\ s.quotes = i.open /\ s.fx /\ (~i.open => s.nav = ~i.navHeld)
    BY LegsOfNothing DEF PullInputs, Legs, noLegs
  <1>2. g \in Legs /\ g.quotes /\ g.fx /\ g.nav = (~i.open /\ ~i.navHeld)
    <2>1. n \in Int
      OBVIOUS
    <2> HIDE DEF w, n
    <2> QED
      BY <1>1, <2>1, WindowOfLegs
  <1>3. /\ allLegs \in Legs /\ allLegs.quotes /\ allLegs.fx /\ allLegs.nav
        /\ noLegs \in Legs
    BY LegsOfNothing DEF allLegs
  <1>4. \/ l = allLegs \/ l = g \/ l = s
        \/ l = noLegs /\ ~(i.dataAge > i.interval)
    BY DEF gradedPull
  <1> HIDE DEF g, s, l
  <1>5. /\ l \in Legs
        /\ i.dataAge > i.interval => /\ i.open => l.quotes
                                     /\ ~i.open /\ ~i.navHeld => l.nav
                                     /\ l.fx
    BY <1>1, <1>2, <1>3, <1>4
  <1> QED
    BY <1>5 DEF l

\* Bars only replace the quotes of an open market, and only stale ones are pulled.
LEMMA BarsReplaceQuotes ==
    ASSUME NEW i \in PullInputs, NEW l \in Legs, NEW scheduled \in BOOLEAN
    PROVE  LET b == Barred(l, scheduled, i)
           IN  /\ b \in Legs /\ b.nav = l.nav /\ b.fx = l.fx /\ b.fxBars = l.fxBars
               /\ l.quotes => b.quotes \/ b.bars > 0
               /\ b.quotes => l.quotes
               /\ i.open /\ scheduled /\ barStalenessPromotionDue(i) => ~(b.quotes /\ b.bars = 1)
  <1> DEFINE b == Barred(l, scheduled, i)
             off == setBarWindow(l, 0)
             more == setBarWindow(l, Larger(1, l.bars))
             on == [more EXCEPT !.quotes = @ /\ l.bars > 1]
  <1>1. l.bars \in 0 .. FullWeek /\ l.quotes \in BOOLEAN
    BY DEF Legs
  <1>2. /\ off \in Legs /\ off.nav = l.nav /\ off.fx = l.fx /\ off.fxBars = l.fxBars /\ off.quotes = l.quotes
    BY WindowOfLegs
  <1>3. /\ more \in Legs /\ more.nav = l.nav /\ more.fx = l.fx /\ more.fxBars = l.fxBars /\ more.quotes = l.quotes
        /\ more.bars = Larger(1, l.bars)
    <2>1. Larger(1, l.bars) \in Int /\ Larger(0, Smaller(Larger(1, l.bars), FullWeek)) = Larger(1, l.bars)
      BY <1>1, PlansAssumption DEF Larger, Smaller
    <2> QED
      BY <2>1, WindowOfLegs
  <1>4. /\ on \in Legs /\ on.nav = l.nav /\ on.fx = l.fx /\ on.fxBars = l.fxBars
        /\ on.quotes = (l.quotes /\ l.bars > 1) /\ on.bars = Larger(1, l.bars)
    <2> HIDE DEF more
    <2> QED
      BY <1>3 DEF Legs
  <1>5. \/ b = l /\ (~i.open \/ ~scheduled \/ ~barStalenessPromotionDue(i))
        \/ b = off /\ ~barStalenessPromotionDue(i)
        \/ b = on
    BY DEF Barred
  <1> HIDE DEF off, on, b
  <1>6. CASE b = l /\ (~i.open \/ ~scheduled \/ ~barStalenessPromotionDue(i))
    BY <1>6 DEF b
  <1>7. CASE b = off /\ ~barStalenessPromotionDue(i)
    BY <1>2, <1>7 DEF b
  <1>8. CASE b = on
    <2>1. on.bars > 0 /\ (on.bars = 1 => ~(l.bars > 1))
      BY <1>1, <1>4 DEF Larger
    <2> QED
      BY <1>4, <1>8, <2>1 DEF b
  <1> QED
    BY <1>5, <1>6, <1>7, <1>8

\* Whatever kind of pull is asked for and however old the data is, nothing starves and
\* nothing is paid for twice (data-orchestrator.ts planPull).
\* What is older than the interval is in the plan, and nothing is paid for twice.
LEMMA PullSound ==
    ASSUME NEW kind \in Kinds, NEW i \in PullInputs
    PROVE  NothingStarves(kind, i) /\ NothingTwice(kind, i)
  <1>1. CASE kind = "reset"
    BY <1>1 DEF NothingStarves, NothingTwice, planPull, allLegs
  <1>2. CASE kind # "reset"
    <2> DEFINE graded == gradedPull(i)
               manual == kind = "manual"
               t == IF manual THEN Tapped(graded.legs, i) ELSE graded.legs
               b == Barred(t, ~manual, i)
               l == planPull(kind, i).legs
    <2>1. /\ graded.legs \in Legs
          /\ i.dataAge > i.interval => /\ i.open => graded.legs.quotes
                                       /\ ~i.open /\ ~i.navHeld => graded.legs.nav
                                       /\ graded.legs.fx
      BY Graded
    <2>2. /\ t \in Legs /\ (graded.legs.quotes => t.quotes) /\ (graded.legs.nav => t.nav)
          /\ (t.fx = graded.legs.fx)
      <3> HIDE DEF graded
      <3> QED
        BY <2>1 DEF Tapped, Legs, PullInputs
    <2>3. /\ b \in Legs /\ b.nav = t.nav /\ b.fx = t.fx /\ b.fxBars = t.fxBars
          /\ t.quotes => b.quotes \/ b.bars > 0
          /\ b.quotes => t.quotes
          /\ i.open /\ ~manual /\ barStalenessPromotionDue(i) => ~(b.quotes /\ b.bars = 1)
      <3>1. (~manual) \in BOOLEAN
        OBVIOUS
      <3> HIDE DEF t, manual
      <3> QED
        BY <2>2, <3>1, BarsReplaceQuotes
    <2>4. l = Unheld(b, manual, i)
      <3>1. [graded EXCEPT !.legs = Unheld(b, manual, i)].legs = Unheld(b, manual, i)
        BY DEF gradedPull
      <3> QED
        BY <1>2, <3>1 DEF planPull
    <2> HIDE DEF graded, t, b
    <2>5. /\ l.quotes = (b.quotes /\ (manual \/ i.quoteAge >= i.interval)) /\ l.bars = b.bars /\ l.nav = b.nav
          /\ l.fx = (manual \/ (b.fx /\ i.fxAge >= i.interval))
      BY <2>3, <2>4 DEF Unheld, Legs
    <2> HIDE DEF l
    <2>6. /\ i.quoteAge > i.interval => i.quoteAge >= i.interval
          /\ i.fxAge > i.interval => i.fxAge >= i.interval
          /\ i.quoteAge < i.interval => ~(i.quoteAge >= i.interval)
          /\ i.fxAge < i.interval => ~(i.fxAge >= i.interval)
      BY DEF PullInputs
    <2>7. ASSUME i.dataAge > i.interval
          PROVE  /\ i.open /\ i.quoteAge > i.interval => l.quotes \/ l.bars > 0
                 /\ ~i.open /\ ~i.navHeld => l.nav
                 /\ i.fxAge > i.interval => l.fx
      <3>1. (i.open => b.quotes \/ b.bars > 0) /\ (~i.open /\ ~i.navHeld => b.nav) /\ b.fx
        BY <2>1, <2>2, <2>3, <2>7
      <3> QED
        BY <2>5, <2>6, <3>1
    <2>8. ASSUME ~manual
          PROVE  /\ i.quoteAge < i.interval => ~l.quotes
                 /\ i.fxAge < i.interval => ~l.fx
                 /\ i.open /\ barStalenessPromotionDue(i) => ~(l.quotes /\ l.bars = 1)
      BY <2>3, <2>5, <2>6, <2>8
    <2>9. kind \in {"auto", "start"} => ~manual
      OBVIOUS
    <2> HIDE DEF manual
    <2>10. NothingStarves(kind, i)
      BY <2>7 DEF NothingStarves, l
    <2>11. NothingTwice(kind, i)
      BY <2>8, <2>9 DEF NothingTwice, l
    <2> QED
      BY <2>10, <2>11
  <1> QED
    BY <1>1, <1>2

----------------------------------------------------------------------------
(* The delays between rounds. *)
DelayInputs ==
    {d \in [spends : SUBSET Int, now : Nat, window : Nat, floor : Nat, at : Nat \cup {None}, interval : Nat,
            left : Nat, limit : Nat \ {0}] : IsFiniteSet(d.spends)}

\* The relief is the first moment a spend leaves the minute's window, or the floor.
LEMMA ReliefSound ==
    ASSUME NEW d \in DelayInputs
    PROVE  LET relief == minuteBudgetRelief(d.spends, d.now, d.window, d.floor)
               InWindow(t) == {s \in d.spends : t - s < d.window}
           IN  relief # None => /\ InWindow(d.now + relief) # InWindow(d.now)
                                /\ relief > d.floor => InWindow(d.now + relief - 1) = InWindow(d.now)
  <1> DEFINE InWindow(t) == {s \in d.spends : t - s < d.window}
             W == InWindow(d.now)
             relief == minuteBudgetRelief(d.spends, d.now, d.window, d.floor)
  <1>1. d.spends \in SUBSET Int /\ IsFiniteSet(d.spends) /\ d.now \in Nat /\ d.window \in Nat /\ d.floor \in Nat
    BY DEF DelayInputs
  <1> SUFFICES ASSUME relief # None
               PROVE  /\ InWindow(d.now + relief) # W
                      /\ relief > d.floor => InWindow(d.now + relief - 1) = W
    OBVIOUS
  <1>2. W # {} /\ relief = Larger(Min(W) + d.window - d.now, d.floor)
    BY DEF minuteBudgetRelief
  <1>3. Min(W) \in W /\ \A y \in W : Min(W) <= y
    <2>1. IsFiniteSet(W) /\ \A s \in W : s \in Int
      BY <1>1, FS_Subset
    <2> HIDE DEF W
    <2> QED
      BY <1>2, <2>1, SmallestOf
  <1> DEFINE first == Min(W)
  <1>4. first \in d.spends /\ first \in Int /\ d.now - first < d.window /\ \A y \in W : first <= y
    BY <1>1, <1>3
  <1>5. /\ relief \in Int /\ relief >= d.floor /\ relief >= first + d.window - d.now
        /\ relief > d.floor => relief = first + d.window - d.now
    <2> HIDE DEF relief, W
    <2> QED
      BY <1>1, <1>2, <1>4 DEF Larger
  <1>6. first \notin InWindow(d.now + relief)
    <2> HIDE DEF relief, first
    <2> QED
      BY <1>1, <1>4, <1>5
  <1>7. ASSUME relief > d.floor PROVE InWindow(d.now + relief - 1) = W
    <2> DEFINE r == relief
    <2> HIDE DEF r
    <2>1. r \in Int /\ r > 0 /\ r = first + d.window - d.now
      BY <1>1, <1>5, <1>7 DEF r
    <2> DEFINE t == d.now + r - 1
    <2>2. \A s \in d.spends : t - s < d.window <=> d.now - s < d.window
      <3>1. SUFFICES ASSUME NEW s \in d.spends PROVE t - s < d.window <=> d.now - s < d.window
        OBVIOUS
      <3>2. s \in Int /\ (d.now - s < d.window => first <= s)
        BY <1>1, <1>4
      <3> HIDE DEF first
      <3> QED
        BY <1>1, <1>4, <2>1, <3>2
    <2>3. InWindow(t) = W
      <3> HIDE DEF t
      <3> QED
        BY <2>2
    <2> QED
      BY <2>3 DEF r
  <1> QED
    BY <1>3, <1>6, <1>7

\* Nothing is used up, or a part of the limit.
LEMMA Rounded ==
    ASSUME NEW limit \in Nat \ {0}, NEW a \in Nat, NEW i \in Nat, i * limit <= a, a <= (8 * i) * limit
    PROVE  (2 * a + limit) \div (2 * limit) \in i .. 8 * i
  <1> DEFINE q == (2 * a + limit) \div (2 * limit)
             D == 2 * limit
             N == 2 * a + limit
  <1>1. D \in Nat \ {0} /\ N \in Nat
    OBVIOUS
  <1>2. q \in Nat /\ D * q <= N /\ N <= D * q + (D - 1)
    <2> HIDE DEF D, N
    <2> QED
      BY <1>1, Quotient DEF D, N
  <1>3. D * q = limit * (2 * q) /\ limit * (2 * q) = 2 * (limit * q)
    <2>1. q \in Nat
      BY <1>2
    <2> HIDE DEF q
    <2> QED
      BY <2>1
  <1> HIDE DEF q
  <1> DEFINE p == limit * q
             e == i * limit
  <1>4. p \in Nat /\ e \in Nat /\ (8 * i) * limit = 8 * e
    BY <1>2
  <1>5. 2 * p <= 2 * a + limit /\ 2 * a + limit <= 2 * p + (2 * limit - 1)
    BY <1>2, <1>3
  <1>6. e <= a /\ a <= 8 * e
    BY <1>4
  <1> HIDE DEF p, e
  <1>7. 2 * e - limit + 1 <= 2 * p /\ 2 * p <= 16 * e + limit
    BY <1>4, <1>5, <1>6
  <1>8. limit * (2 * i - 1) <= limit * (2 * q) - 1 /\ limit * (2 * q) <= limit * (16 * i + 1)
    <2>1. limit * (2 * i - 1) = 2 * e - limit /\ limit * (2 * q) = 2 * p /\ limit * (16 * i + 1) = 16 * e + limit
      BY <1>2 DEF p, e
    <2> QED
      BY <1>4, <1>7, <2>1
  <1>9. 2 * i - 1 <= 2 * q /\ 2 * q <= 16 * i + 1
    <2> DEFINE x == 2 * i - 1
               y == 2 * q
               z == 16 * i + 1
    <2>1. x \in Int /\ y \in Int /\ z \in Int /\ limit * y \in Int
      BY <1>2
    <2>2. limit * x <= limit * y /\ limit * y <= limit * z
      <3>1. limit * x <= limit * y - 1 /\ limit * y <= limit * z
        BY <1>8
      <3>2. limit * x \in Int
        BY <2>1
      <3> HIDE DEF x, y, z
      <3> QED
        BY <2>1, <3>1, <3>2
    <2> HIDE DEF x, y, z
    <2>3. x <= y /\ y <= z
      BY <2>1, <2>2, Cancels
    <2> QED
      BY <2>3 DEF x, y, z
  <1>10. q \in i .. 8 * i
    BY <1>2, <1>9
  <1> QED
    BY <1>10 DEF q

LEMMA DivisionsGrow ==
    ASSUME NEW D \in Nat \ {0}, NEW a \in Nat, NEW b \in Nat, a <= b
    PROVE  a \div D <= b \div D
  <1> DEFINE p == a \div D
             q == b \div D
  <1>1. p \in Nat /\ D * p <= a /\ q \in Nat /\ b <= D * q + (D - 1)
    BY Quotient
  <1> HIDE DEF p, q
  <1>2. D * p <= D * q + (D - 1) /\ D * (q + 1) = D * q + D /\ D * p \in Nat /\ D * q \in Nat
    BY <1>1
  <1>3. CASE q + 1 <= p
    <2>1. D * (q + 1) <= D * p
      BY <1>1, <1>3
    <2> QED
      BY <1>2, <2>1
  <1> QED
    BY <1>1, <1>3 DEF p, q

\* Fewer credits never mean a shorter wait, and the wait is at most eight intervals.
LEMMA SlowdownSound ==
    ASSUME NEW left \in Nat, NEW limit \in Nat \ {0}, NEW i \in Nat
    PROVE  /\ dailyBudgetSlowdown(left, limit, i) \in i .. 8 * i
           /\ dailyBudgetSlowdown(left + 1, limit, i) <= dailyBudgetSlowdown(left, limit, i)
  <1> DEFINE used(l) == limit - Smaller(limit, Larger(l, 0))
             f(u) == limit + 7 * (4 * u - 3 * limit)
             n(u) == i * f(u)
             slow(u) == (2 * n(u) + limit) \div (2 * limit)
             Slow(u) == IF 4 * u <= 3 * limit THEN i ELSE slow(u)
             u == used(left)
             v == used(left + 1)
  <1>1. /\ dailyBudgetSlowdown(left, limit, i) = Slow(u)
        /\ dailyBudgetSlowdown(left + 1, limit, i) = Slow(v)
    BY DEF dailyBudgetSlowdown, None
  <1>2. u \in 0 .. limit /\ v \in 0 .. limit /\ v <= u
    BY DEF Smaller, Larger
  <1> HIDE DEF u, v
  <1>3. ASSUME NEW w \in 0 .. limit, 3 * limit < 4 * w
        PROVE  n(w) \in Nat /\ slow(w) \in i .. 8 * i
    <2>1. f(w) \in Nat /\ limit <= f(w) /\ f(w) <= 8 * limit
      BY <1>3
    <2>2. n(w) \in Nat /\ i * limit <= n(w) /\ n(w) <= i * (8 * limit)
      <3> HIDE DEF f
      <3> QED
        BY <2>1
    <2>3. i * (8 * limit) = (8 * i) * limit
      OBVIOUS
    <2> HIDE DEF n
    <2> QED
      BY <2>2, <2>3, Rounded
  <1>4. Slow(u) \in i .. 8 * i
    <2>1. CASE 4 * u <= 3 * limit
      BY <2>1
    <2>2. CASE 3 * limit < 4 * u
      BY <1>2, <1>3, <2>2
    <2> QED
      BY <1>2, <2>1, <2>2
  <1>5. Slow(v) <= Slow(u)
    <2>1. CASE 4 * v <= 3 * limit
      BY <1>4, <2>1
    <2>2. CASE 3 * limit < 4 * v
      <3>1. 3 * limit < 4 * u
        BY <1>2, <2>2
      <3>2. n(v) \in Nat /\ n(u) \in Nat
        BY <1>2, <1>3, <2>2, <3>1
      <3>3. n(v) <= n(u)
        <4>1. f(v) \in Int /\ f(u) \in Int /\ f(v) <= f(u)
          BY <1>2
        <4> HIDE DEF f
        <4> QED
          BY <4>1
      <3> HIDE DEF n
      <3>4. slow(v) <= slow(u)
        <4> DEFINE D == 2 * limit
                   a == 2 * n(v) + limit
                   b == 2 * n(u) + limit
        <4>1. D \in Nat \ {0} /\ a \in Nat /\ b \in Nat /\ a <= b
          BY <3>2, <3>3
        <4> HIDE DEF D, a, b
        <4>2. a \div D <= b \div D
          BY <4>1, DivisionsGrow
        <4> QED
          BY <4>2 DEF D, a, b
      <3> HIDE DEF slow
      <3> QED
        BY <1>2, <2>2, <3>1, <3>4
    <2> QED
      BY <1>2, <2>1, <2>2
  <1> HIDE DEF Slow
  <1> QED
    BY <1>1, <1>4, <1>5

\* The delays between rounds bring what they promise, whatever has been spent and
\* whatever is left (refresh-policy.ts).
\* The delays of one round.
LEMMA DelayRight == ASSUME NEW d \in DelayInputs PROVE DelaysSound(d)
  <1> DEFINE wait(left) == nextRefreshDelay(0, left, d.limit, d.interval, d.interval, 0)
             jump == jumpstartDelay(d.at, d.interval, d.now, d.floor)
  <1>1. /\ d.now \in Nat /\ d.floor \in Nat /\ d.interval \in Nat /\ d.left \in Nat /\ d.limit \in Nat \ {0}
        /\ d.at \in Nat \cup {None}
    BY DEF DelayInputs
  <1>2. wait(d.left + 1) <= wait(d.left) /\ wait(d.left) \in d.interval .. 8 * d.interval
    <2> DEFINE s(l) == dailyBudgetSlowdown(l, d.limit, d.interval)
    <2>1. s(d.left) \in d.interval .. 8 * d.interval /\ s(d.left + 1) <= s(d.left)
      BY <1>1, SlowdownSound
    <2>2. s(d.left + 1) \in d.interval .. 8 * d.interval
      <3>1. d.left + 1 \in Nat
        BY <1>1
      <3> QED
        BY <1>1, <3>1, SlowdownSound
    <2>3. wait(d.left) = s(d.left) + 0 /\ wait(d.left + 1) = s(d.left + 1) + 0
      BY DEF nextRefreshDelay
    <2> HIDE DEF s
    <2> QED
      BY <1>1, <2>1, <2>2, <2>3
  <1>3. jump # None => d.at + d.interval <= d.now + jump
    BY <1>1 DEF jumpstartDelay, Larger, None
  <1>4. d.interval >= d.floor /\ prefetchDebounceActive(d.at, d.now, d.interval, d.floor) => jump # None
    <2>1. (d.interval + 1) \div 2 <= d.interval
      BY <1>1
    <2> QED
      BY <1>1, <2>1 DEF jumpstartDelay, prefetchDebounceActive, Larger, None
  <1> HIDE DEF wait, jump
  <1> QED
    BY <1>2, <1>3, <1>4, ReliefSound DEF DelaysSound, wait, jump

----------------------------------------------------------------------------
(* The fan-out over the providers. *)
LEMMA Parted ==
    ASSUME NEW S, NEW s \in Seq(S), NEW n \in Int
    PROVE  /\ First(s, n) \in Seq(S) /\ After(s, n) \in Seq(S) /\ First(s, n) \o After(s, n) = s
           /\ Len(First(s, n)) = Lower(Len(s), Positive(n))
           /\ Len(After(s, n)) = Len(s) - Lower(Len(s), Positive(n))
           /\ \A i \in 1 .. Len(First(s, n)) : First(s, n)[i] = s[i]
  <1> DEFINE k == Lower(Len(s), Positive(n))
  <1>1. k \in 0 .. Len(s)
    BY LenProperties DEF Lower, Positive
  <1> HIDE DEF k
  <1>2. Len(s) \in Nat /\ \A i \in 1 .. Len(s) : s[i] \in S
    BY LenProperties, ElementOfSeq
  <1>3. /\ SubSeq(s, 1, k) \in Seq(S) /\ Len(SubSeq(s, 1, k)) = k
        /\ \A i \in 1 .. k : SubSeq(s, 1, k)[i] = s[i]
    <2>1. \A i \in 1 .. k : s[i] \in S
      BY <1>1, <1>2
    <2>2. /\ SubSeq(s, 1, k) \in Seq(S) /\ Len(SubSeq(s, 1, k)) = IF 1 <= k THEN k - 1 + 1 ELSE 0
          /\ \A i \in 1 .. k - 1 + 1 : SubSeq(s, 1, k)[i] = s[1 + i - 1]
      BY <1>1, <1>2, <2>1, SubSeqProperties
    <2> QED
      BY <1>1, <1>2, <2>2
  <1>4. SubSeq(s, k + 1, Len(s)) \in Seq(S) /\ Len(SubSeq(s, k + 1, Len(s))) = Len(s) - k
    <2>1. \A i \in k + 1 .. Len(s) : s[i] \in S
      BY <1>1, <1>2
    <2> DEFINE m == k + 1
               l == Len(s)
    <2>2. m \in Int /\ l \in Int /\ \A i \in m .. l : s[i] \in S
      BY <1>1, <1>2, <2>1
    <2> HIDE DEF m, l
    <2>3. SubSeq(s, m, l) \in Seq(S) /\ Len(SubSeq(s, m, l)) = IF m <= l THEN l - m + 1 ELSE 0
      BY <2>2, SubSeqProperties
    <2> QED
      BY <1>1, <1>2, <2>3 DEF m, l
  <1>5. SubSeq(s, 1, k) \o SubSeq(s, k + 1, Len(s)) = s
    <2>1. 1 \in 1 .. Len(s) + 1 /\ k \in 1 - 1 .. Len(s) /\ Len(s) \in k .. Len(s)
      BY <1>1, <1>2
    <2>2. SubSeq(s, 1, k) \o SubSeq(s, k + 1, Len(s)) = SubSeq(s, 1, Len(s))
      BY <2>1, ConcatAdjacentSubSeq
    <2> QED
      BY <2>2, SubSeqFull
  <1>6. First(s, n) = SubSeq(s, 1, k) /\ After(s, n) = SubSeq(s, k + 1, Len(s))
    BY DEF First, After, k
  <1> QED
    BY <1>3, <1>4, <1>5, <1>6 DEF k

\* Whatever is to be priced and whatever credits are left, each symbol has its place and no
\* provider more than it has credits for (provider-fanout.ts planFanout).
\* One fan-out: every symbol has one place, and no provider more than it can take.
LEMMA FanoutRight ==
    ASSUME NEW S, NEW market \in Seq(S), NEW funds_ \in Seq(S), NEW twelveData \in Int, NEW tiingo \in Int,
           NEW kind, NEW hasBackup, NEW threshold
    PROVE  FanoutSound(kind, market, funds_, twelveData, tiingo, hasBackup, threshold)
  <1> DEFINE sleeve == market \o funds_
             lead == Lower(Batch, Positive(twelveData))
             spills == hasBackup /\ (isPriorityPull(kind) \/ Len(sleeve) > threshold)
             second == IF spills THEN backupUsable(isPriorityPull(kind), tiingo) ELSE 0
             later == After(sleeve, lead)
             first == First(sleeve, lead)
             taken == First(later, second)
             left == After(later, second)
             p == planFanout(kind, market, funds_, twelveData, tiingo, hasBackup, threshold)
  <1>1. p = [twelveData |-> first, tiingo |-> taken, deferred |-> left, fannedOut |-> taken # <<>>]
    BY DEF planFanout
  <1>2. lead \in Nat /\ lead \in Int /\ lead <= Positive(twelveData)
    BY FanOutAssumption DEF Lower, Positive
  <1>3. /\ second \in Nat /\ second <= Positive(tiingo)
        /\ kind # "start" => second = 0 \/ second <= tiingo - Reserve
    <2>1. /\ backupUsable(TRUE, tiingo) \in Nat /\ backupUsable(TRUE, tiingo) <= Positive(tiingo)
          /\ backupUsable(FALSE, tiingo) \in Nat /\ backupUsable(FALSE, tiingo) <= Positive(tiingo)
          /\ backupUsable(FALSE, tiingo) = 0 \/ backupUsable(FALSE, tiingo) <= tiingo - Reserve
          /\ 0 <= Positive(tiingo)
      BY FanOutAssumption DEF backupUsable, Positive
    <2>2. isPriorityPull(kind) = TRUE \/ (isPriorityPull(kind) = FALSE)
      BY DEF isPriorityPull
    <2>3. kind # "start" => isPriorityPull(kind) = FALSE
      BY DEF isPriorityPull
    <2> HIDE DEF spills
    <2>4. CASE spills
      BY <2>1, <2>2, <2>3, <2>4
    <2>5. CASE ~spills
      BY <2>1, <2>5
    <2> QED
      BY <2>4, <2>5
  <1>4. sleeve \in Seq(S) /\ Len(sleeve) \in Nat
    BY ConcatProperties, LenProperties
  <1> HIDE DEF lead, second, sleeve
  <1>16. second \in Int
    BY <1>3
  <1>5. /\ first \in Seq(S) /\ later \in Seq(S) /\ first \o later = sleeve
        /\ Len(first) = Lower(Len(sleeve), Positive(lead))
        /\ Len(later) = Len(sleeve) - Lower(Len(sleeve), Positive(lead))
    <2> HIDE DEF first, later
    <2> QED
      BY <1>2, <1>4, Parted DEF first, later
  <1> HIDE DEF first, later
  <1>6. /\ taken \in Seq(S) /\ left \in Seq(S) /\ taken \o left = later
        /\ Len(taken) = Lower(Len(later), Positive(second))
    <2> HIDE DEF taken, left
    <2> QED
      BY <1>5, <1>16, Parted DEF taken, left
  <1>7. first \o taken \o left = sleeve
    <2> HIDE DEF taken, left
    <2>2. first \in Seq(S) /\ taken \in Seq(S) /\ left \in Seq(S)
      BY <1>5, <1>6
    <2>1. (first \o taken) \o left = first \o (taken \o left)
      BY SMTT(20), <2>2, ConcatAssociative
    <2> QED
      BY <1>5, <1>6, <2>1
  <1>8. Len(later) \in Nat /\ (later # <<>> => Len(later) > 0)
    BY <1>5, LenProperties, EmptySeq
  <1> HIDE DEF taken, left
  <1>9. Len(first) <= lead /\ Len(taken) <= second /\ (later # <<>> => Len(first) = lead)
    BY SMTT(20), <1>2, <1>3, <1>4, <1>5, <1>6, <1>8 DEF Lower, Positive
  <1>10. taken # <<>> => Len(taken) > 0
    BY <1>6, LenProperties, EmptySeq
  <1>11. Len(taken) \in Nat /\ Len(first) \in Nat /\ Positive(twelveData) \in Int /\ Positive(tiingo) \in Int
    BY <1>5, <1>6, LenProperties DEF Positive
  <1> HIDE DEF p
  <1>12. p.twelveData = first /\ p.tiingo = taken /\ p.deferred = left /\ p.fannedOut = (taken # <<>>)
    BY <1>1
  <1>13. Len(first) <= Positive(twelveData) /\ Len(taken) <= Positive(tiingo)
    BY <1>2, <1>3, <1>9, <1>11
  <1>14. taken # <<>> /\ kind # "start" => tiingo - Len(taken) >= Reserve
    BY <1>3, <1>9, <1>10, <1>11, FanOutAssumption
  <1>15. taken \o left # <<>> => Len(first) = lead
    BY <1>6, <1>9
  <1> QED
    BY <1>7, <1>12, <1>13, <1>14, <1>15 DEF FanoutSound, sleeve, p, lead

LEMMA StartupRight ==
    ASSUME NEW outdated \in Nat, NEW tiingo \in Int, NEW hasBackup
    PROVE  StartupSound(outdated, tiingo, hasBackup)
  <1> DEFINE p == planStartupRefresh(outdated, tiingo, hasBackup)
  <1>1. \/ p.tiingoBudget = 0
        \/ /\ outdated > Batch /\ tiingo > LoginReserve
           /\ p.tiingoBudget = Lower(tiingo - LoginReserve, outdated - Batch)
    BY DEF planStartupRefresh
  <1> HIDE DEF p
  <1> QED
    BY <1>1, FanOutAssumption DEF StartupSound, Lower, p

\* No more symbols are promised to a round than it prices.
LEMMA TurnsSpread ==
    ASSUME NEW S, NEW s \in Seq(S), NEW perRound \in Nat \ {0}, NEW at \in Int
    PROVE  LET etas == computeQueueEtas(s, perRound, at, 1)
           IN  \A t \in Range(etas) : t > at /\ Cardinality({i \in DOMAIN etas : etas[i] = t}) <= perRound
  <1> DEFINE etas == computeQueueEtas(s, perRound, at, 1)
             turn(i) == (i - 1) \div perRound
  <1>1. /\ Len(s) \in Nat /\ DOMAIN etas = 1 .. Len(s)
        /\ \A i \in 1 .. Len(s) : turn(i) \in Nat /\ etas[i] = at + (turn(i) + 1)
    <2>1. (IF perRound > 1 THEN perRound ELSE 1) = perRound
      OBVIOUS
    <2>2. etas = [i \in DOMAIN s |-> at + (turn(i) + 1) * 1]
      BY <2>1 DEF computeQueueEtas
    <2>3. DOMAIN s = 1 .. Len(s) /\ Len(s) \in Nat
      BY LenProperties
    <2>4. \A i \in 1 .. Len(s) : turn(i) \in Nat
      BY <2>3
    <2> HIDE DEF etas, turn
    <2> QED
      BY <2>2, <2>3, <2>4
  <1> HIDE DEF etas
  <1>2. SUFFICES ASSUME NEW j \in 1 .. Len(s)
                 PROVE  etas[j] > at /\ Cardinality({i \in DOMAIN etas : etas[i] = etas[j]}) <= perRound
    BY <1>1 DEF Range, etas
  <1> DEFINE k == turn(j)
             same == {i \in DOMAIN etas : etas[i] = etas[j]}
             block == perRound * k + 1 .. perRound * k + perRound
  <1>3. k \in Nat /\ etas[j] > at
    <2> HIDE DEF turn
    <2> QED
      BY <1>1, <1>2
  <1>4. ASSUME NEW i \in same PROVE i \in block
    <2>1. i \in 1 .. Len(s) /\ turn(i) = k
      <3> HIDE DEF turn
      <3> QED
        BY <1>1, <1>2
    <2>2. i - 1 \in Nat /\ perRound * turn(i) <= i - 1 /\ i - 1 <= perRound * turn(i) + (perRound - 1)
      <3> DEFINE a == i - 1
      <3>1. a \in Nat
        <4> HIDE DEF turn
        <4> QED
          BY <1>1, <2>1
      <3> HIDE DEF a
      <3>2. perRound * (a \div perRound) <= a /\ a <= perRound * (a \div perRound) + (perRound - 1)
        BY <3>1, Quotient
      <3> QED
        BY <3>1, <3>2 DEF a
    <2>3. perRound * k \in Nat
      BY <1>3
    <2> HIDE DEF turn, k
    <2> DEFINE b == perRound * k
    <2>4. b \in Nat /\ b <= i - 1 /\ i - 1 <= b + (perRound - 1)
      BY <2>1, <2>2, <2>3
    <2> HIDE DEF b
    <2>5. i \in b + 1 .. b + perRound
      BY <1>1, <2>1, <2>4
    <2> QED
      BY <2>5 DEF b
  <1>5. IsFiniteSet(block) /\ Cardinality(block) = perRound
    <2> DEFINE b == perRound * k
    <2>1. b \in Nat
      BY <1>3
    <2> HIDE DEF b
    <2>2. IsFiniteSet(b + 1 .. b + perRound) /\ Cardinality(b + 1 .. b + perRound) = perRound
      <3> DEFINE x == b + 1
                 y == b + perRound
      <3>1. x \in Int /\ y \in Int /\ ~(x > y) /\ y - x + 1 = perRound
        BY <2>1
      <3> HIDE DEF x, y
      <3>2. IsFiniteSet(x .. y) /\ Cardinality(x .. y) = y - x + 1
        BY <3>1, FS_Interval
      <3> QED
        BY <3>1, <3>2 DEF x, y
    <2> QED
      BY <2>2 DEF b
  <1>6. Cardinality(same) <= perRound
    <2> HIDE DEF same, block
    <2>1. same \in SUBSET block
      BY <1>4
    <2> QED
      BY <1>5, <2>1, FS_Subset
  <1> QED
    BY <1>3, <1>6

\* One round of the funds' chase.
LEMMA ChaseRight ==
    ASSUME NEW S, NEW missing \in Seq(S), NEW published \in BOOLEAN, NEW at, NEW count, NEW now_ \in Int,
           NEW room \in Int, NEW perRound \in Nat \ {0}
    PROVE  ChaseSound(missing, published, at, count, now_, room, perRound)
  <1> DEFINE pick == IF missing = <<>> THEN Null ELSE Head(missing)
             d == decideNav(missing, published, IF published THEN at ELSE Null, pick, Null, at, count, now_, room)
  <1>1. \/ d = Wait
        \/ /\ published /\ missing # <<>> /\ room > 0
           /\ d.symbols = First(missing, room)
        \/ /\ ~published /\ missing # <<>> /\ room > 0 /\ d.symbols = <<Head(missing)>>
           /\ ~(count >= ProbesADay)
    BY DEF decideNav, decideNavPeer, decideNavCanary, selectWithinBudget
  <1> HIDE DEF d
  <1>2. \A i \in 1 .. Len(missing) : missing[i] \in ToSet(missing)
    BY LenProperties DEF ToSet
  <1>3. Len(d.symbols) <= Positive(room) /\ ToSet(d.symbols) \subseteq ToSet(missing)
    <2>1. CASE d = Wait
      <3>1. d.symbols = <<>> /\ Len(<<>>) = 0 /\ ToSet(<<>>) = {}
        BY <2>1 DEF Wait, ToSet
      <3> QED
        BY <3>1 DEF Positive
    <2>2. CASE room > 0 /\ d.symbols = First(missing, room)
      <3>1. /\ First(missing, room) \in Seq(S) /\ Len(First(missing, room)) = Lower(Len(missing), Positive(room))
            /\ \A i \in 1 .. Len(First(missing, room)) : First(missing, room)[i] = missing[i]
        BY Parted
      <3>2. /\ Len(missing) \in Nat /\ Len(First(missing, room)) <= Len(missing)
            /\ Len(First(missing, room)) <= Positive(room)
        BY <3>1, LenProperties DEF Lower, Positive
      <3>3. ToSet(First(missing, room)) \subseteq ToSet(missing)
        <4> DEFINE f == First(missing, room)
        <4>1. f \in Seq(S) /\ DOMAIN f = 1 .. Len(f) /\ Len(f) \in Nat
          BY <3>1, LenProperties
        <4> HIDE DEF f
        <4>2. \A i \in DOMAIN f : f[i] \in ToSet(missing)
          BY <1>2, <3>1, <3>2, <4>1 DEF f
        <4> QED
          BY <4>2 DEF ToSet, f
      <3> QED
        BY <2>2, <3>2, <3>3
    <2>3. CASE missing # <<>> /\ room > 0 /\ d.symbols = <<Head(missing)>>
      <3>1. Head(missing) = missing[1] /\ 1 \in 1 .. Len(missing)
        BY <2>3, LenProperties, EmptySeq
      <3>2. Len(<<Head(missing)>>) = 1 /\ ToSet(<<Head(missing)>>) = {Head(missing)}
        BY DEF ToSet
      <3> QED
        BY <1>2, <2>3, <3>1, <3>2 DEF Positive
    <2> QED
      BY <1>1, <2>1, <2>2, <2>3
  <1>4. ~published => Len(d.symbols) <= 1 /\ (count >= ProbesADay => d = Wait)
    <2>1. Len(<<Head(missing)>>) = 1 /\ Len(Wait.symbols) = 0
      BY DEF Wait
    <2> DEFINE n == Len(d.symbols)
    <2>2. ~published => (d = Wait /\ n = 0) \/ (~(count >= ProbesADay) /\ n = 1)
      BY <1>1, <2>1
    <2> HIDE DEF n
    <2>3. ASSUME ~published PROVE n <= 1
      BY <2>2, <2>3
    <2>4. ASSUME ~published, count >= ProbesADay PROVE d = Wait
      BY <2>2, <2>4
    <2> QED
      BY <2>3, <2>4 DEF n
  <1> QED
    BY <1>3, <1>4, TurnsSpread DEF ChaseSound, d

----------------------------------------------------------------------------
(* Sums over finite sets. *)

Pick(T) == CHOOSE x \in T : TRUE
Rest(T) == T \ {Pick(T)}
\* u adds f up over every subset of S, an element at a time.
Adds(u, f, S) ==
    \A T \in SUBSET S : u[T] \in Int /\ u[T] = IF T = {} THEN 0 ELSE f[Pick(T)] + u[Rest(T)]
Numbers(f, S) == IsFiniteSet(S) /\ \A s \in S : f[s] \in Int

LEMMA PickIn == ASSUME NEW T, T # {} PROVE Pick(T) \in T /\ Rest(T) \subseteq T /\ Rest(T) # T
  BY DEF Pick, Rest

LEMMA SumsAgree ==
    ASSUME NEW S, IsFiniteSet(S), NEW f, NEW g, \A s \in S : f[s] = g[s],
           NEW u, NEW v, NEW A, NEW B, S \subseteq A, S \subseteq B, Adds(u, f, A), Adds(v, g, B)
    PROVE  \A T \in SUBSET S : u[T] = v[T]
  <1> DEFINE Bad == {T \in SUBSET S : u[T] # v[T]}
  <1>1. SUFFICES ASSUME Bad # {} PROVE FALSE
    OBVIOUS
  <1>2. PICK T \in Bad : \A U \in Bad : U \subseteq T => U = T
    <2>1. Bad \in SUBSET SUBSET S
      OBVIOUS
    <2> HIDE DEF Bad
    <2> QED
      BY <1>1, <2>1, LeastOf
  <1>3. T \in SUBSET A /\ T \in SUBSET B /\ T \in SUBSET S /\ u[T] # v[T]
    OBVIOUS
  <1>4. T # {}
    BY <1>3 DEF Adds
  <1>5. Rest(T) \in SUBSET S /\ u[Rest(T)] = v[Rest(T)] /\ Pick(T) \in S
    BY <1>2, <1>3, <1>4, PickIn
  <1> QED
    BY <1>3, <1>4, <1>5 DEF Adds

LEMMA SumExists ==
    ASSUME NEW S, NEW f, Numbers(f, S)
    PROVE  \E u : Adds(u, f, S)
  <1> DEFINE Bad == {T \in SUBSET S : ~ \E u : Adds(u, f, T)}
  <1>1. SUFFICES ASSUME Bad # {} PROVE FALSE
    <2> S \in SUBSET S
      OBVIOUS
    <2> QED
      OBVIOUS
  <1>2. PICK T \in Bad : \A U \in Bad : U \subseteq T => U = T
    <2>1. Bad \in SUBSET SUBSET S /\ IsFiniteSet(S)
      BY DEF Numbers
    <2> HIDE DEF Bad
    <2> QED
      BY <1>1, <2>1, LeastOf
  <1>3. T \in SUBSET S /\ IsFiniteSet(T) /\ ~ \E u : Adds(u, f, T)
    BY FS_Subset DEF Numbers
  <1> DEFINE w(U) == CHOOSE u : Adds(u, f, U)
             u == [U \in SUBSET T |-> IF U = {} THEN 0 ELSE f[Pick(U)] + w(Rest(U))[Rest(U)]]
  <1>4. ASSUME NEW U \in SUBSET T, U # T PROVE Adds(w(U), f, U)
    BY <1>2, <1>3, <1>4
  <1> HIDE DEF w
  <1>5. ASSUME NEW U \in SUBSET T, U # T PROVE u[U] = w(U)[U] /\ u[U] \in Int
    <2>1. U \in SUBSET U
      OBVIOUS
    <2>2. CASE U = {}
      BY <1>4, <1>5, <2>1, <2>2 DEF Adds
    <2>3. CASE U # {}
      <3>1. Rest(U) \in SUBSET T /\ Rest(U) # T /\ Rest(U) \subseteq U
        BY <1>5, <2>3, PickIn
      <3>2. Adds(w(U), f, U) /\ Adds(w(Rest(U)), f, Rest(U))
        BY <1>4, <1>5, <3>1
      <3>3. IsFiniteSet(Rest(U)) /\ Rest(U) \in SUBSET Rest(U)
        BY <1>3, <3>1, FS_Subset
      <3>4. w(U)[Rest(U)] = w(Rest(U))[Rest(U)]
        BY <3>1, <3>2, <3>3, SumsAgree
      <3>5. w(U)[U] = f[Pick(U)] + w(U)[Rest(U)] /\ w(U)[U] \in Int
        BY <2>1, <2>3, <3>2 DEF Adds
      <3> QED
        BY <2>3, <3>4, <3>5
    <2> QED
      BY <2>2, <2>3
  <1>6. ASSUME NEW U \in SUBSET T
        PROVE  u[U] \in Int /\ u[U] = IF U = {} THEN 0 ELSE f[Pick(U)] + u[Rest(U)]
    <2>1. CASE U = {}
      BY <2>1
    <2>2. CASE U # {}
      <3>1. Rest(U) \in SUBSET T /\ Rest(U) # T /\ Pick(U) \in S
        BY <1>3, <2>2, PickIn
      <3>2. u[Rest(U)] = w(Rest(U))[Rest(U)] /\ u[Rest(U)] \in Int
        BY <1>5, <3>1
      <3>3. u[U] = f[Pick(U)] + w(Rest(U))[Rest(U)]
        BY <2>2
      <3>4. f[Pick(U)] \in Int
        BY <3>1 DEF Numbers
      <3> HIDE DEF u
      <3> QED
        BY <2>2, <3>2, <3>3, <3>4
    <2> QED
      BY <2>1, <2>2
  <1>7. Adds(u, f, T)
    <2> HIDE DEF u
    <2> QED
      BY <1>6 DEF Adds
  <1> QED
    BY <1>3, <1>7

LEMMA TotalIs ==
    ASSUME NEW S, NEW f, Numbers(f, S)
    PROVE  \E u : Adds(u, f, S) /\ Total(f, S) = u[S]
  <1> DEFINE E(u) == u = [T \in SUBSET S |-> IF T = {} THEN 0
                                             ELSE f[CHOOSE x \in T : TRUE] + u[T \ {CHOOSE x \in T : TRUE}]]
             c == CHOOSE u : E(u)
  <1>1. PICK v : Adds(v, f, S)
    BY SumExists
  <1> DEFINE u == [T \in SUBSET S |-> v[T]]
  <1>2. \A T \in SUBSET S : T # {} => Rest(T) \in SUBSET S
    BY PickIn
  <1>3. E(u)
    BY <1>1, <1>2 DEF Adds, Pick, Rest
  <1>4. E(c)
    BY <1>3
  <1>5. Total(f, S) = c[S]
    BY DEF Total, MapThenSumSet, MapThenFoldSet
  <1>6. \A T \in SUBSET S : c[T] = IF T = {} THEN 0 ELSE f[Pick(T)] + c[Rest(T)]
    <2>1. c = [T \in SUBSET S |-> IF T = {} THEN 0 ELSE f[CHOOSE x \in T : TRUE] + c[T \ {CHOOSE x \in T : TRUE}]]
      BY <1>4
    <2> HIDE DEF c
    <2> QED
      BY <2>1 DEF Pick, Rest
  <1> HIDE DEF c, E
  <1> DEFINE Bad == {T \in SUBSET S : c[T] # v[T]}
  <1>7. Bad = {}
    <2>1. SUFFICES ASSUME Bad # {} PROVE FALSE
      OBVIOUS
    <2>2. PICK T \in Bad : \A U \in Bad : U \subseteq T => U = T
      <3>1. Bad \in SUBSET SUBSET S /\ IsFiniteSet(S)
        BY DEF Numbers
      <3> HIDE DEF Bad
      <3> QED
        BY <2>1, <3>1, LeastOf
    <2>3. T \in SUBSET S /\ c[T] # v[T]
      OBVIOUS
    <2>4. T # {}
      BY <1>1, <1>6, <2>3 DEF Adds
    <2>5. c[Rest(T)] = v[Rest(T)]
      BY <1>2, <2>2, <2>3, <2>4, PickIn
    <2> QED
      BY <1>1, <1>6, <2>3, <2>4, <2>5 DEF Adds
  <1>8. c[S] = v[S]
    BY <1>7
  <1> QED
    BY <1>1, <1>5, <1>8

LEMMA TotalType == ASSUME NEW S, NEW f, Numbers(f, S) PROVE Total(f, S) \in Int
  <1>1. PICK u : Adds(u, f, S) /\ Total(f, S) = u[S]
    BY TotalIs
  <1>2. S \in SUBSET S
    OBVIOUS
  <1> QED
    BY <1>1, <1>2 DEF Adds

LEMMA TotalStep ==
    ASSUME NEW S, NEW f, Numbers(f, S)
    PROVE  Total(f, S) = IF S = {} THEN 0 ELSE f[Pick(S)] + Total(f, Rest(S))
  <1>1. PICK u : Adds(u, f, S) /\ Total(f, S) = u[S]
    BY TotalIs
  <1>2. CASE S = {}
    BY <1>1, <1>2 DEF Adds
  <1>3. CASE S # {}
    <2>1. Numbers(f, Rest(S)) /\ Rest(S) \subseteq S
      BY <1>3, PickIn, FS_Subset DEF Numbers
    <2>2. PICK v : Adds(v, f, Rest(S)) /\ Total(f, Rest(S)) = v[Rest(S)]
      BY <2>1, TotalIs
    <2>3. IsFiniteSet(Rest(S)) /\ Rest(S) \in SUBSET Rest(S) /\ S \in SUBSET S
      BY <2>1 DEF Numbers
    <2>4. u[Rest(S)] = v[Rest(S)]
      BY <1>1, <2>1, <2>2, <2>3, SumsAgree
    <2> QED
      BY <1>1, <1>3, <2>2, <2>3, <2>4 DEF Adds
  <1> QED
    BY <1>2, <1>3

LEMMA TotalNone == ASSUME NEW f PROVE Total(f, {}) = 0
  <1>1. Numbers(f, {})
    BY FS_EmptySet DEF Numbers
  <1> QED
    BY <1>1, TotalStep

\* Whichever element is taken out first.
LEMMA TotalTake ==
    ASSUME NEW S, NEW f, Numbers(f, S), NEW s \in S
    PROVE  Total(f, S) = f[s] + Total(f, S \ {s})
  <1> DEFINE Bad == {T \in SUBSET S : \E x \in T : Total(f, T) # f[x] + Total(f, T \ {x})}
  <1>1. SUFFICES ASSUME Bad # {} PROVE FALSE
    <2> S \in SUBSET S
      OBVIOUS
    <2> QED
      OBVIOUS
  <1>2. PICK T \in Bad : \A U \in Bad : U \subseteq T => U = T
    <2>1. Bad \in SUBSET SUBSET S /\ IsFiniteSet(S)
      BY DEF Numbers
    <2> HIDE DEF Bad
    <2> QED
      BY <1>1, <2>1, LeastOf
  <1>3. PICK x \in T : Total(f, T) # f[x] + Total(f, T \ {x})
    OBVIOUS
  <1> DEFINE y == Pick(T)
  <1>4. \A U \in SUBSET T : Numbers(f, U) /\ U \in SUBSET S
    BY FS_Subset DEF Numbers
  <1>5. y \in T /\ Total(f, T) = f[y] + Total(f, T \ {y})
    BY <1>3, <1>4, PickIn, TotalStep DEF Rest
  <1>6. x # y
    BY <1>3, <1>5
  <1>7. T \ {y} \notin Bad /\ T \ {x} \notin Bad
    <2>1. T \ {y} # T /\ T \ {x} # T /\ T \ {x} \subseteq T /\ T \ {y} \subseteq T
      BY <1>5
    <2> HIDE DEF Bad, y
    <2> QED
      BY <1>2, <2>1
  <1>8. x \in T \ {y} /\ y \in T \ {x}
    BY <1>5, <1>6
  <1> DEFINE W == (T \ {x}) \ {y}
  <1>9. (T \ {y}) \ {x} = W /\ T \ {y} \in SUBSET S /\ T \ {x} \in SUBSET S
    BY <1>4
  <1>10. Total(f, T \ {y}) = f[x] + Total(f, W) /\ Total(f, T \ {x}) = f[y] + Total(f, W)
    BY <1>7, <1>8, <1>9
  <1>11. f[x] \in Int /\ f[y] \in Int /\ Total(f, W) \in Int
    BY <1>4, <1>5, TotalType DEF Numbers
  <1> HIDE DEF y, W
  <1> QED
    BY <1>3, <1>5, <1>10, <1>11

\* What vanishes outside a subset adds up over the subset.
LEMMA TotalWithin ==
    ASSUME NEW S, NEW f, Numbers(f, S), NEW A \in SUBSET S, \A s \in S \ A : f[s] = 0
    PROVE  Total(f, S) = Total(f, A)
  <1> DEFINE Bad == {T \in SUBSET S : A \subseteq T /\ Total(f, T) # Total(f, A)}
  <1>1. SUFFICES ASSUME Bad # {} PROVE FALSE
    <2> S \in SUBSET S
      OBVIOUS
    <2> QED
      OBVIOUS
  <1>2. PICK T \in Bad : \A U \in Bad : U \subseteq T => U = T
    <2>1. Bad \in SUBSET SUBSET S /\ IsFiniteSet(S)
      BY DEF Numbers
    <2> HIDE DEF Bad
    <2> QED
      BY <1>1, <2>1, LeastOf
  <1>3. PICK x \in T : x \notin A
    OBVIOUS
  <1>4. T \ {x} \notin Bad
    <2>1. T \ {x} # T /\ T \ {x} \subseteq T
      BY <1>3
    <2> HIDE DEF Bad
    <2> QED
      BY <1>2, <2>1
  <1>5. Total(f, T \ {x}) = Total(f, A)
    BY <1>3, <1>4
  <1>6. Numbers(f, T) /\ Numbers(f, A) /\ f[x] = 0
    BY <1>3, FS_Subset DEF Numbers
  <1>7. Total(f, T) = 0 + Total(f, A)
    BY <1>3, <1>5, <1>6, TotalTake
  <1> QED
    BY <1>6, <1>7, TotalType

LEMMA Distributes == \A a \in Int, b \in Int, c \in Int : a * (b + c) = a * b + a * c
  OBVIOUS

\* A linear bound of the terms is one of the sums.
LEMMA TotalBound ==
    ASSUME NEW S, NEW f, NEW g, Numbers(f, S), Numbers(g, S),
           NEW p \in Int, NEW q \in Int, NEW k \in Int, \A s \in S : p * f[s] <= q * g[s] + k
    PROVE  p * Total(f, S) <= q * Total(g, S) + k * Cardinality(S)
  <1> DEFINE Bound(T) == p * Total(f, T) <= q * Total(g, T) + k * Cardinality(T)
             Bad == {T \in SUBSET S : ~Bound(T)}
  <1>1. SUFFICES ASSUME Bad # {} PROVE FALSE
    <2> S \in SUBSET S
      OBVIOUS
    <2> QED
      OBVIOUS
  <1>2. PICK T \in Bad : \A U \in Bad : U \subseteq T => U = T
    <2>1. Bad \in SUBSET SUBSET S /\ IsFiniteSet(S)
      BY DEF Numbers
    <2> HIDE DEF Bad
    <2> QED
      BY <1>1, <2>1, LeastOf
  <1>3. T \in SUBSET S /\ Numbers(f, T) /\ Numbers(g, T) /\ IsFiniteSet(T) /\ ~Bound(T)
    BY FS_Subset DEF Numbers
  <1>4. T # {}
    <2>1. SUFFICES ASSUME T = {} PROVE FALSE
      OBVIOUS
    <2>2. Total(f, T) = 0 /\ Total(g, T) = 0 /\ Cardinality(T) = 0
      BY <2>1, TotalNone, FS_EmptySet
    <2> QED
      BY <1>3, <2>2
  <1>5. PICK x \in T : TRUE
    BY <1>4
  <1> DEFINE U == T \ {x}
  <1>6. U \subseteq T /\ U # T /\ U \in SUBSET S
    BY <1>3, <1>5
  <1>7. Bound(U)
    <2>1. U \notin Bad
      <3> HIDE DEF Bad, U
      <3> QED
        BY <1>2, <1>6
    <2> QED
      BY <1>6, <2>1
  <1>8. Total(f, T) = f[x] + Total(f, U) /\ Total(g, T) = g[x] + Total(g, U)
    BY <1>3, <1>5, TotalTake
  <1>9. Cardinality(T) = Cardinality(U) + 1 /\ Cardinality(U) \in Nat
    <2>1. IsFiniteSet(U) /\ Cardinality(U) = Cardinality(T) - 1
      BY <1>3, <1>5, FS_RemoveElement
    <2> QED
      BY <1>3, <2>1, FS_CardinalityType
  <1>10. f[x] \in Int /\ g[x] \in Int /\ Total(f, U) \in Int /\ Total(g, U) \in Int
    <2>1. Numbers(f, U) /\ Numbers(g, U)
      BY <1>3, <1>6, FS_Subset DEF Numbers
    <2> QED
      BY <1>3, <1>5, <2>1, TotalType DEF Numbers
  <1>11. p * f[x] <= q * g[x] + k
    BY <1>3, <1>5
  <1> DEFINE F == Total(f, U)
             G == Total(g, U)
             n == Cardinality(U)
  <1>12. p * F <= q * G + k * n
    BY <1>7
  <1> HIDE DEF U
  <1>13. p * (f[x] + F) <= q * (g[x] + G) + k * (n + 1)
    <2>1. /\ p * (f[x] + F) = p * f[x] + p * F
          /\ q * (g[x] + G) = q * g[x] + q * G
          /\ k * (n + 1) = k * n + k * 1
      BY <1>9, <1>10, Distributes
    <2>2. /\ p * f[x] \in Int /\ p * F \in Int /\ q * g[x] \in Int /\ q * G \in Int /\ k * n \in Int /\ k * 1 = k
      BY <1>9, <1>10
    <2> QED
      BY <1>11, <1>12, <2>1, <2>2
  <1> QED
    BY <1>3, <1>8, <1>9, <1>13

\* Plainly: what is no more at any element is no more in all; and what is the same is the same.
LEMMA TotalMonotone ==
    ASSUME NEW S, NEW f, NEW g, Numbers(f, S), Numbers(g, S), \A s \in S : f[s] <= g[s]
    PROVE  Total(f, S) <= Total(g, S)
  <1>1. \A s \in S : 1 * f[s] <= 1 * g[s] + 0
    BY DEF Numbers
  <1>2. 1 * Total(f, S) <= 1 * Total(g, S) + 0 * Cardinality(S)
    BY <1>1, TotalBound
  <1>3. Total(f, S) \in Int /\ Total(g, S) \in Int /\ Cardinality(S) \in Nat
    BY TotalType, FS_CardinalityType DEF Numbers
  <1> QED
    BY <1>2, <1>3

LEMMA TotalSame ==
    ASSUME NEW S, NEW f, NEW g, Numbers(f, S), \A s \in S : f[s] = g[s]
    PROVE  Total(f, S) = Total(g, S) /\ Numbers(g, S)
  <1>1. Numbers(g, S) /\ \A s \in S : f[s] <= g[s] /\ g[s] <= f[s]
    BY DEF Numbers
  <1> QED
    BY <1>1, TotalMonotone, TotalType

LEMMA TotalNat ==
    ASSUME NEW S, NEW f, IsFiniteSet(S), \A s \in S : f[s] \in Nat
    PROVE  Numbers(f, S) /\ Total(f, S) \in Nat /\ \A s \in S : f[s] <= Total(f, S)
  <1>1. Numbers(f, S)
    BY DEF Numbers
  <1>2. ASSUME NEW T \in SUBSET S PROVE Total(f, T) \in Nat
    <2> DEFINE z == [s \in T |-> 0]
    <2>1. IsFiniteSet(T) /\ Numbers(f, T) /\ Numbers(z, T) /\ \A s \in T : z[s] <= f[s]
      BY <1>1, FS_Subset DEF Numbers
    <2>2. Total(z, T) = Total(z, {})
      <3>1. \A s \in T \ {} : z[s] = 0
        OBVIOUS
      <3> HIDE DEF z
      <3> QED
        BY <2>1, <3>1, TotalWithin
    <2>3. Total(z, T) <= Total(f, T)
      <3> HIDE DEF z
      <3> QED
        BY <2>1, TotalMonotone
    <2> QED
      BY <2>1, <2>2, <2>3, TotalNone, TotalType
  <1>3. ASSUME NEW s \in S PROVE f[s] <= Total(f, S)
    <2>1. Total(f, S) = f[s] + Total(f, S \ {s}) /\ Total(f, S \ {s}) \in Nat /\ f[s] \in Nat
      BY <1>1, <1>2, TotalTake
    <2> QED
      BY <2>1
  <1> QED
    BY <1>1, <1>2, <1>3

\* The sum of sums.
LEMMA TotalPlus ==
    ASSUME NEW S, NEW f, NEW g, NEW h, Numbers(f, S), Numbers(g, S), \A s \in S : h[s] = f[s] + g[s]
    PROVE  Total(h, S) = Total(f, S) + Total(g, S) /\ Numbers(h, S)
  <1>0. Numbers(h, S)
    BY DEF Numbers
  <1> DEFINE Even(T) == Total(h, T) = Total(f, T) + Total(g, T)
             Bad == {T \in SUBSET S : ~Even(T)}
  <1>1. SUFFICES ASSUME Bad # {} PROVE FALSE
    <2> S \in SUBSET S
      OBVIOUS
    <2> QED
      BY <1>0
  <1>2. PICK T \in Bad : \A U \in Bad : U \subseteq T => U = T
    <2>1. Bad \in SUBSET SUBSET S /\ IsFiniteSet(S)
      BY DEF Numbers
    <2> HIDE DEF Bad
    <2> QED
      BY <1>1, <2>1, LeastOf
  <1>3. T \in SUBSET S /\ Numbers(f, T) /\ Numbers(g, T) /\ Numbers(h, T) /\ ~Even(T)
    BY <1>0, FS_Subset DEF Numbers
  <1>4. T # {}
    BY <1>3, TotalNone
  <1>5. PICK x \in T : TRUE
    BY <1>4
  <1> DEFINE U == T \ {x}
  <1>6. U \subseteq T /\ U # T /\ U \in SUBSET S
    BY <1>3, <1>5
  <1>7. Even(U)
    <2>1. U \notin Bad
      <3> HIDE DEF Bad, U
      <3> QED
        BY <1>2, <1>6
    <2> QED
      BY <1>6, <2>1
  <1>8. /\ Total(f, T) = f[x] + Total(f, U) /\ Total(g, T) = g[x] + Total(g, U)
        /\ Total(h, T) = h[x] + Total(h, U)
    BY <1>3, <1>5, TotalTake
  <1>9. f[x] \in Int /\ g[x] \in Int /\ Total(f, U) \in Int /\ Total(g, U) \in Int
    <2>1. Numbers(f, U) /\ Numbers(g, U)
      BY <1>3, <1>6, FS_Subset DEF Numbers
    <2> QED
      BY <1>3, <1>5, <2>1, TotalType DEF Numbers
  <1>10. h[x] = f[x] + g[x]
    BY <1>3, <1>5
  <1> HIDE DEF U
  <1> QED
    BY <1>3, <1>7, <1>8, <1>9, <1>10

----------------------------------------------------------------------------
(* Divisions, and sums split by them. *)

LEMMA Products == \A a \in Nat, b \in Nat : a * b \in Nat
  OBVIOUS

\* A sum split by weights is not exceeded, and less than one a part is lost.
LEMMA Spread ==
    ASSUME NEW S, IsFiniteSet(S), NEW f, \A s \in S : f[s] \in Nat, Total(f, S) > 0,
           NEW c \in Nat, NEW g, \A s \in S : g[s] = (c * f[s]) \div Total(f, S)
    PROVE  /\ \A s \in S : g[s] \in Nat
           /\ Total(g, S) \in Nat /\ Total(g, S) <= c /\ c <= Total(g, S) + Cardinality(S)
           /\ c # Total(g, S) + Cardinality(S)
  <1> DEFINE W == Total(f, S)
             n == Cardinality(S)
  <1>1. W \in Nat \ {0} /\ n \in Nat \ {0}
    <2>1. S # {}
      BY TotalNone
    <2> QED
      BY <2>1, TotalNat, FS_CardinalityType, FS_EmptySet
  <1> HIDE DEF W
  <1>2. ASSUME NEW s \in S
        PROVE  g[s] \in Nat /\ W * g[s] <= c * f[s] /\ c * f[s] <= W * g[s] + (W - 1)
    <2>1. c * f[s] \in Nat
      BY Products
    <2>2. g[s] = (c * f[s]) \div W
      BY DEF W
    <2> QED
      BY <1>1, <2>1, <2>2, Quotient
  <1>3. Numbers(f, S) /\ Numbers(g, S) /\ Total(g, S) \in Nat
    BY <1>2, TotalNat
  <1>4. W * Total(g, S) <= c * W + 0 * n
    <2>1. \A s \in S : W * g[s] <= c * f[s] + 0
      BY <1>2, Products
    <2> DEFINE z == 0
    <2>2. z \in Int /\ W \in Int /\ c \in Int /\ \A s \in S : W * g[s] <= c * f[s] + z
      BY <1>1, <2>1
    <2> HIDE DEF z
    <2>3. W * Total(g, S) <= c * Total(f, S) + z * Cardinality(S)
      BY <1>3, <2>2, TotalBound
    <2> QED
      BY <2>3 DEF W, z
  <1>5. c * W <= W * Total(g, S) + (W - 1) * n
    <2> DEFINE k == W - 1
    <2>1. k \in Int /\ W \in Int /\ c \in Int /\ \A s \in S : c * f[s] <= W * g[s] + k
      BY <1>1, <1>2
    <2> HIDE DEF k
    <2>2. c * Total(f, S) <= W * Total(g, S) + k * Cardinality(S)
      BY <1>3, <2>1, TotalBound
    <2> QED
      BY <2>2 DEF W, k
  <1> DEFINE G == Total(g, S)
  <1> HIDE DEF n
  <1>6. G <= c
    <2>1. W * G <= W * c
      BY <1>1, <1>3, <1>4
    <2>2. G \in Int /\ c \in Int /\ W \in Nat \ {0}
      BY <1>1, <1>3
    <2> HIDE DEF G
    <2> QED
      BY <2>1, <2>2, Cancels
  <1>7. c <= G + n /\ c # G + n
    <2>1. W * (G + n) = W * G + W * n /\ (W - 1) * n < W * n /\ W * G \in Int /\ W * n \in Int
      BY <1>1, <1>3, Distributes
    <2>2. W * c < W * (G + n)
      BY <1>1, <1>3, <1>5, <2>1
    <2>3. W * c <= W * (G + n) /\ c # G + n
      BY <1>1, <1>3, <2>2
    <2>4. G + n \in Int /\ c \in Int /\ W \in Nat \ {0}
      BY <1>1, <1>3
    <2> HIDE DEF G
    <2> QED
      BY <2>3, <2>4, Cancels
  <1> QED
    BY <1>2, <1>3, <1>6, <1>7 DEF n

\* The sum of a constant.
LEMMA TotalEven ==
    ASSUME NEW S, IsFiniteSet(S), NEW g, NEW k \in Int, \A s \in S : g[s] = k
    PROVE  Total(g, S) = k * Cardinality(S)
  <1> DEFINE z == [s \in S |-> 0]
  <1>1. Numbers(g, S) /\ Numbers(z, S) /\ \A s \in S \ {} : z[s] = 0
    BY DEF Numbers
  <1>2. \A s \in S : z[s] = 0
    OBVIOUS
  <1> HIDE DEF z
  <1>3. Total(z, S) = 0
    BY <1>1, TotalWithin, TotalNone
  <1> DEFINE p == 1
             m == 0 - k
  <1>4. p \in Int /\ m \in Int /\ -1 \in Int
    OBVIOUS
  <1>5. \A s \in S : p * g[s] <= p * z[s] + k
    BY <1>2
  <1>6. \A s \in S : p * z[s] <= p * g[s] + m
    BY <1>2
  <1> HIDE DEF p, m
  <1>7. /\ p * Total(g, S) <= p * Total(z, S) + k * Cardinality(S)
        /\ p * Total(z, S) <= p * Total(g, S) + m * Cardinality(S)
    BY <1>1, <1>4, <1>5, <1>6, TotalBound
  <1>8. Cardinality(S) \in Nat /\ Total(g, S) \in Int
    BY <1>1, TotalType, FS_CardinalityType
  <1> DEFINE n == Cardinality(S)
             G == Total(g, S)
  <1> HIDE DEF n, G
  <1>9. m * n = 0 - k * n
    BY <1>8 DEF m, n
  <1>10. G <= k * n /\ k * n <= G
    BY <1>3, <1>7, <1>8, <1>9 DEF p, n, G
  <1> QED
    BY <1>8, <1>10 DEF n, G

LEMMA SpreadEven ==
    ASSUME NEW S, IsFiniteSet(S), S # {}, NEW c \in Nat, NEW g, \A s \in S : g[s] = c \div Cardinality(S)
    PROVE  /\ \A s \in S : g[s] \in Nat
           /\ Total(g, S) \in Nat /\ Total(g, S) <= c /\ c <= Total(g, S) + Cardinality(S)
           /\ c # Total(g, S) + Cardinality(S)
  <1> DEFINE n == Cardinality(S)
             k == c \div n
  <1>1. n \in Nat \ {0}
    BY FS_EmptySet, FS_CardinalityType
  <1>2. k \in Nat /\ n * k <= c /\ c <= n * k + (n - 1)
    BY <1>1, Quotient
  <1>3. \A s \in S : g[s] = k
    OBVIOUS
  <1> HIDE DEF k
  <1>4. Total(g, S) = k * Cardinality(S)
    BY <1>2, <1>3, TotalEven
  <1>5. k * n = n * k /\ k * n \in Nat
    BY <1>1, <1>2
  <1> QED
    BY <1>1, <1>2, <1>3, <1>4, <1>5

LEMMA TotalPart ==
    ASSUME NEW S, NEW f, IsFiniteSet(S), \A s \in S : f[s] \in Nat, NEW A \in SUBSET S
    PROVE  Total(f, A) \in Nat /\ Total(f, A) <= Total(f, S)
  <1> DEFINE p == [s \in S |-> IF s \in A THEN f[s] ELSE 0]
  <1>1. /\ IsFiniteSet(A) /\ \A s \in A : f[s] \in Nat /\ p[s] = f[s]
        /\ \A s \in S : p[s] \in Nat /\ p[s] <= f[s] /\ (s \notin A => p[s] = 0)
    BY FS_Subset
  <1> HIDE DEF p
  <1>2. Numbers(p, S) /\ Numbers(f, S) /\ Numbers(f, A) /\ Numbers(p, A)
    BY <1>1, TotalNat
  <1>3. Total(p, S) <= Total(f, S)
    BY <1>1, <1>2, TotalMonotone
  <1>4. Total(p, S) = Total(p, A)
    BY <1>1, <1>2, TotalWithin
  <1>5. Total(f, A) = Total(p, A)
    BY <1>1, <1>2, TotalSame
  <1>6. Total(f, A) \in Nat
    BY <1>1, TotalNat
  <1> QED
    BY <1>3, <1>4, <1>5, <1>6

----------------------------------------------------------------------------
(* The orders of one book. *)

IsBook(b) ==
    /\ IsFiniteSet(funds(b)) /\ b.cash \in Nat /\ b.fractional \in BOOLEAN /\ b.allowSell \in BOOLEAN
    /\ \A s \in funds(b) : b.pct[s] \in Nat /\ b.value[s] \in Nat /\ b.price[s] \in Nat \cup {Unpriced}
    /\ Total(b.pct, funds(b)) <= Full
    /\ b.noBuy \subseteq funds(b) /\ buyable(b) # {}
    /\ UNION b.groups = funds(b) /\ \A g \in b.groups, h \in b.groups : g # h => g \cap h = {}

LEMMA AtLeastIs ==
    ASSUME NEW n \in Int
    PROVE  AtLeast(0, n) \in Nat /\ n <= AtLeast(0, n) /\ (n >= 0 => AtLeast(0, n) = n)
  BY DEF AtLeast

\* An order never exceeds the sum it is for and misses it by less than a share.
LEMMA OrderOfSum ==
    ASSUME NEW a \in Nat, NEW price \in Nat \cup {Unpriced}, NEW fractional \in BOOLEAN
    PROVE  /\ orderOf(a, price, fractional) \in Nat /\ orderOf(a, price, fractional) <= a
           /\ fractional => orderOf(a, price, fractional) = a
           /\ price # 0 => a <= orderOf(a, price, fractional) + AtLeast(0, price)
  <1>1. CASE price = Unpriced \/ fractional
    <2>1. orderOf(a, price, fractional) = a
      BY <1>1 DEF orderOf
    <2>2. AtLeast(0, price) \in Nat
      BY AtLeastIs DEF Unpriced
    <2> QED
      BY <2>1, <2>2
  <1>2. CASE ~(price = Unpriced \/ fractional) /\ price = 0
    BY <1>2 DEF orderOf
  <1>3. CASE ~(price = Unpriced \/ fractional) /\ price # 0
    <2>1. price \in Nat \ {0}
      BY <1>3
    <2>2. orderOf(a, price, fractional) = (a \div price) * price
      BY <1>3, <2>1 DEF orderOf, Towards0
    <2>3. a \div price \in Nat /\ price * (a \div price) <= a /\ a <= price * (a \div price) + (price - 1)
      BY <2>1, Quotient
    <2>4. (a \div price) * price = price * (a \div price) /\ price * (a \div price) \in Nat
      BY <2>1, <2>3
    <2>5. AtLeast(0, price) = price
      BY <2>1 DEF AtLeast
    <2> QED
      BY <1>3, <2>1, <2>2, <2>3, <2>4, <2>5
  <1> QED
    BY <1>1, <1>2, <1>3

LEMMA TargetType ==
    ASSUME NEW b, IsBook(b)
    PROVE  /\ targetValue(b) \in [funds(b) -> Nat]
           /\ Total(targetValue(b), funds(b)) <= Total(b.value, funds(b)) + b.cash
  <1> DEFINE F == funds(b)
             t == targetValue(b)
             after == Total(b.value, F) + b.cash
  <1>1. IsFiniteSet(F) /\ after \in Nat /\ \A s \in F : b.pct[s] \in Nat
    BY TotalNat DEF IsBook
  <1>2. ASSUME NEW s \in F
        PROVE  /\ t[s] = (after * b.pct[s]) \div Full /\ t[s] \in Nat
               /\ Full * t[s] <= after * b.pct[s]
    <2>1. after * b.pct[s] \in Nat /\ Full \in Nat \ {0}
      BY <1>1, Products DEF Full
    <2>2. t[s] = (after * b.pct[s]) \div Full
      BY DEF targetValue
    <2> HIDE DEF after, t
    <2> QED
      BY <2>1, <2>2, Quotient
  <1>3. t \in [F -> Nat]
    <2>1. t = [s \in F |-> t[s]]
      BY DEF targetValue
    <2> HIDE DEF t, F
    <2> QED
      BY <1>2, <2>1
  <1> HIDE DEF t, F, after
  <1>4. Numbers(t, F) /\ Numbers(b.pct, F) /\ Total(t, F) \in Nat /\ Total(b.pct, F) \in Nat
    BY <1>1, <1>3, TotalNat
  <1> DEFINE d == Full
             z == 0
  <1>5. d \in Nat \ {0} /\ d \in Int /\ z \in Int /\ after \in Int /\ \A s \in F : d * t[s] <= after * b.pct[s] + z
    BY <1>1, <1>2, Products DEF Full
  <1> HIDE DEF d, z
  <1>6. d * Total(t, F) <= after * Total(b.pct, F) + z * Cardinality(F)
    BY <1>4, <1>5, TotalBound
  <1>7. Total(b.pct, F) <= d
    BY DEF IsBook, F, d
  <1>8. after * Total(b.pct, F) <= d * after
    BY <1>1, <1>4, <1>5, <1>7
  <1>9. z * Cardinality(F) = 0
    BY <1>1, FS_CardinalityType DEF z
  <1>10. d * Total(t, F) <= d * after
    BY <1>1, <1>4, <1>5, <1>6, <1>8, <1>9, Products
  <1>11. Total(t, F) <= after
    BY <1>1, <1>4, <1>5, <1>10, Cancels
  <1> QED
    BY <1>3, <1>11 DEF t, F, after

LEMMA BuyableType ==
    ASSUME NEW b, IsBook(b)
    PROVE  /\ IsFiniteSet(buyable(b)) /\ buyable(b) \subseteq funds(b) /\ Cardinality(buyable(b)) \in Nat
           /\ Cardinality(buyable(b)) <= Cardinality(funds(b)) /\ Cardinality(funds(b)) \in Nat
  BY FS_Subset, FS_CardinalityType DEF IsBook, buyable

own(b, g) == g \ b.noBuy
lack(b, g) == AtLeast(0, Total(targetValue(b), g) - Total(b.value, g))

LEMMA GroupType ==
    ASSUME NEW b, IsBook(b), NEW g \in b.groups
    PROVE  /\ g \subseteq funds(b) /\ IsFiniteSet(g) /\ own(b, g) \subseteq buyable(b) /\ IsFiniteSet(own(b, g))
           /\ own(b, g) \subseteq g
           /\ Cardinality(own(b, g)) \in Nat /\ Cardinality(own(b, g)) <= Cardinality(funds(b))
           /\ lack(b, g) \in Nat /\ Total(targetValue(b), g) - Total(b.value, g) <= lack(b, g)
  <1>1. g \subseteq funds(b) /\ IsFiniteSet(funds(b))
    BY DEF IsBook
  <1>2. IsFiniteSet(g) /\ own(b, g) \subseteq g /\ own(b, g) \subseteq buyable(b) /\ own(b, g) \subseteq funds(b)
    BY <1>1, FS_Subset DEF own, buyable
  <1>3. IsFiniteSet(own(b, g)) /\ Cardinality(own(b, g)) <= Cardinality(funds(b)) /\ Cardinality(own(b, g)) \in Nat
    BY <1>1, <1>2, FS_Subset, FS_CardinalityType
  <1>4. Total(targetValue(b), g) \in Nat /\ Total(b.value, g) \in Nat
    <2>1. \A s \in g : targetValue(b)[s] \in Nat /\ b.value[s] \in Nat
      BY <1>1, TargetType DEF IsBook
    <2> QED
      BY <1>2, <2>1, TotalNat
  <1> QED
    BY <1>1, <1>2, <1>3, <1>4, AtLeastIs DEF lack

\* What a group lacks is spread over the funds of it one buys.
LEMMA GapsOfGroup ==
    ASSUME NEW b, IsBook(b), NEW g \in b.groups, own(b, g) # {}
    PROVE  LET gap == buyOnlyGaps(b, targetValue(b))
           IN  /\ \A s \in own(b, g) : gap[s] \in Nat
               /\ Total(gap, own(b, g)) \in Nat
               /\ Total(gap, own(b, g)) <= lack(b, g)
               /\ lack(b, g) <= Total(gap, own(b, g)) + Cardinality(own(b, g))
  <1> DEFINE gap == buyOnlyGaps(b, targetValue(b))
             O == own(b, g)
             t == targetValue(b)
             W == Total(t, O)
             l == lack(b, g)
  <1>1. ASSUME NEW s \in O
        PROVE  gap[s] = IF W > 0 THEN (l * t[s]) \div W ELSE l \div Cardinality(O)
    <2>1. s \in g /\ s \in buyable(b)
      BY GroupType DEF own
    <2>2. {h \in b.groups : s \in h} = {g}
      BY <2>1 DEF IsBook
    <2>3. UNION {h \in b.groups : s \in h} = g
      BY <2>2
    <2> QED
      BY <2>1, <2>3 DEF buyOnlyGaps, own, lack
  <1>2. IsFiniteSet(O) /\ O # {} /\ l \in Nat /\ \A s \in O : t[s] \in Nat
    BY GroupType, TargetType
  <1>3. W \in Nat
    <2> HIDE DEF O, t
    <2> QED
      BY <1>2, TotalNat
  <1> HIDE DEF gap, O, t, l
  <1>4. CASE W > 0
    BY <1>1, <1>2, <1>4, Spread DEF gap, O, t, l
  <1>5. CASE ~(W > 0)
    BY <1>1, <1>2, <1>5, SpreadEven DEF gap, O, t, l
  <1> QED
    BY <1>4, <1>5

LEMMA GapsType ==
    ASSUME NEW b, IsBook(b), NEW s \in buyable(b)
    PROVE  buyOnlyGaps(b, targetValue(b))[s] \in Nat
  <1>1. PICK g \in b.groups : s \in g
    BY BuyableType DEF IsBook
  <1>2. s \in own(b, g)
    BY <1>1 DEF own, buyable
  <1> QED
    BY <1>2, GapsOfGroup

\* The sums to invest are the cash, but for less than a cent each; short cash fills no gap
\* beyond what it lacks, and cash to spare fills each.
LEMMA SumsToInvest ==
    ASSUME NEW b, IsBook(b)
    PROVE  LET t == targetValue(b)
               add == planBuyOnly(b, t)
               gap == buyOnlyGaps(b, t)
               B == buyable(b)
           IN  /\ \A s \in funds(b) : add[s] \in Nat /\ (s \notin B => add[s] = 0)
               /\ Total(add, B) \in Nat /\ Total(add, B) <= b.cash /\ b.cash <= Total(add, B) + Cardinality(B)
               /\ \/ \A s \in B : add[s] <= gap[s]
                  \/ \A s \in B : gap[s] <= add[s]
  <1> DEFINE t == targetValue(b)
             add == planBuyOnly(b, t)
             gap == buyOnlyGaps(b, t)
             B == buyable(b)
             gaps == Total(gap, B)
             spare == b.cash - gaps
             weight == Total(b.pct, B)
             parted == [s \in B |-> IF weight > 0 THEN (spare * b.pct[s]) \div weight ELSE spare \div Cardinality(B)]
  <1>1. /\ IsFiniteSet(B) /\ B # {} /\ b.cash \in Nat /\ B \subseteq funds(b)
        /\ \A s \in B : gap[s] \in Nat /\ b.pct[s] \in Nat
    BY BuyableType, GapsType DEF IsBook
  <1>2. /\ \A s \in funds(b) : s \notin B => add[s] = 0
        /\ \A s \in B : add[s] = IF gaps > b.cash THEN (gap[s] * b.cash) \div gaps ELSE gap[s] + parted[s]
    BY <1>1 DEF planBuyOnly
  <1> HIDE DEF t, add, gap, B, parted
  <1>3. gaps \in Nat /\ weight \in Nat /\ Numbers(gap, B)
    BY <1>1, TotalNat
  <1>4. CASE gaps > b.cash
    <2>1. gaps > 0
      BY <1>1, <1>3, <1>4
    <2>2. \A s \in B : add[s] = (b.cash * gap[s]) \div Total(gap, B)
      <3>1. \A s \in B : gap[s] * b.cash = b.cash * gap[s]
        BY <1>1
      <3> QED
        BY <1>2, <1>4, <3>1
    <2>3. /\ \A s \in B : add[s] \in Nat
          /\ Total(add, B) \in Nat /\ Total(add, B) <= b.cash /\ b.cash <= Total(add, B) + Cardinality(B)
      BY <1>1, <2>1, <2>2, Spread
    <2>4. ASSUME NEW s \in B PROVE add[s] <= gap[s]
      <3>1. gap[s] \in Nat /\ b.cash \in Nat /\ gaps \in Nat \ {0} /\ b.cash <= gaps /\ add[s] \in Nat
        BY <1>1, <1>3, <1>4, <2>1, <2>3
      <3>2. add[s] = (gap[s] * b.cash) \div gaps
        BY <1>2, <1>4
      <3> HIDE DEF gaps
      <3>3. gap[s] * b.cash \in Nat /\ gap[s] * b.cash <= gaps * gap[s]
        BY <3>1, Products
      <3>4. gaps * add[s] <= gaps * gap[s]
        <4>1. gaps * ((gap[s] * b.cash) \div gaps) <= gap[s] * b.cash
          BY <3>1, <3>3, Quotient
        <4>2. gaps * add[s] \in Nat /\ gaps * gap[s] \in Nat
          BY <3>1, Products
        <4> QED
          BY <3>2, <3>3, <4>1, <4>2
      <3> QED
        BY <3>1, <3>4, Cancels
    <2> QED
      BY <1>2, <2>3, <2>4 DEF t, add, gap, B
  <1>5. CASE ~(gaps > b.cash)
    <2>1. spare \in Nat
      BY <1>1, <1>3, <1>5
    <2> HIDE DEF spare
    <2>2. /\ \A s \in B : parted[s] \in Nat
          /\ Total(parted, B) \in Nat /\ Total(parted, B) <= spare /\ spare <= Total(parted, B) + Cardinality(B)
      <3>1. CASE weight > 0
        <4>1. \A s \in B : parted[s] = (spare * b.pct[s]) \div Total(b.pct, B)
          BY <3>1 DEF parted
        <4> QED
          BY <1>1, <2>1, <3>1, <4>1, Spread
      <3>2. CASE ~(weight > 0)
        <4>1. \A s \in B : parted[s] = spare \div Cardinality(B)
          BY <3>2 DEF parted
        <4> QED
          BY <1>1, <2>1, <4>1, SpreadEven
      <3> QED
        BY <3>1, <3>2
    <2>3. Numbers(parted, B)
      BY <1>1, <2>2, TotalNat
    <2>4. \A s \in B : add[s] = gap[s] + parted[s]
      BY <1>2, <1>5
    <2>5. Total(add, B) = gaps + Total(parted, B)
      BY <1>3, <2>3, <2>4, TotalPlus
    <2>6. \A s \in B : add[s] \in Nat /\ gap[s] <= add[s]
      BY <1>1, <2>2, <2>4
    <2>7. Cardinality(B) \in Nat
      BY <1>1, FS_CardinalityType
    <2>8. Total(add, B) \in Nat /\ Total(add, B) <= b.cash /\ b.cash <= Total(add, B) + Cardinality(B)
      BY <1>1, <1>3, <2>2, <2>5, <2>7 DEF spare
    <2> QED
      BY <1>2, <2>6, <2>8 DEF t, add, gap, B
  <1> QED
    BY <1>4, <1>5

\* The orders of a plan that only buys, and what each leaves of its sum.
LEMMA OrdersToBuy ==
    ASSUME NEW b, IsBook(b), ~b.allowSell
    PROVE  LET add == planBuyOnly(b, targetValue(b))
               orders == planRebalance(b).orders
           IN  /\ \A s \in funds(b) : /\ orders[s] \in Nat /\ orders[s] <= add[s]
                                      /\ (s \notin buyable(b) => orders[s] = 0)
                                      /\ (b.fractional => orders[s] = add[s])
                                      /\ (b.price[s] # 0 => add[s] <= orders[s] + oneShare(b)[s])
               /\ \A s \in funds(b) : oneShare(b)[s] \in Nat
               /\ planRebalance(b).residual = AtLeast(0, b.cash - Total(orders, funds(b)))
  <1> DEFINE add == planBuyOnly(b, targetValue(b))
             orders == planRebalance(b).orders
  <1>1. ASSUME NEW s \in funds(b)
        PROVE  /\ orders[s] \in Nat /\ orders[s] <= add[s]
               /\ (s \notin buyable(b) => orders[s] = 0)
               /\ (b.fractional => orders[s] = add[s])
               /\ (b.price[s] # 0 => add[s] <= orders[s] + oneShare(b)[s])
               /\ oneShare(b)[s] \in Nat
    <2>1. orders[s] = orderOf(add[s], b.price[s], b.fractional)
      BY DEF planRebalance
    <2>2. add[s] \in Nat /\ (s \notin buyable(b) => add[s] = 0)
      BY SumsToInvest
    <2>3. b.price[s] \in Nat \cup {Unpriced} /\ b.fractional \in BOOLEAN
      BY DEF IsBook
    <2>4. oneShare(b)[s] = AtLeast(0, b.price[s]) /\ AtLeast(0, b.price[s]) \in Nat
      BY <2>3, AtLeastIs DEF oneShare, Unpriced
    <2>5. /\ orderOf(add[s], b.price[s], b.fractional) \in Nat
          /\ orderOf(add[s], b.price[s], b.fractional) <= add[s]
          /\ b.fractional => orderOf(add[s], b.price[s], b.fractional) = add[s]
          /\ b.price[s] # 0 => add[s] <= orderOf(add[s], b.price[s], b.fractional) + AtLeast(0, b.price[s])
      <3> HIDE DEF add
      <3> QED
        BY <2>2, <2>3, OrderOfSum
    <2> HIDE DEF orders, add
    <2>6. s \notin buyable(b) => orders[s] = 0
      BY <2>1, <2>2, <2>5
    <2> QED
      BY <2>1, <2>4, <2>5, <2>6
  <1>2. planRebalance(b).residual = AtLeast(0, b.cash - Total(orders, funds(b)))
    BY DEF planRebalance
  <1> QED
    BY <1>1, <1>2

LEMMA BookOnlyBuys ==
    ASSUME NEW b, IsBook(b), ~b.allowSell
    PROVE  OnlyBuys(b, planRebalance(b))
  <1> DEFINE F == funds(b)
             B == buyable(b)
             add == planBuyOnly(b, targetValue(b))
             p == planRebalance(b)
             orders == p.orders
             one == oneShare(b)
             spent == Total(orders, F)
             kept == IF b.fractional THEN 0 ELSE Total(one, B)
  <1>1. /\ IsFiniteSet(F) /\ IsFiniteSet(B) /\ B \subseteq F /\ b.cash \in Nat
        /\ Cardinality(B) \in Nat /\ Cardinality(B) <= Cardinality(F) /\ Cardinality(F) \in Nat
    BY BuyableType DEF IsBook
  <1>2. \A s \in F : /\ orders[s] \in Nat /\ orders[s] <= add[s]
                     /\ (s \notin B => orders[s] = 0)
                     /\ (b.fractional => orders[s] = add[s])
                     /\ (b.price[s] # 0 => add[s] <= orders[s] + one[s])
                     /\ one[s] \in Nat
    BY OrdersToBuy
  <1>3. /\ \A s \in F : add[s] \in Nat
        /\ Total(add, B) \in Nat /\ Total(add, B) <= b.cash /\ b.cash <= Total(add, B) + Cardinality(B)
    BY SumsToInvest
  <1>4. p.residual = AtLeast(0, b.cash - spent)
    BY OrdersToBuy
  <1>5. \A s \in b.noBuy : s \in F /\ s \notin B
    BY DEF IsBook, buyable
  <1> HIDE DEF F, B, add, orders, one, p
  <1>6. spent = Total(orders, B) /\ spent \in Nat /\ spent <= Total(add, B)
    <2>1. /\ Numbers(orders, F) /\ Numbers(orders, B) /\ Numbers(add, B)
          /\ Total(orders, F) \in Nat /\ \A s \in F \ B : orders[s] = 0
      BY <1>1, <1>2, <1>3, TotalNat
    <2>2. Total(orders, F) = Total(orders, B)
      BY <1>1, <2>1, TotalWithin
    <2>3. Total(orders, B) <= Total(add, B)
      BY <1>1, <1>2, <2>1, TotalMonotone
    <2> QED
      BY <2>1, <2>2, <2>3
  <1>7. p.residual = b.cash - spent /\ b.cash - spent \in Nat
    BY <1>1, <1>3, <1>4, <1>6, AtLeastIs
  <1>8. ASSUME \A s \in B : b.price[s] # 0 PROVE p.residual <= kept + Dust(b)
    <2>1. Numbers(orders, B) /\ Numbers(one, B) /\ Numbers(add, B) /\ Total(one, B) \in Nat
      BY <1>1, <1>2, <1>3, TotalNat
    <2>2. Total(add, B) <= spent + kept
      <3>1. CASE b.fractional
        <4>1. \A s \in B : add[s] = orders[s]
          BY <1>1, <1>2, <3>1
        <4>2. Total(add, B) = Total(orders, B)
          BY <2>1, <4>1, TotalSame
        <4> QED
          BY <1>3, <1>6, <3>1, <4>2
      <3>2. CASE ~b.fractional
        <4> DEFINE h == [s \in B |-> orders[s] + one[s]]
        <4>1. \A s \in B : h[s] = orders[s] + one[s] /\ add[s] <= h[s]
          BY <1>1, <1>2, <1>8
        <4> HIDE DEF h
        <4>2. Total(h, B) = Total(orders, B) + Total(one, B) /\ Numbers(h, B)
          BY <2>1, <4>1, TotalPlus
        <4>3. Total(add, B) <= Total(h, B)
          BY <2>1, <4>1, <4>2, TotalMonotone
        <4> QED
          BY <1>6, <3>2, <4>2, <4>3
      <3> QED
        BY <3>1, <3>2
    <2>3. kept \in Nat
      BY <2>1
    <2>4. Cardinality(B) <= Dust(b) /\ Dust(b) \in Nat
      BY <1>1 DEF Dust, F
    <2> HIDE DEF kept, spent
    <2> QED
      BY <1>1, <1>3, <1>6, <1>7, <2>2, <2>3, <2>4
  <1>9. \A s \in F : orders[s] >= 0 /\ (s \in b.noBuy => orders[s] = 0)
    BY <1>2, <1>5
  <1> QED
    BY <1>7, <1>8, <1>9 DEF OnlyBuys, F, B, orders, one, p

LEMMA BookFundsTheShort ==
    ASSUME NEW b, IsBook(b), ~b.allowSell
    PROVE  FundsTheShort(b, planRebalance(b))
  <1> DEFINE F == funds(b)
             t == targetValue(b)
             add == planBuyOnly(b, t)
             gap == buyOnlyGaps(b, t)
             orders == planRebalance(b).orders
             one == oneShare(b)
  <1>1. \A s \in F : /\ orders[s] \in Nat /\ orders[s] <= add[s] /\ one[s] \in Nat
                     /\ (s \notin buyable(b) => orders[s] = 0)
                     /\ (b.fractional => orders[s] = add[s])
                     /\ (b.price[s] # 0 => add[s] <= orders[s] + one[s])
    BY OrdersToBuy
  <1>2. /\ \A s \in F : add[s] \in Nat
        /\ (\A s \in buyable(b) : add[s] <= gap[s]) \/ (\A s \in buyable(b) : gap[s] <= add[s])
    BY SumsToInvest
  <1>3. ASSUME NEW g \in b.groups, own(b, g) # {}
        PROVE  /\ own(b, g) \subseteq buyable(b) /\ own(b, g) \subseteq F /\ own(b, g) \subseteq g /\ g \subseteq F
               /\ IsFiniteSet(g) /\ IsFiniteSet(own(b, g))
               /\ Cardinality(own(b, g)) \in Nat /\ Cardinality(own(b, g)) <= Dust(b) /\ Dust(b) \in Nat
               /\ \A s \in own(b, g) : gap[s] \in Nat
               /\ Total(gap, own(b, g)) \in Nat
               /\ Total(gap, own(b, g)) <= lack(b, g) /\ lack(b, g) \in Nat
               /\ lack(b, g) <= Total(gap, own(b, g)) + Cardinality(own(b, g))
               /\ Total(orders, g) = Total(orders, own(b, g)) /\ Total(orders, own(b, g)) \in Nat
    <2>1. /\ own(b, g) \subseteq buyable(b) /\ own(b, g) \subseteq g /\ g \subseteq F
          /\ IsFiniteSet(g) /\ IsFiniteSet(own(b, g)) /\ lack(b, g) \in Nat
          /\ Cardinality(own(b, g)) \in Nat /\ Cardinality(own(b, g)) <= Cardinality(F)
          /\ Cardinality(F) \in Nat
      BY GroupType, BuyableType
    <2>2. Cardinality(own(b, g)) <= Dust(b) /\ Dust(b) \in Nat
      BY <2>1 DEF Dust
    <2>3. \A s \in g \ own(b, g) : s \notin buyable(b)
      BY DEF own, buyable
    <2>4. /\ \A s \in own(b, g) : gap[s] \in Nat
          /\ Total(gap, own(b, g)) \in Nat
          /\ Total(gap, own(b, g)) <= lack(b, g)
          /\ lack(b, g) <= Total(gap, own(b, g)) + Cardinality(own(b, g))
      BY <1>3, GapsOfGroup
    <2> HIDE DEF orders, F
    <2>5. Numbers(orders, g) /\ Total(orders, own(b, g)) \in Nat /\ \A s \in g \ own(b, g) : orders[s] = 0
      BY <1>1, <2>1, <2>3, TotalNat
    <2>6. Total(orders, g) = Total(orders, own(b, g))
      BY <2>1, <2>5, TotalWithin
    <2> QED
      BY <2>1, <2>2, <2>4, <2>5, <2>6
  <1> HIDE DEF F, t, add, gap, orders, one
  <1>4. ASSUME NEW g \in b.groups, own(b, g) # {}, Total(orders, g) > lack(b, g)
        PROVE  \A s \in buyable(b) : gap[s] <= add[s]
    <2>1. SUFFICES ASSUME \A s \in buyable(b) : add[s] <= gap[s] PROVE FALSE
      BY <1>2
    <2>2. \A s \in own(b, g) : orders[s] \in Nat /\ gap[s] \in Nat /\ orders[s] <= gap[s]
      <3>1. \A s \in own(b, g) : s \in F /\ s \in buyable(b)
        BY <1>3, <1>4
      <3>2. \A s \in own(b, g) : /\ orders[s] \in Nat /\ orders[s] <= add[s] /\ add[s] \in Nat
                                 /\ gap[s] \in Nat /\ add[s] <= gap[s]
        BY <1>1, <1>2, <1>3, <1>4, <2>1, <3>1
      <3> QED
        BY <3>2
    <2>3. Numbers(orders, own(b, g)) /\ Numbers(gap, own(b, g))
      BY <1>3, <1>4, <2>2, TotalNat
    <2>4. Total(orders, own(b, g)) <= Total(gap, own(b, g))
      BY <2>2, <2>3, TotalMonotone
    <2> QED
      BY <1>3, <1>4, <2>4
  <1>5. ASSUME NEW h \in b.groups, own(b, h) # {}, b.fractional \/ \A s \in own(b, h) : b.price[s] # 0,
               \A s \in buyable(b) : gap[s] <= add[s]
        PROVE  lack(b, h) <= Total(orders, h) + Total(one, h) + Dust(b)
    <2> DEFINE O == own(b, h)
               both == [s \in O |-> orders[s] + one[s]]
    <2>1. \A s \in O : /\ s \in F /\ s \in buyable(b) /\ orders[s] \in Nat /\ one[s] \in Nat
                       /\ gap[s] \in Nat /\ add[s] \in Nat
      BY <1>1, <1>2, <1>3, <1>5
    <2>2. \A s \in O : gap[s] <= both[s] /\ both[s] = orders[s] + one[s]
      <3>1. \A s \in O : gap[s] <= add[s] /\ add[s] <= orders[s] + one[s]
        BY <1>1, <1>5, <2>1
      <3> QED
        BY <2>1, <3>1
    <2> HIDE DEF both
    <2>3. IsFiniteSet(O) /\ IsFiniteSet(h) /\ O \subseteq h /\ \A s \in h : one[s] \in Nat
      BY <1>1, <1>3, <1>5
    <2> HIDE DEF O
    <2>4. Numbers(gap, O) /\ Numbers(orders, O) /\ Numbers(one, O)
      BY <2>1, <2>3, TotalNat
    <2>5. Total(both, O) = Total(orders, O) + Total(one, O) /\ Numbers(both, O)
      BY <2>2, <2>4, TotalPlus
    <2>6. Total(gap, O) <= Total(both, O)
      BY <2>2, <2>4, <2>5, TotalMonotone
    <2>7. Total(one, O) \in Nat /\ Total(one, O) <= Total(one, h) /\ Total(one, h) \in Nat
      BY <2>3, TotalPart, TotalNat
    <2>8. /\ Cardinality(O) \in Nat /\ Cardinality(O) <= Dust(b) /\ Dust(b) \in Nat
          /\ Total(gap, O) \in Nat /\ lack(b, h) \in Nat /\ lack(b, h) <= Total(gap, O) + Cardinality(O)
          /\ Total(orders, h) = Total(orders, O) /\ Total(orders, O) \in Nat
      BY <1>3, <1>5 DEF O
    <2> QED
      BY <2>5, <2>6, <2>7, <2>8
  <1>6. SUFFICES ASSUME NEW g \in b.groups, NEW h \in b.groups, own(b, g) # {}, own(b, h) # {},
                        b.fractional \/ \A s \in own(b, h) : b.price[s] # 0,
                        Total(orders, g) > lack(b, g) + Dust(b)
                 PROVE  Total(orders, h) + Total(one, h) + Dust(b) >= Total(t, h) - Total(b.value, h)
    BY DEF FundsTheShort, own, lack, orders, one, t
  <1>7. Total(orders, g) > lack(b, g)
    BY <1>3, <1>6
  <1>8. lack(b, h) <= Total(orders, h) + Total(one, h) + Dust(b)
    BY <1>4, <1>5, <1>6, <1>7
  <1>9. Total(t, h) - Total(b.value, h) <= lack(b, h) /\ lack(b, h) \in Nat
    BY GroupType DEF t
  <1>10. /\ Total(t, h) - Total(b.value, h) \in Int /\ Total(one, h) \in Nat /\ Total(orders, h) \in Nat
         /\ Dust(b) \in Nat
    <2>1. \A s \in h : t[s] \in Nat /\ b.value[s] \in Nat /\ one[s] \in Nat
      BY <1>1, <1>3, <1>6, TargetType DEF IsBook, t, F
    <2>2. IsFiniteSet(h)
      BY <1>3, <1>6
    <2>3. Total(t, h) \in Nat /\ Total(b.value, h) \in Nat /\ Total(one, h) \in Nat
      BY <2>1, <2>2, TotalNat
    <2> QED
      BY <1>3, <1>6, <2>3
  <1> QED
    BY <1>8, <1>9, <1>10

\* An order to buy or to sell is cut towards nothing, by less than a share.
LEMMA OrderNear ==
    ASSUME NEW a \in Int, NEW price \in Nat \cup {Unpriced}, NEW fractional \in BOOLEAN, NEW off,
           off = IF fractional \/ price = Unpriced THEN 0 ELSE IF price = 0 THEN AtLeast(a, -a) ELSE price,
           NEW order, order = orderOf(a, price, fractional)
    PROVE  /\ order \in Int /\ off \in Nat /\ order - a <= off /\ a - order <= off
           /\ a >= 0 => order <= a
  <1>1. CASE fractional \/ price = Unpriced
    <2>1. order = a /\ off = 0
      BY <1>1 DEF orderOf
    <2> QED
      BY <2>1
  <1>2. CASE ~(fractional \/ price = Unpriced) /\ price = 0
    <2>1. order = 0 /\ off = IF -a > a THEN -a ELSE a
      BY <1>2 DEF orderOf, AtLeast
    <2> QED
      BY <2>1
  <1>3. CASE ~(fractional \/ price = Unpriced) /\ price # 0
    <2>1. price \in Nat \ {0} /\ off = price /\ order = Towards0(a, price) * price
      BY <1>3 DEF orderOf
    <2>2. CASE a >= 0
      <3> DEFINE q == a \div price
      <3>1. a \in Nat
        BY <2>2
      <3>2. q \in Nat /\ price * q <= a /\ a <= price * q + (price - 1)
        BY <2>1, <3>1, Quotient
      <3>3. order = q * price
        BY <2>1, <2>2 DEF Towards0
      <3> HIDE DEF q
      <3>4. q * price = price * q /\ price * q \in Nat
        BY <2>1, <3>2
      <3> QED
        BY <2>1, <2>2, <3>2, <3>3, <3>4
    <2>3. CASE ~(a >= 0)
      <3> DEFINE m == -a
                 q == m \div price
      <3>1. m \in Nat /\ a = -m
        BY <2>3
      <3>2. order = (-q) * price
        BY <2>1, <2>3 DEF Towards0
      <3> HIDE DEF m
      <3>3. q \in Nat /\ price * q <= m /\ m <= price * q + (price - 1)
        BY <2>1, <3>1, Quotient
      <3> HIDE DEF q
      <3>4. (-q) * price = -(price * q) /\ price * q \in Nat
        BY <2>1, <3>3
      <3> QED
        BY <2>1, <2>3, <3>1, <3>2, <3>3, <3>4
    <2> QED
      BY <2>2, <2>3
  <1> QED
    BY <1>1, <1>2, <1>3

LEMMA BookReachesTargets ==
    ASSUME NEW b, IsBook(b), b.allowSell, b.noBuy = {}
    PROVE  ReachesTargets(b, planRebalance(b))
  <1> DEFINE F == funds(b)
             t == targetValue(b)
             v == b.value
             orders == planRebalance(b).orders
             off == [s \in F |-> offBy(b, s)]
             sold == {s \in F : t[s] < v[s]}
             beyond == [s \in F |-> IF s \in sold THEN off[s] ELSE 0]
             less == [s \in F |-> 0 - v[s]]
             add == [s \in F |-> t[s] + less[s]]
             most == [s \in F |-> add[s] + beyond[s]]
  <1>1. /\ IsFiniteSet(F) /\ b.cash \in Nat /\ b.fractional \in BOOLEAN
        /\ \A s \in F : t[s] \in Nat /\ v[s] \in Nat /\ b.price[s] \in Nat \cup {Unpriced}
        /\ Total(t, F) <= Total(v, F) + b.cash
    <2>1. t \in [F -> Nat] /\ Total(t, F) <= Total(v, F) + b.cash
      BY TargetType
    <2>2. \A s \in F : t[s] \in Nat
      <3> HIDE DEF t, F
      <3> QED
        BY <2>1
    <2>3. /\ IsFiniteSet(F) /\ b.cash \in Nat /\ b.fractional \in BOOLEAN
          /\ \A s \in F : v[s] \in Nat /\ b.price[s] \in Nat \cup {Unpriced}
      BY DEF IsBook
    <2> HIDE DEF t, F, v
    <2> QED
      BY <2>1, <2>2, <2>3
  <1>2. ASSUME NEW s \in F
        PROVE  /\ off[s] \in Nat /\ orders[s] \in Int
               /\ Exact(v[s] + orders[s], t[s], off[s])
               /\ orders[s] <= most[s]
    <2> DEFINE a == t[s] - v[s]
    <2>1. orders[s] = orderOf(a, b.price[s], b.fractional)
      BY <1>1 DEF planRebalance, planWithSells
    <2>2. a \in Int /\ -a = v[s] - t[s] /\ add[s] = a
      BY <1>1
    <2>3. off[s] = IF b.fractional \/ b.price[s] = Unpriced THEN 0
                   ELSE IF b.price[s] = 0 THEN AtLeast(a, -a) ELSE b.price[s]
      BY <2>2 DEF offBy
    <2>4. most[s] = a + IF s \in sold THEN off[s] ELSE 0
      BY <2>2
    <2>5. s \in sold <=> a < 0
      BY <1>1
    <2> DEFINE o == off[s]
               pr == b.price[s]
    <2> HIDE DEF a, off, sold, most, orders, t, v
    <2>6. /\ orders[s] \in Int /\ o \in Nat /\ orders[s] - a <= o /\ a - orders[s] <= o
          /\ a >= 0 => orders[s] <= a
      <3>1. pr \in Nat \cup {Unpriced} /\ b.fractional \in BOOLEAN
        BY <1>1
      <3>2. o = IF b.fractional \/ pr = Unpriced THEN 0 ELSE IF pr = 0 THEN AtLeast(a, -a) ELSE pr
        BY <2>3
      <3>3. orders[s] = orderOf(a, pr, b.fractional)
        BY <2>1
      <3> HIDE DEF pr, o
      <3> QED
        BY <2>2, <3>1, <3>2, <3>3, OrderNear
    <2>7. Exact(v[s] + orders[s], t[s], off[s])
      <3>1. t[s] \in Nat /\ v[s] \in Nat /\ a = t[s] - v[s]
        BY <1>1 DEF a
      <3> QED
        BY <2>6, <3>1 DEF Exact
    <2>8. orders[s] <= most[s]
      BY <2>2, <2>4, <2>5, <2>6
    <2> QED
      BY <2>6, <2>7, <2>8
  <1>3. \A s \in F : beyond[s] \in Nat /\ (s \in sold => beyond[s] = off[s]) /\ (s \notin sold => beyond[s] = 0)
    BY <1>2
  <1>4. /\ \A s \in F : add[s] = t[s] + less[s]
        /\ \A s \in F : most[s] = add[s] + beyond[s]
        /\ \A s \in F : less[s] \in Int
        /\ sold \subseteq F
    BY <1>1
  <1>5. \A s \in F : v[s] + less[s] = 0
    BY <1>1
  <1> DEFINE none == [s \in F |-> 0]
  <1>7. \A s \in F : none[s] = 0
    OBVIOUS
  <1> HIDE DEF F, t, v, orders, off, beyond, less, add, most, none
  <1>8. /\ Numbers(t, F) /\ Numbers(v, F) /\ Numbers(less, F) /\ Numbers(beyond, F) /\ Numbers(orders, F)
        /\ Numbers(none, F) /\ Total(t, F) \in Nat /\ Total(v, F) \in Nat
    BY <1>1, <1>2, <1>3, <1>4, <1>7, TotalNat DEF Numbers
  <1>9. Total(none, F) = Total(v, F) + Total(less, F)
    <2>1. \A s \in F : none[s] = v[s] + less[s]
      BY <1>5, <1>7
    <2> QED
      BY <1>8, <2>1, TotalPlus
  <1>10. Total(none, F) = 0
    <2>1. \A s \in F \ {} : none[s] = 0
      BY <1>7
    <2> QED
      BY <1>8, <2>1, TotalWithin, TotalNone
  <1>11. Total(add, F) = Total(t, F) + Total(less, F) /\ Numbers(add, F)
    BY <1>4, <1>8, TotalPlus
  <1>12. Total(most, F) = Total(add, F) + Total(beyond, F) /\ Numbers(most, F)
    <2>1. \A s \in F : most[s] = add[s] + beyond[s]
      BY <1>4
    <2>2. Numbers(add, F) /\ Numbers(beyond, F)
      BY <1>8, <1>11
    <2> QED
      BY <2>1, <2>2, TotalPlus
  <1>13. Total(orders, F) <= Total(most, F)
    BY <1>2, <1>8, <1>12, TotalMonotone
  <1>14. Total(beyond, F) = Total(off, sold)
    <2>1. \A s \in F \ sold : beyond[s] = 0
      BY <1>3
    <2>2. \A s \in sold : beyond[s] = off[s]
      BY <1>3, <1>4
    <2>3. Numbers(beyond, sold)
      BY <1>4, <1>8, FS_Subset DEF Numbers
    <2> HIDE DEF sold
    <2>4. Total(beyond, F) = Total(beyond, sold)
      BY <1>4, <1>8, <2>1, TotalWithin
    <2>5. Total(beyond, sold) = Total(off, sold)
      BY <2>2, <2>3, TotalSame
    <2> QED
      BY <2>4, <2>5
  <1>15. /\ Total(less, F) \in Int /\ Total(beyond, F) \in Int /\ Total(orders, F) \in Int
         /\ Dust(b) \in Nat
    <2>1. Cardinality(funds(b)) \in Nat
      BY BuyableType
    <2> QED
      BY <1>8, <2>1, TotalType DEF Dust
  <1>16. Total(orders, F) <= b.cash + Total(off, sold) + Dust(b)
    <2> HIDE DEF sold
    <2> QED
      BY <1>1, <1>8, <1>9, <1>10, <1>11, <1>12, <1>13, <1>14, <1>15
  <1>17. \A s \in F : Exact(v[s] + orders[s], t[s], off[s])
    BY <1>2
  <1> QED
    BY <1>16, <1>17 DEF ReachesTargets, F, t, v, orders, off, sold

----------------------------------------------------------------------------
(* The book of a form. *)

Owned(form) == DOMAIN form.value

\* The funds of a form lie in one category each, and no target is below a hundredth of a percent
\* for each fund ticked in its category.
IsForm(form) ==
    /\ IsFiniteSet(Owned(form)) /\ form.cash \in Nat /\ form.fractional \in BOOLEAN /\ form.allowSell \in BOOLEAN
    /\ \A s \in Owned(form) : form.value[s] \in Nat /\ form.price[s] \in Nat \cup {Unpriced}
    /\ DOMAIN form.members = DOMAIN form.target
    /\ \A k \in DOMAIN form.target : form.target[k] \in Nat /\ form.members[k] \subseteq Owned(form)
    /\ \A k \in DOMAIN form.target, l \in DOMAIN form.target : k # l => form.members[k] \cap form.members[l] = {}
    /\ \A k \in targeted(form) : Cardinality(ticked(form, k)) <= form.target[k]

\* A category's shares keep something of its weight.
LEMMA SharesOfCategory ==
    ASSUME NEW M, IsFiniteSet(M), M # {}, NEW weight \in Nat, Cardinality(M) <= weight,
           NEW value, \A s \in M : value[s] \in Nat, NEW split
    PROVE  LET shares == categoryMemberShares(weight, M, value, split)
           IN  (\A s \in M : shares[s] \in Nat) /\ \E s \in M : shares[s] > 0
  <1> DEFINE shares == categoryMemberShares(weight, M, value, split)
  <1>1. \/ Total(value, M) > 0 /\ \A s \in M : shares[s] = (weight * value[s]) \div Total(value, M)
        \/ \A s \in M : shares[s] = weight \div Cardinality(M)
    BY DEF categoryMemberShares
  <1> HIDE DEF shares
  <1>2. /\ \A s \in M : shares[s] \in Nat
        /\ Total(shares, M) \in Nat 
        /\ weight <= Total(shares, M) + Cardinality(M) /\ weight # Total(shares, M) + Cardinality(M)
    <2>1. CASE Total(value, M) > 0 /\ \A s \in M : shares[s] = (weight * value[s]) \div Total(value, M)
      BY <2>1, Spread
    <2>2. CASE \A s \in M : shares[s] = weight \div Cardinality(M)
      BY <2>2, SpreadEven
    <2> QED
      BY <1>1, <2>1, <2>2
  <1>3. Total(shares, M) # 0
    BY <1>2, FS_CardinalityType
  <1>4. ASSUME \A s \in M : ~(shares[s] > 0) PROVE FALSE
    <2>1. Numbers(shares, M) /\ \A s \in M \ {} : shares[s] = 0
      BY <1>2, <1>4 DEF Numbers
    <2>2. Total(shares, M) = Total(shares, {})
      BY <2>1, TotalWithin
    <2> QED
      BY <1>3, <2>2, TotalNone
  <1> QED
    BY <1>2, <1>4 DEF shares

LEMMA WeightsOfForm ==
    ASSUME NEW form, IsForm(form), complete(form)
    PROVE  LET w == buildWeights(form)
           IN  /\ DOMAIN w = UNION {ticked(form, k) : k \in targeted(form)}
               /\ \A s \in DOMAIN w : w[s] \in Nat
               /\ \E s \in DOMAIN w : w[s] > 0
  <1> DEFINE w == buildWeights(form)
             D == UNION {ticked(form, k) : k \in targeted(form)}
             shares(k) == categoryMemberShares(form.target[k], ticked(form, k), form.value, form.split)
  <1>1. DOMAIN w = D
    BY DEF buildWeights
  <1>2. ASSUME NEW k \in targeted(form)
        PROVE  /\ \A s \in ticked(form, k) : shares(k)[s] \in Nat
               /\ \E s \in ticked(form, k) : shares(k)[s] > 0
    <2>1. /\ ticked(form, k) \subseteq Owned(form) /\ ticked(form, k) # {} /\ form.target[k] \in Nat
          /\ Cardinality(ticked(form, k)) <= form.target[k]
      BY DEF IsForm, targeted, ticked, complete
    <2>2. IsFiniteSet(ticked(form, k)) /\ \A s \in ticked(form, k) : form.value[s] \in Nat
      BY <2>1, FS_Subset DEF IsForm
    <2> DEFINE M == ticked(form, k)
               weight == form.target[k]
    <2> HIDE DEF M, weight
    <2>3. LET c == categoryMemberShares(weight, M, form.value, form.split)
          IN  (\A s \in M : c[s] \in Nat) /\ \E s \in M : c[s] > 0
      BY <2>1, <2>2, SharesOfCategory DEF M, weight
    <2> QED
      BY <2>3 DEF M, weight
  <1>3. ASSUME NEW k \in targeted(form), NEW s \in ticked(form, k) PROVE w[s] = shares(k)[s]
    <2> DEFINE l == CHOOSE i \in targeted(form) : s \in form.members[i]
    <2>1. s \in form.members[k]
      BY <1>3 DEF ticked
    <2>2. l \in targeted(form) /\ s \in form.members[l]
      BY <2>1
    <2>3. l = k
      <3> HIDE DEF l
      <3> QED
        BY <2>1, <2>2 DEF IsForm, targeted
    <2>4. s \in D
      OBVIOUS
    <2>5. w[s] = shares(l)[s]
      <3>1. l \in targeted(form)
        BY <2>2
      <3> QED
        BY <2>4, <3>1 DEF buildWeights
    <2> QED
      BY <2>3, <2>5
  <1> HIDE DEF shares, w
  <1>4. \A s \in DOMAIN w : w[s] \in Nat
    <2> SUFFICES ASSUME NEW s \in DOMAIN w PROVE w[s] \in Nat
      OBVIOUS
    <2>1. PICK k \in targeted(form) : s \in ticked(form, k)
      BY <1>1
    <2> QED
      BY <1>2, <1>3, <2>1
  <1>5. \E s \in DOMAIN w : w[s] > 0
    <2>1. PICK k \in targeted(form) : TRUE
      BY DEF complete
    <2>2. PICK s \in ticked(form, k) : shares(k)[s] > 0
      BY <1>2, <2>1
    <2> QED
      BY <1>1, <1>3, <2>1, <2>2
  <1> QED
    BY <1>1, <1>4, <1>5 DEF w

LEMMA ScaledTo100 ==
    ASSUME NEW w, IsFiniteSet(DOMAIN w), \A s \in DOMAIN w : w[s] \in Nat, \E s \in DOMAIN w : w[s] > 0
    PROVE  LET pct == scaleTo100(w)
           IN  /\ DOMAIN pct \subseteq DOMAIN w /\ DOMAIN pct # {} /\ IsFiniteSet(DOMAIN pct)
               /\ \A s \in DOMAIN pct : pct[s] \in Nat
               /\ Total(pct, DOMAIN pct) \in Nat /\ Total(pct, DOMAIN pct) <= Full
               /\ Full <= Total(pct, DOMAIN pct) + Cardinality(DOMAIN pct)
  <1> DEFINE P == {s \in DOMAIN w : w[s] > 0}
             pct == scaleTo100(w)
             c == Full
  <1>1. DOMAIN pct = P /\ \A s \in P : pct[s] = (w[s] * c) \div Total(w, P)
    BY DEF scaleTo100
  <1>2. c \in Nat
    BY DEF Full
  <1>3. P # {} /\ IsFiniteSet(P) /\ (\A s \in P : w[s] \in Nat /\ w[s] > 0) /\ P \subseteq DOMAIN w
    BY FS_Subset
  <1> HIDE DEF P, pct, c
  <1>4. Total(w, P) > 0
    <2>1. PICK s \in P : TRUE
      BY <1>3
    <2>2. w[s] <= Total(w, P) /\ Total(w, P) \in Nat /\ w[s] > 0 /\ w[s] \in Nat
      BY <1>3, <2>1, TotalNat
    <2> QED
      BY <2>2
  <1>5. \A s \in P : pct[s] = (c * w[s]) \div Total(w, P)
    <2>1. \A s \in P : w[s] * c = c * w[s]
      BY <1>2, <1>3
    <2> QED
      BY <1>1, <2>1
  <1>6. /\ \A s \in P : pct[s] \in Nat
        /\ Total(pct, P) \in Nat /\ Total(pct, P) <= c /\ c <= Total(pct, P) + Cardinality(P)
    BY <1>2, <1>3, <1>4, <1>5, Spread
  <1> QED
    BY <1>1, <1>3, <1>6 DEF pct, c

LEMMA BookOfForm ==
    ASSUME NEW form, IsForm(form), complete(form)
    PROVE  LET b == orderBook(form)
           IN  /\ IsBook(b) /\ ~planRebalance(b).rejected
               /\ b.allowSell = form.allowSell /\ (b.allowSell => b.noBuy = {})
  <1> DEFINE w == buildWeights(form)
             pct == scaleTo100(w)
             P == DOMAIN pct
             held == IF form.allowSell THEN {} ELSE heldBeside(form, pct)
             all == P \cup held
             b == orderBook(form)
  <1>0. /\ DOMAIN w \subseteq Owned(form)
        /\ DOMAIN w \subseteq UNION {form.members[k] : k \in DOMAIN form.members}
    <2>1. DOMAIN w = UNION {ticked(form, k) : k \in targeted(form)}
      BY WeightsOfForm
    <2> HIDE DEF w
    <2>2. \A k \in targeted(form) : /\ k \in DOMAIN form.members /\ ticked(form, k) \subseteq form.members[k]
                                   /\ form.members[k] \subseteq Owned(form)
      BY DEF IsForm, targeted, ticked
    <2> QED
      BY <2>1, <2>2
  <1>1. DOMAIN w \subseteq Owned(form) /\ IsFiniteSet(DOMAIN w)
    <2>1. DOMAIN w \subseteq Owned(form)
      BY <1>0
    <2> QED
      BY <2>1, FS_Subset DEF IsForm
  <1>2. /\ P \subseteq DOMAIN w /\ P # {} /\ IsFiniteSet(P)
        /\ \A s \in P : pct[s] \in Nat
        /\ Total(pct, P) \in Nat /\ Total(pct, P) <= Full
        /\ Full <= Total(pct, P) + Cardinality(P)
    <2> HIDE DEF w
    <2>1. IsFiniteSet(DOMAIN w) /\ (\A s \in DOMAIN w : w[s] \in Nat) /\ \E s \in DOMAIN w : w[s] > 0
      BY <1>1, WeightsOfForm DEF w
    <2> QED
      BY <2>1, ScaledTo100
  <1>3. P \subseteq UNION {form.members[k] : k \in DOMAIN form.members}
    BY <1>0, <1>2
  <1>4. /\ held \subseteq Owned(form) /\ held \cap P = {}
        /\ held \subseteq UNION {form.members[k] : k \in DOMAIN form.members}
        /\ form.allowSell => held = {}
    BY DEF heldBeside, targeted, IsForm
  <1>5. /\ b.pct = [s \in all |-> IF s \in held THEN 0 ELSE pct[s]]
        /\ b.value = form.value /\ b.price = form.price /\ b.cash = form.cash /\ b.noBuy = held
        /\ b.groups = {form.members[k] \cap all : k \in DOMAIN form.members} \ {{}}
        /\ b.allowSell = form.allowSell /\ b.fractional = form.fractional
    BY DEF orderBook
  <1> HIDE DEF b, held, pct, w
  <1>6. funds(b) = all /\ buyable(b) = P
    BY <1>4, <1>5 DEF funds, buyable
  <1>7. all \subseteq Owned(form) /\ IsFiniteSet(all)
    <2>1. all \subseteq Owned(form)
      BY <1>1, <1>2, <1>4
    <2> QED
      BY <2>1, FS_Subset DEF IsForm
  <1>8. Total(b.pct, all) = Total(pct, P)
    <2>1. \A s \in all : b.pct[s] = IF s \in held THEN 0 ELSE pct[s]
      BY <1>5
    <2>2. /\ \A s \in all : b.pct[s] \in Nat
          /\ \A s \in all \ P : b.pct[s] = 0
          /\ \A s \in P : b.pct[s] = pct[s]
      BY <1>2, <1>4, <2>1
    <2> DEFINE f == b.pct
               A == all
    <2>3. Numbers(f, A) /\ Numbers(f, P) /\ P \in SUBSET A
      BY <1>2, <1>7, <2>2 DEF Numbers
    <2>4. (\A s \in A \ P : f[s] = 0) /\ (\A s \in P : f[s] = pct[s])
      BY <2>2
    <2> HIDE DEF f, A, all, P
    <2>5. Total(f, A) = Total(f, P)
      BY <2>3, <2>4, TotalWithin
    <2>6. Total(f, P) = Total(pct, P)
      BY <2>3, <2>4, TotalSame
    <2> QED
      BY <2>5, <2>6 DEF f, A
  <1>9. IsBook(b)
    <2>1. IsFiniteSet(all) /\ b.cash \in Nat /\ b.fractional \in BOOLEAN /\ b.allowSell \in BOOLEAN
      BY <1>5, <1>7 DEF IsForm
    <2>2. \A s \in all : b.pct[s] \in Nat /\ b.value[s] \in Nat /\ b.price[s] \in Nat \cup {Unpriced}
      <3>1. \A s \in all : b.pct[s] \in Nat
        BY <1>2, <1>5
      <3> QED
        BY <1>5, <1>7, <3>1 DEF IsForm
    <2>3. Total(b.pct, all) <= Full
      BY <1>2, <1>8
    <2>4. b.noBuy \subseteq all /\ P # {}
      BY <1>2, <1>5
    <2>5. UNION b.groups = all
      <3>1. all \subseteq UNION {form.members[k] : k \in DOMAIN form.members}
        BY <1>3, <1>4
      <3>2. b.groups = {form.members[k] \cap all : k \in DOMAIN form.members} \ {{}}
        BY <1>5
      <3> HIDE DEF all
      <3>3. ASSUME NEW s \in all PROVE s \in UNION b.groups
        <4>1. PICK k \in DOMAIN form.members : s \in form.members[k]
          BY <3>1
        <4>2. s \in form.members[k] \cap all /\ form.members[k] \cap all \in b.groups
          BY <3>2, <4>1
        <4> QED
          BY <4>2
      <3>4. \A g \in b.groups : g \subseteq all
        BY <3>2
      <3> QED
        BY <3>3, <3>4
    <2>6. \A g \in b.groups, h \in b.groups : g # h => g \cap h = {}
      <3>1. b.groups = {form.members[k] \cap all : k \in DOMAIN form.members} \ {{}}
        BY <1>5
      <3> HIDE DEF all
      <3> SUFFICES ASSUME NEW g \in b.groups, NEW h \in b.groups, g # h PROVE g \cap h = {}
        OBVIOUS
      <3>2. PICK k \in DOMAIN form.members : g = form.members[k] \cap all
        BY <3>1
      <3>3. PICK l \in DOMAIN form.members : h = form.members[l] \cap all
        BY <3>1
      <3>4. form.members[k] \cap form.members[l] = {}
        BY <3>2, <3>3 DEF IsForm
      <3> QED
        BY <3>2, <3>3, <3>4
    <2> QED
      BY <1>6, <2>1, <2>2, <2>3, <2>4, <2>5, <2>6 DEF IsBook
  <1>10. ~planRebalance(b).rejected
    <2>1. Cardinality(P) \in Nat /\ Cardinality(all) \in Nat /\ Cardinality(P) <= Cardinality(all)
      BY <1>2, <1>7, FS_Subset, FS_CardinalityType
    <2> DEFINE off == Total(b.pct, funds(b)) - Full
    <2>2. off = Total(pct, P) - Full
      BY <1>6, <1>8
    <2>3. ~(off > WeightSlack) /\ ~(-off > WeightSlack + Cardinality(funds(b)))
      <3> HIDE DEF off, all, P
      <3> QED
        BY <1>2, <1>6, <2>1, <2>2 DEF WeightSlack, Full
    <2>4. ~(b.cash < 0)
      BY <1>9 DEF IsBook
    <2> QED
      BY <2>3, <2>4 DEF planRebalance
  <1> QED
    BY <1>4, <1>5, <1>9, <1>10 DEF b, held

\* Whatever the form, its plan is accepted; buying only sells nothing, spends no more than the
\* cash and all of it but what whole shares leave over, and funds what lacks; selling too ends
\* within a share of every target (allocation.ts planRebalance, ui.ts).
THEOREM OrdersAlwaysRight == ASSUME NEW form, IsForm(form) PROVE OrdersRight(form)
  <1> DEFINE b == orderBook(form)
  <1> SUFFICES ASSUME complete(form)
               PROVE  /\ ~planRebalance(b).rejected
                      /\ IF b.allowSell THEN ReachesTargets(b, planRebalance(b))
                         ELSE OnlyBuys(b, planRebalance(b)) /\ FundsTheShort(b, planRebalance(b))
    BY DEF OrdersRight
  <1>1. IsBook(b) /\ ~planRebalance(b).rejected /\ (b.allowSell => b.noBuy = {})
    BY BookOfForm
  <1> HIDE DEF b
  <1> QED
    BY <1>1, BookOnlyBuys, BookFundsTheShort, BookReachesTargets


----------------------------------------------------------------------------
(* What the runs check of one case, for every case. *)

LEMMA AlwaysCovered == ASSUME NEW market, NEW freshness, NEW blob PROVE NeverUncovered(market, freshness, blob)
  <1> DEFINE v == checkDataCoverage(market, freshness, blob)
             missing == {x \in CoreValues : sourcesOf(x, market, freshness, blob) = {}}
             awaiting == blob = "absent" /\ freshness \in NoCache
  <1>1. v.ok = (awaiting \/ missing = {}) /\ v.awaitingBlob = awaiting
    BY DEF checkDataCoverage
  <1>2. ~awaiting => missing = {}
    <2>1. ASSUME ~awaiting, NEW x \in CoreValues PROVE sourcesOf(x, market, freshness, blob) # {}
      BY <2>1 DEF sourcesOf
    <2> QED
      BY <2>1
  <1> HIDE DEF v, missing, awaiting
  <1>3. v.awaitingBlob \/ v.ok
    BY <1>1, <1>2
  <1>4. coverageLogLevel(v) # "warn"
    BY <1>3 DEF coverageLogLevel
  <1> QED
    BY <1>4 DEF NeverUncovered, v

\* In each of the years the exchange's closings are known for, the rules close it on the
\* days it published and on no other weekday; and at every moment from March 1970 to the
\* year 2790 the clock's answers fit together (market-hours.ts).
THEOREM CalendarAlwaysRight ==
    ASSUME case.of = "year" => case.y \in PublishedYears, case.of = "moment" => case.m \in Settling
    PROVE  CalendarRight
  <1>1. ASSUME case.of = "year" PROVE HolidaysRight(case.y, Published(case.y))
    <2> DEFINE y == case.y
    <2>1. y \in Int /\ 2021 <= y /\ y <= 2024
      BY <1>1 DEF PublishedYears
    <2> HIDE DEF y
    <2>2. y = 2021 \/ y = 2022 \/ y = 2023 \/ y = 2024
      BY <2>1
    <2>3. HolidaysRight(y, Published(y))
      BY <2>2, ClosingsOf2021, ClosingsOf2022, ClosingsOf2023, ClosingsOf2024
    <2> QED
      BY <2>3 DEF y
  <1>2. ASSUME case.of = "moment" PROVE SessionsConsistent(case.m)
    <2> DEFINE m == case.m
    <2>1. m \in Settling
      BY <1>2
    <2> HIDE DEF m
    <2>2. SessionsConsistent(m)
      BY <2>1, ClockAlwaysConsistent
    <2> QED
      BY <2>2 DEF m
  <1> QED
    BY <1>1, <1>2 DEF CalendarRight

\* Of every symbol, at every moment up to the year 2790, the cache, the tap and the list of
\* outdated symbols agree on what is due, as long as the long time to live is a week
\* (quotes.ts DEFAULT_CLOSED_MARKET_TTL_MS) and a quote is of a session that had begun.
THEOREM VerdictsAlwaysAgree ==
    ASSUME 7 * DayMinutes <= ClosedTtl,
           case.of = "entry" => /\ \E m \in Moments : case.x = Context(m)
                                /\ case.e.market \in BOOLEAN /\ case.e.quote \in Quotes
    PROVE  VerdictsAgree
  <1> SUFFICES ASSUME case.of = "entry" PROVE OneVerdict(case.e, case.x)
    BY DEF VerdictsAgree
  <1> DEFINE x == case.x
             e == case.e
  <1>1. PICK m \in Moments : x = Context(m)
    OBVIOUS
  <1>2. e.market \in BOOLEAN /\ e.quote \in Quotes
    OBVIOUS
  <1> HIDE DEF x, e
  <1>3. OneVerdict(e, x)
    BY <1>1, <1>2, VerdictRight
  <1> QED
    BY <1>3 DEF x, e

\* Over every finite book, at every such moment, the headline says "closed, up to date"
\* exactly when the scheduler rests; and no kind of day or device leaves a value without a
\* source (app.ts summarizeCoverage, coverage-check.ts).
THEOREM HeadlineAlwaysHonest ==
    ASSUME case.of = "painted" => (\E m \in Moments : case.x = Context(m)) /\ IsPainted(case.p)
    PROVE  HeadlineHonest
  <1>1. ASSUME case.of = "painted" PROVE HeadlineTrue(case.p, case.x, Interval, 1)
    <2> DEFINE x == case.x
               p == case.p
    <2>1. PICK m \in Moments : x = Context(m)
      BY <1>1
    <2>2. IsPainted(p)
      BY <1>1
    <2> HIDE DEF x, p
    <2>3. HeadlineTrue(p, x, Interval, 1)
      BY <2>1, <2>2, HeadlineRight
    <2> QED
      BY <2>3 DEF x, p
  <1>2. NeverUncovered(case.m, case.f, case.b)
    BY AlwaysCovered
  <1> QED
    BY <1>1, <1>2 DEF HeadlineHonest

\* Every plan of a pull refreshes what is older than the interval and pays for nothing
\* twice, every delay serves both, and every fan-out gives a symbol one place and a
\* provider no more than it can take, for books of any symbols and any length
\* (data-orchestrator.ts, refresh-policy.ts, provider-fanout.ts, tiingo-gate.ts).
THEOREM PlansAlwaysRight ==
    ASSUME NEW Names,
           case.of = "plan" => case.k \in Kinds /\ case.i \in PullInputs,
           case.of = "delay" => case.d \in DelayInputs,
           case.of = "fanout" => /\ case.m \in Seq(Names) /\ case.f \in Seq(Names)
                                 /\ case.d \in Int /\ case.t \in Int,
           case.of = "chase" => /\ case.n \in Seq(Names) /\ case.p \in BOOLEAN
                                /\ case.r \in Int /\ case.q \in Nat \ {0}
    PROVE  PlansRight
  <1>1. case.of = "plan" => NothingStarves(case.k, case.i) /\ NothingTwice(case.k, case.i)
    BY PullSound
  <1>2. case.of = "delay" => DelaysSound(case.d)
    BY DelayRight
  <1>3. ASSUME case.of = "fanout"
        PROVE  /\ FanoutSound(case.k, case.m, case.f, case.d, case.t, case.b, case.s)
               /\ StartupSound(Len(case.m \o case.f), case.t, case.b)
    <2> DEFINE market == case.m
               nav == case.f
               credits == case.d
               tiingo == case.t
    <2>1. market \in Seq(Names) /\ nav \in Seq(Names) /\ credits \in Int /\ tiingo \in Int
      BY <1>3
    <2> HIDE DEF market, nav, credits, tiingo
    <2>2. FanoutSound(case.k, market, nav, credits, tiingo, case.b, case.s)
      BY <2>1, FanoutRight
    <2>3. Len(market \o nav) \in Nat
      BY <2>1, ConcatProperties, LenProperties
    <2>4. StartupSound(Len(market \o nav), tiingo, case.b)
      BY <2>1, <2>3, StartupRight
    <2> QED
      BY <2>2, <2>4 DEF market, nav, credits, tiingo
  <1>4. ASSUME case.of = "chase"
        PROVE  ChaseSound(case.n, case.p, case.t, case.k, FirstProbe + ProbeGrace, case.r, case.q)
    <2> DEFINE missing == case.n
               published == case.p
               room == case.r
               perRound == case.q
               instant == FirstProbe + ProbeGrace
    <2>1. /\ missing \in Seq(Names) /\ published \in BOOLEAN /\ room \in Int /\ perRound \in Nat \ {0}
          /\ instant \in Int
      BY <1>4, FanOutAssumption
    <2> HIDE DEF missing, published, room, perRound, instant
    <2>2. ChaseSound(missing, published, case.t, case.k, instant, room, perRound)
      BY <2>1, ChaseRight
    <2> QED
      BY <2>2 DEF missing, published, room, perRound, instant
  <1> QED
    BY <1>1, <1>2, <1>3, <1>4 DEF PlansRight

\* Every form of the calculator gets sound orders (allocation.ts, ui.ts).
THEOREM OrdersAlwaysSound ==
    ASSUME case.of = "form" => IsForm(case.f)
    PROVE  OrdersSound
  BY OrdersAlwaysRight DEF OrdersSound

----------------------------------------------------------------------------
(* The cache of quotes, and the board of movers. *)
\* Marks as the cache and its sources hold them, of instants since 1970; NoMark is one.
Marks == [price : Int, prev : Int, date : Nat, struck : Nat, at : Nat]
\* A mark is of no later session than the day it was struck or pulled on.
Dated(mark) == mark.date <= dayOf(instantOf(mark))

\* The fields of a mark.
LEMMA InstantType ==
    ASSUME NEW mark \in Marks
    PROVE  /\ mark.price \in Int /\ mark.prev \in Int /\ mark.date \in Nat /\ mark.struck \in Nat /\ mark.at \in Nat
           /\ instantOf(mark) \in Nat
           /\ mark.struck # 0 => instantOf(mark) = mark.struck
           /\ mark.struck = 0 => instantOf(mark) = mark.at
  BY DEF Marks, instantOf

\* A later instant is of no earlier day.
LEMMA DaysGrow ==
    ASSUME NEW s \in Nat, NEW t \in Nat, s <= t
    PROVE  dayOf(s) \in Nat /\ dayOf(t) \in Nat /\ dayOf(s) <= dayOf(t)
  <1>1. DayMinutes = 1440
    BY DEF DayMinutes
  <1> QED
    BY SMT, <1>1 DEF dayOf

\* The greater of two numbers.
LEMMA GreaterOf ==
    ASSUME NEW a \in Int, NEW b \in Int
    PROVE  Max({a, b}) = IF a >= b THEN a ELSE b
  <1>1. \A y \in {a, b} : (IF a >= b THEN a ELSE b) >= y
    OBVIOUS
  <1>2. ASSUME NEW x \in {a, b}, \A y \in {a, b} : x >= y PROVE x = IF a >= b THEN a ELSE b
    BY <1>2
  <1> DEFINE n == IF a >= b THEN a ELSE b
  <1>3. n \in {a, b}
    OBVIOUS
  <1>4. n \in {a, b} /\ (\A y \in {a, b} : n >= y) /\ \A x \in {a, b} : (\A y \in {a, b} : x >= y) => x = n
    BY <1>1, <1>2, <1>3
  <1> HIDE DEF n
  <1>5. Max({a, b}) = n
    BY <1>4 DEF Max
  <1> QED
    BY <1>5 DEF n

\* A mark from a provider or an export comes with its close before; a bar or a check with none.
Delivered(a, pulled, Closes) ==
    /\ a.how \in {"quote", "export", "bar", "check"}
    /\ a.how # "check" => a.mark \in Marks /\ a.mark.struck <= pulled
    /\ a.how \in {"quote", "export"} => a.mark.prev = Closes[a.mark.date]
    /\ a.how = "quote" => a.mark.date <= dayOf(IF a.mark.struck # 0 THEN a.mark.struck ELSE pulled)
    /\ a.how = "export" => a.mark.date <= dayOf(a.mark.struck)

\* Whatever the cache holds of a symbol and whatever arrives, only a pulled quote puts an
\* older price in the place of a newer one, a check changes when the price was last seen
\* and nothing else, a mark keeps the close of the session before its own unless a bar
\* begins one, and no mark is of a later session than its own instant (cache.ts).
THEOREM CacheAlwaysTrue ==
    ASSUME NEW cached \in Marks, Dated(cached), NEW pulled \in Nat, NEW Closes, NEW a, Delivered(a, pulled, Closes)
    PROVE  /\ CacheTrue(cached, a, pulled, Closes)
           /\ Arrived(cached, a, pulled) \in Marks /\ Dated(Arrived(cached, a, pulled))
  <1> DEFINE after == Arrived(cached, a, pulled)
             Paired(m) == m.prev = Closes[m.date]
             Keeps == after = NoMark \/ Paired(after)
  <1> SUFFICES /\ after \in Marks /\ Dated(after)
               /\ a.how # "quote" => instantOf(after) >= instantOf(cached)
               /\ cached # NoMark /\ a.how = "check" => after = [cached EXCEPT !.at = Max({cached.at, pulled})]
               /\ (cached = NoMark \/ Paired(cached))
                  /\ (a.how = "bar" => cached # NoMark /\ dayOf(a.mark.struck) <= cached.date) => Keeps
    BY DEF CacheTrue
  <1>1. /\ cached.price \in Int /\ cached.prev \in Int /\ cached.date \in Nat /\ cached.struck \in Nat
        /\ cached.at \in Nat /\ instantOf(cached) \in Nat
        /\ cached.struck # 0 => instantOf(cached) = cached.struck
        /\ cached.struck = 0 => instantOf(cached) = cached.at
        /\ cached.date <= dayOf(instantOf(cached))
    BY InstantType DEF Dated
  <1>2. ASSUME NEW t \in Nat, cached.at <= t, NEW w, w = [cached EXCEPT !.at = t]
        PROVE  /\ w \in Marks /\ Dated(w) /\ instantOf(w) >= instantOf(cached)
               /\ w.prev = cached.prev /\ w.date = cached.date /\ (cached = NoMark => w.date = 0)
    <2>1. /\ w \in Marks /\ w.at = t /\ w.struck = cached.struck /\ w.prev = cached.prev
          /\ w.date = cached.date
      BY <1>2 DEF Marks
    <2>2. instantOf(w) \in Nat /\ (w.struck # 0 => instantOf(w) = w.struck) /\ (w.struck = 0 => instantOf(w) = w.at)
      BY <2>1, InstantType
    <2>3. instantOf(w) >= instantOf(cached)
      BY <1>1, <1>2, <2>1, <2>2
    <2>4. dayOf(instantOf(cached)) <= dayOf(instantOf(w)) /\ dayOf(instantOf(cached)) \in Nat /\ dayOf(instantOf(w)) \in Nat
      BY <1>1, <2>2, <2>3, DaysGrow
    <2>5. Dated(w)
      BY <1>1, <2>1, <2>4 DEF Dated
    <2> QED
      BY <2>1, <2>3, <2>5 DEF NoMark
  <1>3. CASE after = cached /\ (cached # NoMark /\ a.how = "check" => pulled <= cached.at)
    <2>1. cached # NoMark /\ a.how = "check" => after = [cached EXCEPT !.at = Max({cached.at, pulled})]
      <3> SUFFICES ASSUME cached # NoMark, a.how = "check" PROVE cached = [cached EXCEPT !.at = Max({cached.at, pulled})]
        BY <1>3
      <3>1. Max({cached.at, pulled}) = cached.at
        BY <1>1, <1>3, GreaterOf
      <3> QED
        BY <3>1 DEF Marks
    <2> HIDE DEF after
    <2> QED
      BY <1>1, <1>3, <2>1
  <1>4. CASE a.how = "quote" /\ after # cached
    <2> DEFINE q == a.mark
    <2>1. after = [q EXCEPT !.at = pulled] /\ q \in Marks /\ q.prev = Closes[q.date] /\ q.struck <= pulled
          /\ q.date <= dayOf(IF q.struck # 0 THEN q.struck ELSE pulled)
      BY <1>4 DEF Arrived, writeCachedQuotes, Delivered
    <2> HIDE DEF after, q
    <2>2. /\ after \in Marks /\ after.at = pulled /\ after.struck = q.struck /\ after.prev = q.prev
          /\ after.date = q.date
      BY <2>1 DEF Marks
    <2>3. instantOf(after) = IF q.struck # 0 THEN q.struck ELSE pulled
      BY <2>2, InstantType
    <2>4. Dated(after) /\ Paired(after)
      BY <2>1, <2>2, <2>3 DEF Dated
    <2> QED
      BY <1>4, <2>2, <2>4
  <1>5. CASE a.how = "export" /\ after # cached
    <2> DEFINE q == a.mark
    <2>1. after = [q EXCEPT !.at = q.struck] /\ q \in Marks /\ q.prev = Closes[q.date]
          /\ q.date <= dayOf(q.struck) /\ q.struck > instantOf(cached)
      BY <1>5 DEF Arrived, primeQuotesFromExport, Delivered
    <2> HIDE DEF after, q
    <2>2. /\ after \in Marks /\ after.at = q.struck /\ after.struck = q.struck /\ after.prev = q.prev
          /\ after.date = q.date
      BY <2>1 DEF Marks
    <2>3. instantOf(after) = q.struck
      BY <2>2, InstantType
    <2>4. Dated(after) /\ Paired(after)
      BY <2>1, <2>2, <2>3 DEF Dated
    <2>5. instantOf(after) >= instantOf(cached)
      BY <1>1, <2>1, <2>2, <2>3, InstantType
    <2> QED
      BY <1>5, <2>2, <2>4, <2>5
  <1>6. CASE a.how = "check" /\ cached # NoMark /\ cached.at < pulled
    <2>1. after = [cached EXCEPT !.at = pulled]
      BY <1>6 DEF Arrived, markNavChecked
    <2>2. Max({cached.at, pulled}) = pulled
      BY <1>1, <1>6, GreaterOf
    <2> HIDE DEF after
    <2>3. after \in Marks /\ Dated(after) /\ instantOf(after) >= instantOf(cached)
          /\ after.prev = cached.prev /\ after.date = cached.date
      BY <1>1, <1>2, <1>6, <2>1
    <2>4. Paired(cached) => Paired(after)
      BY <2>3
    <2> QED
      BY <1>6, <2>1, <2>2, <2>3, <2>4
  <1>7. CASE a.how = "bar" /\ cached # NoMark /\ pulled > cached.at /\ after = [cached EXCEPT !.at = pulled]
    <2> HIDE DEF after
    <2>3. after \in Marks /\ Dated(after) /\ instantOf(after) >= instantOf(cached)
          /\ after.prev = cached.prev /\ after.date = cached.date
      BY <1>1, <1>2, <1>7
    <2>4. Paired(cached) => Paired(after)
      BY <2>3
    <2> QED
      BY <1>7, <2>3, <2>4
  <1> DEFINE bar == a.mark
  <1>8. CASE /\ a.how = "bar" /\ bar.struck > instantOf(cached)
             /\ after = [cached EXCEPT !.price = bar.price, !.date = dayOf(bar.struck), !.struck = bar.struck, !.at = pulled]
    <2>1. bar \in Marks
      BY <1>8 DEF Delivered
    <2>2. bar.price \in Int /\ bar.struck \in Nat
      BY <2>1, InstantType
    <2>3. dayOf(bar.struck) \in Nat /\ dayOf(instantOf(cached)) <= dayOf(bar.struck) /\ dayOf(instantOf(cached)) \in Nat
      BY <1>1, <1>8, <2>2, DaysGrow
    <2> HIDE DEF after, bar
    <2>4. /\ after \in Marks /\ after.struck = bar.struck /\ after.prev = cached.prev
          /\ after.date = dayOf(bar.struck)
      BY <1>8, <2>2, <2>3 DEF Marks
    <2>5. bar.struck # 0
      BY <1>1, <1>8, <2>2
    <2>6. instantOf(after) = bar.struck
      BY <2>4, <2>5, InstantType
    <2>7. Dated(after)
      BY <2>3, <2>4, <2>6 DEF Dated
    <2>8. Paired(cached) /\ dayOf(bar.struck) <= cached.date => Paired(after)
      <3> SUFFICES ASSUME Paired(cached), dayOf(bar.struck) <= cached.date PROVE Paired(after)
        OBVIOUS
      <3>1. dayOf(bar.struck) = cached.date
        BY <1>1, <2>3
      <3> QED
        BY <2>4, <3>1
    <2>9. instantOf(after) >= instantOf(cached)
      BY <1>1, <1>8, <2>2, <2>6
    <2> QED
      BY <1>8, <2>4, <2>7, <2>8, <2>9 DEF bar
  <1>9. a.how = "bar" => \/ after = cached
                         \/ cached # NoMark /\ pulled > cached.at /\ after = [cached EXCEPT !.at = pulled]
                         \/ /\ bar.struck > instantOf(cached)
                            /\ after = [cached EXCEPT !.price = bar.price, !.date = dayOf(bar.struck),
                                                      !.struck = bar.struck, !.at = pulled]
    BY DEF Arrived, primeQuotesFromBars
  <1>10. a.how = "check" => after = cached \/ (cached # NoMark /\ cached.at < pulled)
    BY DEF Arrived, markNavChecked
  <1>11. a.how \in {"quote", "export", "bar", "check"}
    BY DEF Delivered
  <1>12. cached # NoMark /\ ~(cached.at < pulled) => pulled <= cached.at
    BY <1>1
  <1> HIDE DEF after, bar, Keeps
  <1> QED
    BY <1>3, <1>4, <1>5, <1>6, <1>7, <1>8, <1>9, <1>10, <1>11, <1>12

\* In a finite set that a relation orders, one comes before all others.
LEMMA LeaderOf ==
    ASSUME NEW S, IsFiniteSet(S), S # {}, NEW L,
           \A i, j \in S : i # j => <<i, j>> \in L \/ <<j, i>> \in L,
           \A i, j, k \in S : <<i, j>> \in L /\ <<j, k>> \in L => <<i, k>> \in L,
           \A i \in S : <<i, i>> \notin L
    PROVE  \E i \in S : \A j \in S \ {i} : <<i, j>> \in L
  <1> DEFINE Ahead(x) == {y \in S : y = x \/ <<y, x>> \in L}
             B == {Ahead(x) : x \in S}
  <1>1. B \in SUBSET SUBSET S /\ B # {}
    <2>1. \A x \in S : Ahead(x) \in SUBSET S
      OBVIOUS
    <2> HIDE DEF Ahead
    <2> QED
      BY <2>1
  <1>2. PICK T \in B : \A U \in B : U \subseteq T => U = T
    <2> HIDE DEF B
    <2> QED
      BY <1>1, LeastOf
  <1>3. PICK x \in S : T = Ahead(x)
    OBVIOUS
  <1>4. ASSUME NEW y \in S, y # x, <<y, x>> \in L PROVE FALSE
    <2>1. Ahead(y) \subseteq Ahead(x)
      BY <1>4
    <2>2. Ahead(y) = Ahead(x)
      <3>1. Ahead(y) \in B
        OBVIOUS
      <3> HIDE DEF B, Ahead
      <3> QED
        BY <1>2, <1>3, <2>1, <3>1
    <2>3. x \in Ahead(x)
      OBVIOUS
    <2>4. x = y \/ <<x, y>> \in L
      BY <2>2, <2>3
    <2>5. <<x, x>> \in L
      BY <1>4, <2>4
    <2> QED
      BY <2>5
  <1>5. \A j \in S \ {x} : <<x, j>> \in L
    BY <1>4
  <1> QED
    BY <1>5

\* A whole side of the board is compared: the differences of integers, or of fractions.
LEMMA FirstByMoney ==
    ASSUME NEW S, IsFiniteSet(S), S # {}, \A i \in S : i \in Int,
           NEW key, \A i \in S : key[i] \in Int
    PROVE  \E i \in S : \A j \in S \ {i} : leads(i, j, key[i] - key[j])
  <1> DEFINE L == {p \in S \X S : leads(p[1], p[2], key[p[1]] - key[p[2]])}
  <1>1. \A i, j \in S : <<i, j>> \in L <=> key[i] > key[j] \/ (key[i] = key[j] /\ i < j)
    <2> SUFFICES ASSUME NEW i \in S, NEW j \in S
                 PROVE  leads(i, j, key[i] - key[j]) <=> key[i] > key[j] \/ (key[i] = key[j] /\ i < j)
      OBVIOUS
    <2>1. key[i] \in Int /\ key[j] \in Int
      OBVIOUS
    <2> QED
      BY <2>1 DEF leads
  <1> HIDE DEF L
  <1>2. \A i, j \in S : i # j => <<i, j>> \in L \/ <<j, i>> \in L
    BY <1>1
  <1>3. \A i, j, k \in S : <<i, j>> \in L /\ <<j, k>> \in L => <<i, k>> \in L
    BY <1>1
  <1>4. \A i \in S : <<i, i>> \notin L
    BY <1>1
  <1>5. PICK i \in S : \A j \in S \ {i} : <<i, j>> \in L
    BY <1>2, <1>3, <1>4, LeaderOf
  <1>6. \A j \in S \ {i} : leads(i, j, key[i] - key[j])
    BY <1>5 DEF L
  <1> QED
    BY <1>6

\* The order of fractions with positive denominators.
LEMMA CrossTransitive ==
    ASSUME NEW a \in Int, NEW b \in Int, NEW c \in Int, NEW p \in Nat \ {0}, NEW q \in Nat \ {0}, NEW r \in Nat \ {0},
           a * q >= b * p, b * r >= c * q
    PROVE  a * r >= c * p /\ (a * r = c * p => a * q = b * p /\ b * r = c * q)
  <1>1. (a * q) * r >= (b * p) * r
    BY SMT
  <1>2. (b * r) * p >= (c * q) * p
    BY SMT
  <1>3. (a * q) * r = q * (a * r) /\ (b * p) * r = (b * r) * p /\ (c * q) * p = q * (c * p)
    BY SMT
  <1>4. q * (a * r) >= q * (c * p)
    BY SMT, <1>1, <1>2, <1>3
  <1>5. a * r >= c * p
    BY SMT, <1>4
  <1>6. ASSUME a * r = c * p PROVE a * q = b * p /\ b * r = c * q
    <2>1. (a * q) * r = (b * p) * r /\ (b * r) * p = (c * q) * p
      BY SMT, <1>1, <1>2, <1>3, <1>6
    <2> QED
      BY SMT, <2>1
  <1> QED
    BY <1>5, <1>6

LEMMA FirstByShare ==
    ASSUME NEW S, IsFiniteSet(S), S # {}, \A i \in S : i \in Int, NEW sign \in {1, -1},
           NEW up, NEW of, \A i \in S : up[i] \in Int /\ of[i] \in Nat \ {0}
    PROVE  \E i \in S : \A j \in S \ {i} : leads(i, j, sign * (up[i] * of[j] - up[j] * of[i]))
  <1> DEFINE D(i, j) == sign * (up[i] * of[j] - up[j] * of[i])
             n(i) == sign * up[i]
             L == {p \in S \X S : leads(p[1], p[2], D(p[1], p[2]))}
  <1>1. \A i, j \in S : <<i, j>> \in L <=> n(i) * of[j] > n(j) * of[i] \/ (n(i) * of[j] = n(j) * of[i] /\ i < j)
    <2> SUFFICES ASSUME NEW i \in S, NEW j \in S
                 PROVE  leads(i, j, D(i, j)) <=>
                           n(i) * of[j] > n(j) * of[i] \/ (n(i) * of[j] = n(j) * of[i] /\ i < j)
      OBVIOUS
    <2> DEFINE a == up[i]
               b == up[j]
               p == of[i]
               q == of[j]
    <2>1. a \in Int /\ b \in Int /\ p \in Int /\ q \in Int
      OBVIOUS
    <2> HIDE DEF a, b, p, q
    <2>2. a * q \in Int /\ b * p \in Int
      BY <2>1
    <2>3. sign * (a * q - b * p) = (sign * a) * q - (sign * b) * p /\ (sign * a) * q \in Int /\ (sign * b) * p \in Int
      <3>1. CASE sign = 1
        BY SMT, <2>1, <2>2, <3>1
      <3>2. CASE sign = -1
        BY SMT, <2>1, <2>2, <3>2
      <3> QED
        BY <3>1, <3>2
    <2> DEFINE x == (sign * a) * q
               y == (sign * b) * p
    <2>4. x \in Int /\ y \in Int /\ sign * (a * q - b * p) = x - y
      BY <2>3
    <2> HIDE DEF x, y
    <2>5. leads(i, j, x - y) <=> x > y \/ (x = y /\ i < j)
      BY <2>4 DEF leads
    <2> QED
      BY <2>4, <2>5 DEF x, y, a, b, p, q
  <1>2. \A i \in S : n(i) \in Int /\ of[i] \in Nat \ {0} /\ \A j \in S : n(i) * of[j] \in Int
    <2>1. \A i \in S : n(i) \in Int /\ of[i] \in Nat \ {0}
      OBVIOUS
    <2> HIDE DEF n
    <2> QED
      BY <2>1
  <1> HIDE DEF L, D, n
  <1>3. \A i, j \in S : i # j => <<i, j>> \in L \/ <<j, i>> \in L
    <2> SUFFICES ASSUME NEW i \in S, NEW j \in S, i # j PROVE <<i, j>> \in L \/ <<j, i>> \in L
      OBVIOUS
    <2> DEFINE x == n(i) * of[j]
               y == n(j) * of[i]
    <2>1. x \in Int /\ y \in Int /\ i \in Int /\ j \in Int
      BY <1>2
    <2>2. (<<i, j>> \in L <=> x > y \/ (x = y /\ i < j)) /\ (<<j, i>> \in L <=> y > x \/ (y = x /\ j < i))
      BY <1>1
    <2> HIDE DEF x, y
    <2>3. x > y \/ (x = y /\ i < j) \/ y > x \/ (y = x /\ j < i)
      BY <2>1
    <2> QED
      BY <2>2, <2>3
  <1>4. \A i, j, k \in S : <<i, j>> \in L /\ <<j, k>> \in L => <<i, k>> \in L
    <2> SUFFICES ASSUME NEW i \in S, NEW j \in S, NEW k \in S, <<i, j>> \in L, <<j, k>> \in L
                 PROVE  <<i, k>> \in L
      OBVIOUS
    <2> DEFINE a == n(i)
               b == n(j)
               c == n(k)
               p == of[i]
               q == of[j]
               r == of[k]
    <2>1. /\ a \in Int /\ b \in Int /\ c \in Int /\ p \in Nat \ {0} /\ q \in Nat \ {0} /\ r \in Nat \ {0}
          /\ i \in Int /\ j \in Int /\ k \in Int
      BY <1>2
    <2>2. /\ a * q > b * p \/ (a * q = b * p /\ i < j)
          /\ b * r > c * q \/ (b * r = c * q /\ j < k)
          /\ <<i, k>> \in L <=> a * r > c * p \/ (a * r = c * p /\ i < k)
      BY <1>1
    <2> HIDE DEF a, b, c, p, q, r
    <2>3. a * q >= b * p /\ b * r >= c * q
      BY <2>1, <2>2
    <2>4. a * r >= c * p /\ (a * r = c * p => a * q = b * p /\ b * r = c * q)
      BY <2>1, <2>3, CrossTransitive
    <2>5. a * r > c * p \/ a * r = c * p
      BY <2>1, <2>4
    <2>6. a * r = c * p => i < k
      <3>1. a * q = b * p => ~(a * q > b * p)
        BY <2>1
      <3>2. b * r = c * q => ~(b * r > c * q)
        BY <2>1
      <3>3. a * r = c * p => i < j /\ j < k
        BY <2>2, <2>4, <3>1, <3>2
      <3> QED
        BY <2>1, <3>3
    <2> QED
      BY <2>2, <2>5, <2>6
  <1>5. \A i \in S : <<i, i>> \notin L
    <2> SUFFICES ASSUME NEW i \in S PROVE <<i, i>> \notin L
      OBVIOUS
    <2> DEFINE x == n(i) * of[i]
    <2>1. x \in Int /\ i \in Int
      BY <1>2
    <2>2. <<i, i>> \in L <=> x > x \/ (x = x /\ i < i)
      BY <1>1
    <2> HIDE DEF x
    <2>3. ~(x > x) /\ ~(i < i)
      BY <2>1
    <2> QED
      BY <2>2, <2>3
  <1>6. PICK i \in S : \A j \in S \ {i} : <<i, j>> \in L
    BY SMTT(30), <1>3, <1>4, <1>5, LeaderOf
  <1>7. \A j \in S \ {i} : leads(i, j, D(i, j))
    BY <1>6 DEF L
  <1> QED
    BY <1>7 DEF D

\* What buildMovers compares: moves and values of a day before, of holdings counted from one.
IsView(v) ==
    v.date \in Int /\ \A k \in Currencies : v.move[k] \in Int /\ v.before[k] \in Int
IsMover(v) == IsView(v) /\ Known(v.move[Euro]) /\ v.before[Euro] > 0

LEMMA MoverType ==
    ASSUME NEW v, IsMover(v), NEW c \in Currencies
    PROVE  /\ moveForCurrency(v, c) \in Int
           /\ share(v, c)[1] \in Int /\ share(v, c)[2] \in Nat \ {0}
  <1>1. /\ v.move[c] \in Int /\ v.before[c] \in Int /\ v.move[Euro] \in Int /\ v.before[Euro] \in Int
        /\ v.before[Euro] > 0
    BY DEF IsMover, IsView, Currencies
  <1>2. moveForCurrency(v, c) \in Int
    BY <1>1 DEF moveForCurrency, Otherwise
  <1>3. CASE Known(v.move[c]) /\ v.before[c] > 0
    <2>1. share(v, c) = <<v.move[c], v.before[c]>>
      BY <1>3 DEF share
    <2> QED
      BY <1>1, <1>2, <1>3, <2>1
  <1>4. CASE ~(Known(v.move[c]) /\ v.before[c] > 0)
    <2>1. share(v, c) = <<v.move[Euro], v.before[Euro]>>
      BY <1>4 DEF share
    <2> QED
      BY <1>1, <1>2, <2>1
  <1> QED
    BY <1>3, <1>4

\* A side names the largest move, and the largest share of all or of the rest.
LEMMA SideRight ==
    ASSUME NEW V, NEW pool, IsFiniteSet(pool), \A i \in pool : i \in Int /\ IsMover(V[i]),
           NEW sign \in {1, -1}, NEW c \in Currencies
    PROVE  LET side == pickMoverSide(V, pool, sign, c)
               named == {side[n] : n \in DOMAIN side}
           IN  /\ named \subseteq pool
               /\ side = <<>> => pool = {}
               /\ \A i \in pool : /\ byMoney(V, sign, c, side[1], i) >= 0
                                  /\ \E k \in named : byPct(V, sign, c, k, i) >= 0
  <1> DEFINE side == pickMoverSide(V, pool, sign, c)
             named == {side[n] : n \in DOMAIN side}
             first == CHOOSE i \in pool : \A j \in pool \ {i} : leads(i, j, byMoney(V, sign, c, i, j))
             rest == pool \ {first}
             second == CHOOSE i \in rest : \A j \in rest \ {i} : leads(i, j, byPct(V, sign, c, i, j))
             mv(i) == moveForCurrency(V[i], c)
  <1>1. side = IF pool = {} THEN <<>> ELSE IF rest = {} THEN <<first>> ELSE <<first, second>>
    BY DEF pickMoverSide
  <1>2. \A i \in pool : mv(i) \in Int /\ share(V[i], c)[1] \in Int /\ share(V[i], c)[2] \in Nat \ {0}
    BY MoverType
  <1>3. \A i, j \in pool : byMoney(V, sign, c, i, j) = sign * (mv(i) - mv(j))
    BY DEF byMoney
  <1>4. \A i \in pool : byMoney(V, sign, c, i, i) = 0 /\ byPct(V, sign, c, i, i) = 0
    <2> SUFFICES ASSUME NEW i \in pool PROVE byMoney(V, sign, c, i, i) = 0 /\ byPct(V, sign, c, i, i) = 0
      OBVIOUS
    <2> DEFINE a == mv(i)
               x == share(V[i], c)[1] * share(V[i], c)[2]
    <2>1. a \in Int
      BY <1>2
    <2>2. x \in Int
      <3> DEFINE n == share(V[i], c)[1]
                 d == share(V[i], c)[2]
      <3>1. n \in Int /\ d \in Int
        BY <1>2
      <3> HIDE DEF n, d
      <3>2. n * d \in Int
        BY <3>1
      <3> QED
        BY <3>2 DEF n, d
    <2>3. byMoney(V, sign, c, i, i) = sign * (a - a) /\ byPct(V, sign, c, i, i) = sign * (x - x)
      BY DEF byMoney, byPct
    <2> HIDE DEF a, x
    <2>4. sign * (a - a) = 0 /\ sign * (x - x) = 0
      BY <2>1, <2>2
    <2> QED
      BY <2>3, <2>4
  <1> HIDE DEF mv
  <1>5. ASSUME pool # {} PROVE first \in pool /\ \A i \in pool : byMoney(V, sign, c, first, i) >= 0
    <2> DEFINE key == [i \in pool |-> sign * mv(i)]
    <2>1. \A i \in pool : key[i] = sign * mv(i) /\ key[i] \in Int
      BY <1>2
    <2>2. \A i, j \in pool : byMoney(V, sign, c, i, j) = key[i] - key[j]
      <3> SUFFICES ASSUME NEW i \in pool, NEW j \in pool PROVE sign * (mv(i) - mv(j)) = key[i] - key[j]
        BY <1>3
      <3>1. mv(i) \in Int /\ mv(j) \in Int /\ key[i] = sign * mv(i) /\ key[j] = sign * mv(j)
        BY <1>2, <2>1
      <3> HIDE DEF key
      <3> QED
        BY <3>1
    <2> HIDE DEF key
    <2>3. \E i \in pool : \A j \in pool \ {i} : leads(i, j, key[i] - key[j])
      BY <1>5, <2>1, FirstByMoney
    <2>4. \E i \in pool : \A j \in pool \ {i} : leads(i, j, byMoney(V, sign, c, i, j))
      BY <2>2, <2>3
    <2>5. first \in pool /\ \A j \in pool \ {first} : leads(first, j, byMoney(V, sign, c, first, j))
      BY <2>4
    <2> HIDE DEF first
    <2>6. ASSUME NEW i \in pool \ {first} PROVE byMoney(V, sign, c, first, i) >= 0
      <3> DEFINE d == byMoney(V, sign, c, first, i)
      <3>1. d \in Int /\ leads(first, i, d)
        BY <2>1, <2>2, <2>5
      <3> HIDE DEF d
      <3>2. d >= 0
        BY <3>1 DEF leads
      <3> QED
        BY <3>2 DEF d
    <2> QED
      BY <1>4, <2>5, <2>6
  <1>6. ASSUME rest # {} PROVE second \in rest /\ \A i \in rest : byPct(V, sign, c, second, i) >= 0
    <2> DEFINE up == [i \in pool |-> share(V[i], c)[1]]
               of == [i \in pool |-> share(V[i], c)[2]]
    <2>1. \A i \in pool : up[i] \in Int /\ of[i] \in Nat \ {0}
      BY <1>2
    <2>2. \A i, j \in pool : byPct(V, sign, c, i, j) = sign * (up[i] * of[j] - up[j] * of[i])
      BY DEF byPct
    <2> HIDE DEF up, of, first
    <2>3. IsFiniteSet(rest)
      BY FS_Subset
    <2>4. \A i \in rest : i \in Int /\ up[i] \in Int /\ of[i] \in Nat \ {0} /\ i \in pool
      BY <2>1
    <2> HIDE DEF rest
    <2>5. \E i \in rest : \A j \in rest \ {i} : leads(i, j, sign * (up[i] * of[j] - up[j] * of[i]))
      BY <1>6, <2>3, <2>4, FirstByShare
    <2>6. \E i \in rest : \A j \in rest \ {i} : leads(i, j, byPct(V, sign, c, i, j))
      BY <2>2, <2>4, <2>5
    <2>7. second \in rest /\ \A j \in rest \ {second} : leads(second, j, byPct(V, sign, c, second, j))
      BY <2>6
    <2> HIDE DEF second
    <2>8. ASSUME NEW i \in rest \ {second} PROVE byPct(V, sign, c, second, i) >= 0
      <3> DEFINE d == byPct(V, sign, c, second, i)
      <3>1. d \in Int
        <4> DEFINE x == up[second] * of[i]
                   y == up[i] * of[second]
        <4>1. x \in Int /\ y \in Int
          <5>1. up[second] \in Int /\ of[i] \in Int /\ up[i] \in Int /\ of[second] \in Int
            BY <2>4, <2>7
          <5> QED
            BY <5>1
        <4>2. d = sign * (x - y)
          BY <2>2, <2>4, <2>7
        <4> HIDE DEF x, y, d
        <4>3. sign * (x - y) \in Int
          BY <4>1
        <4> QED
          BY <4>2, <4>3
      <3>2. leads(second, i, d)
        BY <2>7
      <3> HIDE DEF d
      <3>3. d >= 0
        BY <3>1, <3>2 DEF leads
      <3> QED
        BY <3>3 DEF d
    <2>9. second \in pool /\ byPct(V, sign, c, second, second) = 0
      BY <1>4, <2>4, <2>7
    <2> QED
      BY <2>7, <2>8, <2>9
  <1> HIDE DEF first, second, side
  <1>7. CASE pool = {}
    <2>1. DOMAIN side = {}
      BY <1>1, <1>7
    <2> QED
      BY <1>7, <2>1 DEF side
  <1>8. CASE pool # {} /\ rest = {}
    <2>1. side = <<first>>
      BY <1>1, <1>8
    <2>2. named = {first} /\ side # <<>> /\ side[1] = first
      BY <2>1
    <2>3. \A i \in pool : i = first
      BY <1>8
    <2>4. \A i \in pool : byPct(V, sign, c, first, i) >= 0
      BY <1>4, <2>3
    <2> HIDE DEF named
    <2>5. /\ named \subseteq pool /\ side # <<>>
          /\ \A i \in pool : byMoney(V, sign, c, side[1], i) >= 0 /\ \E k \in named : byPct(V, sign, c, k, i) >= 0
      BY <1>5, <1>8, <2>2, <2>4
    <2> QED
      BY <2>5 DEF side, named
  <1>9. CASE pool # {} /\ rest # {}
    <2>1. side = <<first, second>>
      BY <1>1, <1>9
    <2>2. named = {first, second} /\ side # <<>> /\ side[1] = first
      BY <2>1
    <2>3. first \in pool /\ second \in pool
      BY <1>5, <1>6, <1>9
    <2>4. ASSUME NEW i \in pool PROVE \E k \in {first, second} : byPct(V, sign, c, k, i) >= 0
      <3>1. CASE i = first
        BY <1>4, <2>3, <3>1
      <3>2. CASE i # first
        BY <1>6, <1>9, <3>2
      <3> QED
        BY <3>1, <3>2
    <2> HIDE DEF named
    <2>5. /\ named \subseteq pool /\ side # <<>>
          /\ \A i \in pool : byMoney(V, sign, c, side[1], i) >= 0 /\ \E k \in named : byPct(V, sign, c, k, i) >= 0
      BY <1>5, <1>9, <2>2, <2>3, <2>4
    <2> QED
      BY <2>5 DEF side, named
  <1> QED
    BY <1>7, <1>8, <1>9

\* Of every book's views: gainers and losers are apart and of one day, a side without a name
\* is empty, none on a side moved more than its first, nor by a larger share than all it names;
\* and when the two currencies agree on who gained, a gainer's figure is a gain
\* (compute.ts buildMovers).
THEOREM BoardAlwaysTrue ==
    ASSUME NEW V, IsFiniteSet(DOMAIN V), \A i \in DOMAIN V : i \in Int /\ IsView(V[i]),
           NEW r, NEW c \in Currencies,
           c # Euro /\ r.now = fxPrev(r) =>
              \A i \in DOMAIN V, sign \in {1, -1} :
                 IsMover(V[i]) /\ sign * V[i].move[Euro] > 0 => sign * moveForCurrency(V[i], c) > 0
    PROVE  BoardTrue(V, r, c)
  <1> DEFINE moved == {i \in DOMAIN V : Known(V[i].move[Euro]) /\ V[i].before[Euro] > 0}
             eligible == {i \in moved : \A j \in moved : V[j].date <= V[i].date}
             pool(sign) == {i \in eligible : sign * V[i].move[Euro] > 0}
             side(sign) == pickMoverSide(V, pool(sign), sign, c)
             named(sign) == {side(sign)[n] : n \in DOMAIN side(sign)}
             m == buildMovers(V, c)
  <1>1. m.eligible = eligible /\ m.winners = side(1) /\ m.losers = side(-1)
    BY DEF buildMovers
  <1>2. \A i \in eligible : i \in DOMAIN V /\ i \in Int /\ IsMover(V[i])
    BY DEF IsMover
  <1>3. \A i, j \in eligible : V[i].date = V[j].date
    <2> SUFFICES ASSUME NEW i \in eligible, NEW j \in eligible PROVE V[i].date = V[j].date
      OBVIOUS
    <2>1. V[i].date <= V[j].date /\ V[j].date <= V[i].date
      OBVIOUS
    <2>2. V[i].date \in Int /\ V[j].date \in Int
      BY <1>2 DEF IsMover, IsView
    <2> QED
      BY <2>1, <2>2
  <1>4. \A i \in eligible : V[i].move[Euro] \in Int
    BY <1>2 DEF IsMover, IsView, Currencies
  <1>5. IsFiniteSet(eligible)
    BY FS_Subset
  <1> HIDE DEF eligible, m
  <1>6. \A sign \in {1, -1} : pool(sign) \subseteq eligible /\ IsFiniteSet(pool(sign))
    BY <1>5, FS_Subset
  <1>7. ASSUME NEW sign \in {1, -1}
        PROVE  /\ named(sign) \subseteq pool(sign)
               /\ side(sign) = <<>> => pool(sign) = {}
               /\ \A i \in pool(sign) : /\ byMoney(V, sign, c, side(sign)[1], i) >= 0
                                        /\ \E k \in named(sign) : byPct(V, sign, c, k, i) >= 0
    <2> DEFINE P == pool(sign)
    <2>1. IsFiniteSet(P) /\ \A i \in P : i \in Int /\ IsMover(V[i])
      BY <1>2, <1>6
    <2> HIDE DEF P
    <2>2. LET s == pickMoverSide(V, P, sign, c)
              N == {s[n] : n \in DOMAIN s}
          IN  /\ N \subseteq P
              /\ s = <<>> => P = {}
              /\ \A i \in P : /\ byMoney(V, sign, c, s[1], i) >= 0
                              /\ \E k \in N : byPct(V, sign, c, k, i) >= 0
      BY <2>1, SideRight
    <2> QED
      BY <2>2 DEF P
  <1> HIDE DEF side
  <1>8. \A sign \in {1, -1}, i \in eligible : i \in pool(sign) <=> sign * V[i].move[Euro] > 0
    OBVIOUS
  <1>9. ASSUME NEW sign \in {1, -1}
        PROVE  /\ side(sign) = <<>> => \A i \in eligible : sign * V[i].move[Euro] <= 0
               /\ \A i \in eligible, n \in DOMAIN side(sign) :
                     sign * V[i].move[Euro] > 0 =>
                         /\ byMoney(V, sign, c, side(sign)[1], i) >= 0
                         /\ \E k \in named(sign) : byPct(V, sign, c, k, i) >= 0
               /\ c = Euro \/ r.now = fxPrev(r) => \A k \in named(sign) : sign * moveForCurrency(V[k], c) > 0
    <2>1. ASSUME side(sign) = <<>>, NEW i \in eligible PROVE sign * V[i].move[Euro] <= 0
      <3> DEFINE x == V[i].move[Euro]
      <3>1. ~(sign * x > 0) /\ x \in Int
        BY <1>4, <1>7, <1>8, <2>1
      <3> HIDE DEF x
      <3>2. sign * x <= 0
        BY <3>1
      <3> QED
        BY <3>2 DEF x
    <2>2. ASSUME NEW i \in eligible, sign * V[i].move[Euro] > 0
          PROVE  /\ byMoney(V, sign, c, side(sign)[1], i) >= 0
                 /\ \E k \in named(sign) : byPct(V, sign, c, k, i) >= 0
      BY <1>7, <1>8, <2>2
    <2>3. ASSUME c = Euro \/ r.now = fxPrev(r), NEW k \in named(sign) PROVE sign * moveForCurrency(V[k], c) > 0
      <3>1. k \in eligible /\ sign * V[k].move[Euro] > 0
        BY <1>6, <1>7, <1>8
      <3>2. k \in DOMAIN V /\ IsMover(V[k]) /\ Known(V[k].move[Euro])
        BY <1>2, <3>1 DEF IsMover
      <3>3. CASE c = Euro
        BY <3>1, <3>2, <3>3 DEF moveForCurrency, Otherwise
      <3>4. CASE c # Euro
        BY <2>3, <3>1, <3>2, <3>4
      <3> QED
        BY <3>3, <3>4
    <2> QED
      BY <2>1, <2>2, <2>3
  <1>10. named(1) \cap named(-1) = {}
    <2> SUFFICES ASSUME NEW i \in named(1), i \in named(-1) PROVE FALSE
      OBVIOUS
    <2> DEFINE x == V[i].move[Euro]
    <2>1. x \in Int /\ 1 * x > 0 /\ -1 * x > 0
      BY <1>4, <1>6, <1>7, <1>8
    <2> HIDE DEF x
    <2> QED
      BY <2>1
  <1>11. \A i, j \in named(1) \cup named(-1) : V[i].date = V[j].date
    BY <1>3, <1>6, <1>7
  <1> HIDE DEF pool
  <1> QED
    BY <1>1, <1>9, <1>10, <1>11 DEF BoardTrue, m

----------------------------------------------------------------------------
(* The baseline. *)

\* What a conversion is; an amount is converted when a rate is known or none is needed.
LEMMA ConvertIs ==
    ASSUME NEW x \in Int, x # Blank, NEW from \in Currencies, NEW to \in Currencies, NEW rate \in Int
    PROVE  /\ from = to => convert(x, from, to, rate) = x
           /\ from # to /\ ~Known(rate) => convert(x, from, to, rate) = Blank
           /\ from # to /\ Known(rate) /\ to = Euro => convert(x, from, to, rate) = (x * Unit) \div rate
           /\ from # to /\ Known(rate) /\ to # Euro => convert(x, from, to, rate) = (x * rate) \div Unit
  BY DEF convert, Known

LEMMA ConvertsTo ==
    ASSUME NEW x \in Int, x # Blank, NEW rate \in Int, Known(rate)
    PROVE  /\ convert(x, Dollar, Euro, rate) = (x * Unit) \div rate /\ convert(x, Euro, Dollar, rate) = (x * rate) \div Unit
           /\ convert(x, Euro, Euro, rate) = x /\ convert(x, Dollar, Dollar, rate) = x
  <1>1. Euro \in Currencies /\ Dollar \in Currencies /\ Euro # Dollar
    BY DEF Currencies, Euro, Dollar
  <1> QED
    BY <1>1, ConvertIs

\* Rates: today's and the one before, or none.
IsRates(r) ==
    \/ r.now \in Nat \ {0} /\ r.before \in (Nat \ {0}) \cup {Blank}
    \/ r.now = Blank /\ r.before = Blank

LEMMA RatesType ==
    ASSUME NEW r, IsRates(r)
    PROVE  /\ r.now \in (Nat \ {0}) \cup {Blank} /\ fxPrev(r) \in (Nat \ {0}) \cup {Blank}
           /\ Known(r.now) <=> Known(fxPrev(r))
  BY DEF IsRates, fxPrev, Known, Blank

\* What is not negative stays so.
LEMMA ConvertType ==
    ASSUME NEW x \in Nat, NEW from \in Currencies, NEW to \in Currencies, NEW rate \in (Nat \ {0}) \cup {Blank}
    PROVE  /\ convert(x, from, to, rate) \in Nat \cup {Blank}
           /\ Known(convert(x, from, to, rate)) <=> from = to \/ Known(rate)
  <1> DEFINE y == convert(x, from, to, rate)
  <1>1. x \in Int /\ x # Blank /\ rate \in Int /\ Unit = 1000 /\ Blank \in Int /\ Blank < 0
    BY DEF Blank, Unit
  <1>2. /\ from = to => y = x
        /\ from # to /\ ~Known(rate) => y = Blank
        /\ from # to /\ Known(rate) /\ to = Euro => y = (x * Unit) \div rate
        /\ from # to /\ Known(rate) /\ to # Euro => y = (x * rate) \div Unit
    BY <1>1, ConvertIs
  <1>3. Known(rate) => rate \in Nat \ {0}
    BY DEF Known
  <1>4. ASSUME rate \in Nat \ {0} PROVE (x * Unit) \div rate \in Nat /\ (x * rate) \div Unit \in Nat
    <2>1. x * Unit \in Nat /\ x * rate \in Nat
      BY <1>1, <1>4
    <2>2. \A n \in Nat, k \in Nat \ {0} : n \div k \in Nat
      OBVIOUS
    <2> QED
      BY <1>1, <1>4, <2>1, <2>2
  <1> HIDE DEF y
  <1>5. \A n \in Nat : Known(n)
    BY <1>1 DEF Known
  <1>6. ~Known(Blank)
    BY DEF Known
  <1>7. y \in Nat \/ (y = Blank /\ from # to /\ ~Known(rate))
    BY <1>2, <1>3, <1>4
  <1> QED
    BY <1>2, <1>3, <1>5, <1>6, <1>7 DEF y

\* A mark of a session, with the close of the session before it.
IsMarkOf(mark, tape, started) ==
    /\ mark.date \in Stretch .. started /\ isTradingDay(mark.date)
    /\ mark.price = tape[mark.date] /\ mark.price \in Nat
    /\ mark.prev = tape[previousTradingSession(mark.date)] /\ mark.prev \in Nat \ {0}

\* A holding priced once a session has such marks; a money-market fund has one price.
IsHolding(h, tape, started) ==
    /\ h.cur \in Currencies /\ h.shares \in Nat \ {0} /\ h.blob.date \in Nat
    /\ \A c \in Currencies : h.last[c] \in Nat \cup {Blank}
    /\ h.par => /\ h.quote = NoMark /\ h.blob.price \in Nat
                /\ \A d \in {seenDay(h), previousTradingSession(started)} : tape[d] = h.blob.price
    /\ ~h.par => /\ IsMarkOf(h.blob, tape, started)
                 /\ \/ h.quote = NoMark
                    \/ IsMarkOf(h.quote, tape, started) /\ (h.fund \/ dayOf(instantOf(h.quote)) = h.quote.date)

\* A holding is shown at its newest mark, and its step is from the close before that one.
LEMMA ShownIs ==
    ASSUME NEW started \in Stretch .. LastDay, NEW exported \in Int, NEW tape, NEW h, IsHolding(h, tape, started), ~h.par
    PROVE  LET seen == seenDay(h)
               shown == priceForHolding(h, exported)
               step == stepOf(h, shown)
           IN  /\ seen \in Stretch .. started /\ isTradingDay(seen)
               /\ shown.price = tape[seen] /\ shown.date = seen
               /\ step.now = tape[seen] /\ step.before = tape[previousTradingSession(seen)]
               /\ tape[seen] \in Nat /\ tape[previousTradingSession(seen)] \in Nat \ {0}
  <1> DEFINE seen == seenDay(h)
             shown == priceForHolding(h, exported)
             step == stepOf(h, shown)
             q == h.quote
             m == h.blob
             behind == quoteIsBehind(h, exported)
  <1>1. /\ m.date \in Int /\ 10 <= m.date /\ m.date <= started /\ isTradingDay(m.date)
        /\ m.price = tape[m.date] /\ m.price \in Nat
        /\ m.prev = tape[previousTradingSession(m.date)] /\ m.prev \in Nat \ {0}
    BY DEF IsHolding, IsMarkOf, Stretch
  <1>2. started \in Int
    BY Reach
  <1>3. q = NoMark \/ /\ q.date \in Int /\ 10 <= q.date /\ q.date <= started /\ isTradingDay(q.date)
                      /\ q.price = tape[q.date] /\ q.price \in Nat
                      /\ q.prev = tape[previousTradingSession(q.date)] /\ q.prev \in Nat \ {0}
                      /\ h.fund \/ dayOf(instantOf(q)) = q.date
    BY DEF IsHolding, IsMarkOf, Stretch
  <1>4. NoMark.date = 0 /\ NoMark.price = Blank
    BY DEF NoMark
  <1>5. \A n \in Nat : Known(n) /\ n # Blank
    BY DEF Known, Blank
  <1>6. seen = IF m.date >= q.date THEN m.date ELSE q.date
    <2>1. m.date \in Int /\ q.date \in Int
      BY <1>1, <1>3, <1>4
    <2> QED
      BY <2>1, GreaterOf DEF seenDay
  <1>7. fallbackDate(h, exported) = m.date
    BY <1>1 DEF fallbackDate
  <1>8. shown = IF Known(q.price) /\ ~behind
                THEN [price |-> q.price, live |-> TRUE, date |-> IF q.date # 0 THEN q.date ELSE m.date]
                ELSE [price |-> m.price, live |-> FALSE, date |-> m.date]
    BY <1>7 DEF priceForHolding
  <1>9. ASSUME q # NoMark PROVE behind <=> q.date < m.date
    <2>1. /\ q.date \in Int /\ 10 <= q.date /\ isTradingDay(q.date) /\ (h.fund \/ dayOf(instantOf(q)) = q.date)
      BY <1>3, <1>9
    <2>2. weekdayOf(q.date) \notin Weekend
      BY <2>1 DEF isTradingDay
    <2>3. Known(m.price) /\ q.date # 0
      BY <1>1, <1>5, <2>1
    <2>4. behind <=> IF h.fund THEN q.date = 0 \/ q.date < m.date \/ weekdayOf(q.date) \in Weekend
                               ELSE instantOf(q) # 0 /\ dayOf(instantOf(q)) < m.date
      BY <1>7, <2>3 DEF quoteIsBehind
    <2>5. dayOf(0) = 0
      BY DEF dayOf, DayMinutes
    <2>6. ~h.fund => instantOf(q) # 0 /\ dayOf(instantOf(q)) = q.date
      BY <2>1, <2>3, <2>5
    <2> QED
      BY <2>2, <2>3, <2>4, <2>6
  <1> HIDE DEF behind, seen, shown
  <1>10. CASE q # NoMark /\ m.date <= q.date
    <2>1. Known(q.price) /\ ~behind /\ q.date # 0 /\ seen = q.date
      BY <1>1, <1>3, <1>5, <1>6, <1>9, <1>10
    <2>2. shown.price = q.price /\ shown.live /\ shown.date = q.date
      BY <1>8, <2>1
    <2>3. q.prev \notin {Blank, 0} /\ q.date >= shown.date
      BY <1>3, <1>5, <1>10, <2>2
    <2>4. step = [now |-> q.price, before |-> q.prev]
      BY <2>1, <2>2, <2>3 DEF stepOf
    <2> QED
      BY <1>2, <1>3, <1>10, <2>1, <2>2, <2>4 DEF shown, seen, Stretch
  <1>11. CASE ~(q # NoMark /\ m.date <= q.date)
    <2>1. seen = m.date /\ ~(Known(q.price) /\ ~behind)
      BY <1>1, <1>3, <1>4, <1>6, <1>9, <1>11 DEF Known
    <2>2. shown.price = m.price /\ ~shown.live /\ shown.date = m.date
      BY <1>8, <2>1
    <2>3. ~(Known(q.price) /\ q.date # 0 /\ q.date >= shown.date)
      BY <1>1, <1>3, <1>4, <1>11, <2>2 DEF Known
    <2>4. Known(shown.price) /\ m.prev > 0
      BY <1>1, <1>5, <2>2
    <2>5. step = [now |-> shown.price, before |-> m.prev]
      BY <2>2, <2>3, <2>4 DEF stepOf
    <2> QED
      BY <1>1, <1>2, <2>1, <2>2, <2>5 DEF shown, seen, Stretch
  <1> QED
    BY <1>10, <1>11 DEF seen, shown

\* What a price of a day makes a holding worth, before what was last exported stands in.
Holds(h, tape, day, c, rate) ==
    LET price == convert(h.shares * tape[day], h.cur, c, rate)
        free == h.cur = c \/ Known(rate)
    IN /\ h.shares * tape[day] \in Nat /\ price \in Nat \cup {Blank} /\ (Known(price) <=> free)
       /\ heldAt(h, tape, day, c, rate) \in Nat \cup {Blank}
       /\ free => heldAt(h, tape, day, c, rate) = price /\ Known(heldAt(h, tape, day, c, rate))
       /\ ~free => heldAt(h, tape, day, c, rate) = h.last[c]

LEMMA HeldType ==
    ASSUME NEW h, h.cur \in Currencies, h.shares \in Nat \ {0}, \A k \in Currencies : h.last[k] \in Nat \cup {Blank},
           NEW tape, NEW day, tape[day] \in Nat, NEW c \in Currencies, NEW rate \in (Nat \ {0}) \cup {Blank}
    PROVE  Holds(h, tape, day, c, rate)
  <1> DEFINE x == h.shares * tape[day]
             y == convert(x, h.cur, c, rate)
  <1>1. x \in Nat
    <2>1. \A m, n \in Nat : m * n \in Nat
      OBVIOUS
    <2> QED
      BY <2>1
  <1> HIDE DEF x
  <1>2. y \in Nat \cup {Blank} /\ (Known(y) <=> h.cur = c \/ Known(rate))
    <2> DEFINE k == h.cur
    <2>1. k \in Currencies
      OBVIOUS
    <2> HIDE DEF k
    <2>2. LET z == convert(x, k, c, rate) IN z \in Nat \cup {Blank} /\ (Known(z) <=> k = c \/ Known(rate))
      BY <1>1, <2>1, ConvertType
    <2> QED
      BY <2>2 DEF k
  <1>3. heldAt(h, tape, day, c, rate) = IF Known(y) THEN y ELSE h.last[c]
    BY DEF heldAt, Otherwise, x
  <1>4. h.last[c] \in Nat \cup {Blank}
    OBVIOUS
  <1> HIDE DEF y
  <1> QED
    BY <1>1, <1>2, <1>3, <1>4 DEF x, y, Holds

\* A view: today's value at the newest mark, and for what is not a money-market fund the
\* value at the close before, at the rate before, and the two moves.
Viewed(h, tape, exported, rate, prior, started, c) ==
    LET v == buildHolding(h, exported, rate, prior)
        seen == seenDay(h)
        a == tape[seen]
        b == tape[previousTradingSession(seen)]
        was == convert(h.shares * b, h.cur, c, prior)
    IN /\ a \in Nat
       /\ v.cur = h.cur /\ v.native = h.shares * a /\ v.value[c] = heldAt(h, tape, seen, c, rate)
       /\ h.par => v.date = exported /\ v.move[c] = Blank /\ v.before[c] = Blank
       /\ ~h.par => /\ v.date = seen /\ seen \in Stretch .. started /\ isTradingDay(seen) /\ b \in Nat \ {0}
                    /\ v.before[c] = was
                    /\ v.move[c] = Minus(convert(h.shares * a, h.cur, c, rate), was)
                    /\ Known(a - b) => v.priceMove = convert(h.shares * (a - b), h.cur, Euro, rate)

LEMMA ViewIs ==
    ASSUME NEW started \in Stretch .. LastDay, NEW exported \in Int, NEW tape, NEW h, IsHolding(h, tape, started),
           NEW rate, NEW prior, NEW c \in Currencies
    PROVE  Viewed(h, tape, exported, rate, prior, started, c)
  <1> DEFINE v == buildHolding(h, exported, rate, prior)
             seen == seenDay(h)
             a == tape[seen]
             b == tape[previousTradingSession(seen)]
             was == convert(h.shares * b, h.cur, c, prior)
             shown == priceForHolding(h, exported)
             step == stepOf(h, shown)
             worth(price, k, r) == IF Known(price) THEN convert(h.shares * price, h.cur, k, r) ELSE Blank
  <1>1. \A n \in Nat : Known(n) /\ n # Blank
    BY DEF Known, Blank
  <1>2. shown.price = a /\ a \in Nat
    <2>1. CASE h.par
      <3>1. /\ h.quote = NoMark /\ a = h.blob.price /\ h.blob.price \in Nat
        BY <2>1 DEF IsHolding
      <3>2. ~Known(h.quote.price)
        BY <3>1 DEF NoMark, Known
      <3>3. shown.price = h.blob.price
        BY <3>2 DEF priceForHolding
      <3> QED
        BY <3>1, <3>3
    <2>2. CASE ~h.par
      BY <2>2, ShownIs
    <2> QED
      BY <2>1, <2>2
  <1>3. v.cur = h.cur /\ v.native = h.shares * a /\ v.date = shown.date
    BY <1>1, <1>2 DEF buildHolding
  <1>4. /\ v.value[c] = Otherwise(worth(shown.price, c, rate), h.last[c])
        /\ v.before[c] = worth(step.before, c, prior)
        /\ v.move[c] = Minus(worth(step.now, c, rate), worth(step.before, c, prior))
        /\ v.priceMove = worth(Minus(step.now, step.before), Euro, rate)
    BY DEF buildHolding, inBoth, Currencies, Euro, Dollar
  <1>5. v.value[c] = heldAt(h, tape, seen, c, rate)
    BY <1>1, <1>2, <1>4 DEF heldAt
  <1>6. CASE h.par
    <2>1. step = [now |-> Blank, before |-> Blank]
      BY <1>6 DEF stepOf
    <2>2. ~Known(Blank) /\ h.quote = NoMark
      BY <1>6 DEF Known, IsHolding
    <2>3. ~Known(h.quote.price)
      BY <2>2 DEF NoMark, Known
    <2>4. shown.date = exported
      BY <1>6, <2>3 DEF priceForHolding, fallbackDate
    <2>5. v.before[c] = Blank /\ v.move[c] = Blank
      BY <1>4, <2>1, <2>2 DEF Minus
    <2> QED
      BY <1>2, <1>3, <1>5, <1>6, <2>4, <2>5 DEF Viewed
  <1>7. CASE ~h.par
    <2>1. /\ seen \in Stretch .. started /\ isTradingDay(seen) /\ shown.date = seen
          /\ step.now = a /\ step.before = b /\ b \in Nat \ {0}
      BY <1>7, ShownIs
    <2>2. worth(step.before, c, prior) = was /\ worth(step.now, c, rate) = convert(h.shares * a, h.cur, c, rate)
      BY <1>1, <1>2, <2>1
    <2>3. Minus(step.now, step.before) = a - b
      BY <1>1, <1>2, <2>1 DEF Minus
    <2> HIDE DEF v, seen, a, b, was, shown, step
    <2> QED
      BY <1>2, <1>3, <1>4, <1>5, <1>7, <2>1, <2>2, <2>3 DEF v, seen, a, b, was, Viewed
  <1> QED
    BY <1>6, <1>7

\* The day a holding's baseline is of: the close before the session that began last, or the
\* day of its newest mark when that is older.
baseDay(h, started) ==
    LET before == previousTradingSession(started) IN IF seenDay(h) > before THEN before ELSE seenDay(h)

LEMMA BaseIs ==
    ASSUME NEW started \in Stretch .. LastDay, NEW h, NEW tape, IsHolding(h, tape, started)
    PROVE  LET seen == seenDay(h)
               before == previousTradingSession(started)
               base == baseDay(h, started)
           IN  /\ h.par => tape[base] = tape[seen]
               /\ ~h.par /\ seen >= started => base = before /\ before = previousTradingSession(seen)
               /\ ~h.par /\ ~(seen >= started) => base = seen
               /\ tape[seen] \in Nat /\ tape[base] \in Nat
  <1> DEFINE seen == seenDay(h)
             before == previousTradingSession(started)
             base == baseDay(h, started)
  <1>1. base = IF seen > before THEN before ELSE seen
    BY DEF baseDay
  <1>2. CASE h.par
    <2>1. tape[seen] = h.blob.price /\ tape[before] = h.blob.price /\ h.blob.price \in Nat
      BY <1>2 DEF IsHolding
    <2> HIDE DEF seen, before, base
    <2> QED
      BY <1>1, <1>2, <2>1 DEF seen, before, base
  <1>3. CASE ~h.par
    <2>1. /\ seen \in Stretch .. started /\ isTradingDay(seen) /\ tape[seen] \in Nat
          /\ tape[previousTradingSession(seen)] \in Nat
      <3>1. PICK exported \in Int : TRUE
        OBVIOUS
      <3> QED
        BY <1>3, <3>1, ShownIs
    <2>2. /\ started \in Int /\ before \in Int /\ before < started
          /\ \A e \in Int : before < e /\ e < started => ~isTradingDay(e)
      BY PreviousIs
    <2>3. seen \in Int /\ seen <= started /\ Stretch \in Int
      BY <2>1, <2>2 DEF Stretch
    <2> HIDE DEF seen, before, base
    <2>4. seen >= started => seen = started /\ base = before
      BY <1>1, <2>2, <2>3
    <2>5. ~(seen >= started) => base = seen
      BY <1>1, <2>1, <2>2, <2>3
    <2>6. seen = started => before = previousTradingSession(seen)
      BY DEF before
    <2> QED
      BY <1>3, <2>1, <2>4, <2>5, <2>6 DEF seen, before, base
  <1> QED
    BY <1>2, <1>3

\* What is divided without a rest is divided part by part.
LEMMA ExactParts ==
    ASSUME NEW m \in Nat, NEW n \in Nat, NEW k \in Nat \ {0}, m % k = 0, n % k = 0
    PROVE  (m - n) \div k = (m \div k) - (n \div k) /\ m = k * (m \div k) /\ n = k * (n \div k)
  <1> DEFINE p == m \div k
             q == n \div k
  <1>1. p \in Nat /\ q \in Nat /\ m = k * p /\ n = k * q
    OBVIOUS
  <1> HIDE DEF p, q
  <1>2. m - n = k * (p - q)
    <2>1. k * (p - q) = k * p - k * q
      BY <1>1
    <2> QED
      BY <1>1, <2>1
  <1>3. \A z \in Int : (k * z) \div k = z
    OBVIOUS
  <1>4. (m - n) \div k = p - q
    BY <1>1, <1>2, <1>3
  <1> QED
    BY <1>1, <1>4 DEF p, q

\* The model's whole amounts leave no rest of a holding at today's rate.
IsExact(h, tape, rate) ==
    \A day \in {seenDay(h), previousTradingSession(seenDay(h))} :
        ~h.par /\ Known(rate) => /\ h.cur = Dollar => (h.shares * tape[day] * Unit) % rate = 0
                                 /\ h.cur = Euro => (h.shares * tape[day] * rate) % Unit = 0

\* A difference is converted part by part.
LEMMA ConvertParts ==
    ASSUME NEW x \in Nat, NEW y \in Nat, NEW from \in Currencies, NEW rate \in (Nat \ {0}) \cup {Blank},
           from = Euro \/ Known(rate),
           x - y # Blank, Known(rate) /\ from = Dollar => (x * Unit) % rate = 0 /\ (y * Unit) % rate = 0
    PROVE  convert(x - y, from, Euro, rate) = convert(x, from, Euro, rate) - convert(y, from, Euro, rate)
  <1>1. x # Blank /\ y # Blank /\ x \in Int /\ y \in Int /\ x - y \in Int /\ rate \in Int /\ Euro # Dollar /\ Unit = 1000
    BY DEF Blank, Euro, Dollar, Unit
  <1>2. CASE from = Euro
    BY <1>1, <1>2, ConvertIs DEF Currencies
  <1>3. CASE from # Euro
    <2>1. from = Dollar /\ Known(rate) /\ rate \in Nat \ {0} /\ Euro \in Currencies
      BY <1>3 DEF Currencies, Known
    <2>2. /\ convert(x, from, Euro, rate) = (x * Unit) \div rate
          /\ convert(y, from, Euro, rate) = (y * Unit) \div rate
          /\ convert(x - y, from, Euro, rate) = ((x - y) * Unit) \div rate
      BY <1>1, <1>3, <2>1, ConvertIs
    <2>3. (x - y) * Unit = x * Unit - y * Unit /\ x * Unit \in Nat /\ y * Unit \in Nat
      BY <1>1
    <2>4. (x * Unit) % rate = 0 /\ (y * Unit) % rate = 0
      BY <2>1
    <2> DEFINE m == x * Unit
               n == y * Unit
    <2> HIDE DEF m, n
    <2>5. (m - n) \div rate = (m \div rate) - (n \div rate)
      BY <2>1, <2>3, <2>4, ExactParts DEF m, n
    <2> QED
      BY <2>2, <2>3, <2>5 DEF m, n
  <1> QED
    BY <1>2, <1>3

\* A holding that is of the session that began last has moved, in every currency a rate
\* reaches; no other has.
MovesRight(h, tape, exported, r, started, c) ==
    LET v == buildHolding(h, exported, r.now, fxPrev(r))
        moved == movedToday(v, started) /\ Known(v.move[c])
    IN /\ moved <=> ~h.par /\ seenDay(h) >= started /\ (h.cur = c \/ Known(r.now))
       /\ moved => v.move[c] = heldAt(h, tape, seenDay(h), c, r.now) - heldAt(h, tape, baseDay(h, started), c, fxPrev(r))

LEMMA MovedIs ==
    ASSUME NEW started \in Stretch .. LastDay, NEW exported \in Int, NEW tape, NEW h, IsHolding(h, tape, started),
           NEW r, IsRates(r),
           \A k \in Currencies : heldAt(h, tape, baseDay(h, started), k, fxPrev(r)) < -Blank
    PROVE  \A c \in Currencies : MovesRight(h, tape, exported, r, started, c)
  <1> DEFINE prior == fxPrev(r)
             v == buildHolding(h, exported, r.now, prior)
             seen == seenDay(h)
             base == baseDay(h, started)
             to(day, k, rate) == heldAt(h, tape, day, k, rate)
             view(c) == Viewed(h, tape, exported, r.now, prior, started, c)
  <1>0. \A c \in Currencies : view(c)
    BY ViewIs
  <1>1. /\ r.now \in (Nat \ {0}) \cup {Blank} /\ prior \in (Nat \ {0}) \cup {Blank}
        /\ Known(r.now) <=> Known(prior)
    BY RatesType
  <1>2. /\ h.cur \in Currencies /\ h.shares \in Nat \ {0} /\ \A k \in Currencies : h.last[k] \in Nat \cup {Blank}
    BY DEF IsHolding
  <1>3. \A n \in Nat : Known(n) /\ n # Blank
    BY DEF Known, Blank
  <1>4. ~Known(Blank) /\ Blank \in Int
    BY DEF Known, Blank
  <1>5. CASE h.par
    <2>1. \A c \in Currencies : v.move[c] = Blank
      BY <1>0, <1>5 DEF Viewed
    <2> HIDE DEF v
    <2>2. \A c \in Currencies : ~Known(v.move[c])
      BY <1>4, <2>1
    <2> QED
      BY <1>5, <2>2 DEF v, MovesRight
  <1>6. CASE ~h.par /\ ~(seen >= started)
    <2>1. v.date = seen
      <3> Euro \in Currencies
        BY DEF Currencies
      <3> QED
        BY <1>0, <1>6 DEF Viewed
    <2>2. ~(v.date >= started)
      BY <1>6, <2>1
    <2>3. ~movedToday(v, started)
      BY <2>2 DEF movedToday
    <2> QED
      BY <1>6, <2>3 DEF MovesRight
  <1>7. CASE ~h.par /\ seen >= started
    <2>1. tape[seen] \in Nat /\ tape[base] \in Nat /\ base = previousTradingSession(seen)
      BY <1>7, BaseIs
    <2>2. ASSUME NEW c \in Currencies
          PROVE  /\ Known(v.move[c]) <=> h.cur = c \/ Known(r.now)
                 /\ h.cur = c \/ Known(r.now) => v.move[c] = to(seen, c, r.now) - to(base, c, prior)
                 /\ v.date = seen
      <3> DEFINE n == convert(h.shares * tape[seen], h.cur, c, r.now)
                 w == convert(h.shares * tape[base], h.cur, c, prior)
      <3>1. v.date = seen /\ v.move[c] = Minus(n, w)
        BY <1>0, <1>7, <2>1 DEF Viewed
      <3>2. /\ n \in Nat \cup {Blank} /\ (Known(n) <=> h.cur = c \/ Known(r.now))
            /\ h.cur = c \/ Known(r.now) => to(seen, c, r.now) = n
        <4>1. Holds(h, tape, seen, c, r.now)
          BY <1>1, <1>2, <2>1, HeldType
        <4> QED
          BY <4>1 DEF Holds
      <3>3. /\ w \in Nat \cup {Blank} /\ (Known(w) <=> h.cur = c \/ Known(prior))
            /\ h.cur = c \/ Known(prior) => to(base, c, prior) = w
        <4>1. Holds(h, tape, base, c, prior)
          BY <1>1, <1>2, <2>1, HeldType
        <4> QED
          BY <4>1 DEF Holds
      <3>4. to(base, c, prior) < -Blank
        OBVIOUS
      <3> HIDE DEF n, w, v, to
      <3>5. CASE h.cur = c \/ Known(r.now)
        <4>1. n \in Nat /\ w \in Nat /\ w < -Blank /\ Known(n) /\ Known(w)
          BY <1>1, <1>4, <3>2, <3>3, <3>4, <3>5
        <4>2. v.move[c] = n - w
          BY <3>1, <4>1 DEF Minus
        <4>3. n - w # Blank
          BY <1>4, <4>1
        <4> QED
          BY <1>1, <3>1, <3>2, <3>3, <3>5, <4>2, <4>3 DEF Known
      <3>6. CASE ~(h.cur = c \/ Known(r.now))
        <4>1. v.move[c] = Blank
          BY <3>1, <3>2, <3>6 DEF Minus
        <4> QED
          BY <1>4, <3>1, <3>6, <4>1
      <3> QED
        BY <3>5, <3>6 DEF v, to
    <2> HIDE DEF v, to
    <2>3. movedToday(v, started)
      <3>1. Known(v.move[h.cur]) /\ v.date >= started
        BY <1>2, <1>7, <2>2
      <3> QED
        BY <1>2, <3>1 DEF movedToday
    <2>4. \A c \in Currencies :
             /\ Known(v.move[c]) <=> h.cur = c \/ Known(r.now)
             /\ h.cur = c \/ Known(r.now) => v.move[c] = to(seen, c, r.now) - to(base, c, prior)
      BY <2>2
    <2> QED
      BY <1>7, <2>3, <2>4 DEF v, to, MovesRight
  <1> QED
    BY <1>5, <1>6, <1>7

\* What a holding adds to the baseline is what it was worth then, whichever of the day's
\* prices have arrived.
LEMMA BaselineOf ==
    ASSUME NEW started \in Stretch .. LastDay, NEW exported \in Int, NEW tape, NEW h, IsHolding(h, tape, started),
           NEW r, IsRates(r),
           \A k \in Currencies : heldAt(h, tape, baseDay(h, started), k, fxPrev(r)) < -Blank,
           NEW c \in Currencies
    PROVE  valueBefore(buildHolding(h, exported, r.now, fxPrev(r)), c, fxPrev(r), started)
              = KnownOrNone(heldAt(h, tape, baseDay(h, started), c, fxPrev(r)))
  <1> DEFINE prior == fxPrev(r)
             v == buildHolding(h, exported, r.now, prior)
             seen == seenDay(h)
             base == baseDay(h, started)
             today == heldAt(h, tape, seen, c, r.now)
             was == heldAt(h, tape, base, c, prior)
             still == convert(v.native, v.cur, c, prior)
             moved == movedToday(v, started) /\ Known(v.move[c])
             free == h.cur = c \/ Known(r.now)
  <1>1. /\ r.now \in (Nat \ {0}) \cup {Blank} /\ prior \in (Nat \ {0}) \cup {Blank}
        /\ Known(r.now) <=> Known(prior)
    BY RatesType
  <1>2. /\ h.cur \in Currencies /\ h.shares \in Nat \ {0} /\ \A k \in Currencies : h.last[k] \in Nat \cup {Blank}
    BY DEF IsHolding
  <1>3. \A n \in Nat : Known(n) /\ n # Blank
    BY DEF Known, Blank
  <1>4. /\ v.cur = h.cur /\ v.native = h.shares * tape[seen] /\ v.value[c] = today
    <2>1. Viewed(h, tape, exported, r.now, prior, started, c)
      BY ViewIs
    <2> QED
      BY <2>1 DEF Viewed
  <1>5. tape[seen] \in Nat /\ tape[base] \in Nat
    BY BaseIs
  <1>6. /\ today \in Nat \cup {Blank}
        /\ free => Known(today)
        /\ ~free => today = h.last[c]
    <2>1. Holds(h, tape, seen, c, r.now)
      BY <1>1, <1>2, <1>5, HeldType
    <2> QED
      BY <2>1 DEF Holds
  <1>7. /\ was \in Nat \cup {Blank}
        /\ free => Known(was)
        /\ ~free => was = h.last[c]
    <2>1. Holds(h, tape, base, c, prior)
      BY <1>1, <1>2, <1>5, HeldType
    <2> QED
      BY <1>1, <2>1 DEF Holds
  <1>8. MovesRight(h, tape, exported, r, started, c)
    BY MovedIs
  <1>9. (moved <=> ~h.par /\ seen >= started /\ free) /\ (moved => v.move[c] = today - was)
    BY <1>8 DEF MovesRight
  <1>10. ~(~h.par /\ seen >= started) => /\ free => Known(still) /\ still = was
                                         /\ ~free => ~Known(still)
    <2> DEFINE x == convert(h.shares * tape[seen], h.cur, c, prior)
               y == convert(h.shares * tape[base], h.cur, c, prior)
    <2>1. still = x
      BY <1>4
    <2>2. Known(x) <=> free
      <3>1. Holds(h, tape, seen, c, prior)
        BY <1>1, <1>2, <1>5, HeldType
      <3> QED
        BY <1>1, <3>1 DEF Holds
    <2>3. free => was = y
      <3>1. Holds(h, tape, base, c, prior)
        BY <1>1, <1>2, <1>5, HeldType
      <3> QED
        BY <1>1, <3>1 DEF Holds
    <2>4. ~(~h.par /\ seen >= started) => tape[base] = tape[seen]
      BY BaseIs
    <2> HIDE DEF still, was, free
    <2> QED
      BY <2>1, <2>2, <2>3, <2>4
  <1>11. valueBefore(v, c, prior, started) =
             IF ~Known(v.value[c]) THEN 0 ELSE IF moved THEN v.value[c] - v.move[c] ELSE Otherwise(still, v.value[c])
    BY DEF valueBefore
  <1>12. ~Known(still) /\ free => moved
    BY <1>9, <1>10
  <1>13. ~free => ~Known(still)
    <2>1. Holds(h, tape, seen, c, prior)
      BY <1>1, <1>2, <1>5, HeldType
    <2> QED
      BY <1>1, <1>4, <2>1 DEF Holds
  <1> HIDE DEF v, today, was, still, moved, free, prior, base
  <1>14. CASE free /\ moved
    <2>1. today \in Nat /\ was \in Nat /\ Known(today) /\ Known(was)
      <3>1. ~Known(Blank)
        BY DEF Known
      <3> QED
        BY <1>6, <1>7, <1>14, <3>1
    <2>2. valueBefore(v, c, prior, started) = today - (today - was)
      BY <1>4, <1>9, <1>11, <1>14, <2>1
    <2> QED
      BY <2>1, <2>2 DEF KnownOrNone, v, was, base, prior
  <1>15. CASE free /\ ~moved
    <2>1. Known(today) /\ Known(was)
      BY <1>6, <1>7, <1>15
    <2>2. ~(~h.par /\ seen >= started)
      BY <1>9, <1>15
    <2>3. Known(still) /\ still = was
      BY <1>10, <1>15, <2>2
    <2>4. valueBefore(v, c, prior, started) = was
      BY <1>4, <1>11, <1>15, <2>1, <2>3 DEF Otherwise
    <2> QED
      BY <2>1, <2>4 DEF KnownOrNone, v, was, base, prior
  <1>16. CASE ~free
    <2>1. today = was /\ ~moved /\ ~Known(still)
      BY <1>6, <1>7, <1>9, <1>13, <1>16
    <2>2. valueBefore(v, c, prior, started) = IF Known(was) THEN was ELSE 0
      BY <1>4, <1>11, <2>1 DEF Otherwise
    <2> QED
      BY <2>2 DEF KnownOrNone, v, was, base, prior
  <1> QED
    BY <1>14, <1>15, <1>16

\* What a holding has moved by its price alone is what it is worth now less what it would
\* have been worth then at the same rate; one without a move is worth the same.
LEMMA PriceMoveOf ==
    ASSUME NEW started \in Stretch .. LastDay, NEW exported \in Int, NEW tape, NEW h, IsHolding(h, tape, started),
           NEW r, IsRates(r), IsExact(h, tape, r.now),
           \A k \in Currencies, rate \in {r.now, fxPrev(r)} : heldAt(h, tape, baseDay(h, started), k, rate) < -Blank
    PROVE  LET v == buildHolding(h, exported, r.now, fxPrev(r))
               moved == movedToday(v, started) /\ Known(v.move[Euro])
               worth(day) == KnownOrNone(heldAt(h, tape, day, Euro, r.now))
           IN  /\ moved => Known(v.priceMove) /\ v.priceMove = worth(seenDay(h)) - worth(baseDay(h, started))
               /\ ~moved => worth(seenDay(h)) = worth(baseDay(h, started))
  <1> DEFINE v == buildHolding(h, exported, r.now, fxPrev(r))
             moved == movedToday(v, started) /\ Known(v.move[Euro])
             seen == seenDay(h)
             base == baseDay(h, started)
             x == h.shares * tape[seen]
             y == h.shares * tape[base]
             today == heldAt(h, tape, seen, Euro, r.now)
             was == heldAt(h, tape, base, Euro, r.now)
  <1>1. /\ r.now \in (Nat \ {0}) \cup {Blank} /\ fxPrev(r) \in (Nat \ {0}) \cup {Blank}
        /\ Known(r.now) <=> Known(fxPrev(r))
    BY RatesType
  <1>2. /\ h.cur \in Currencies /\ h.shares \in Nat \ {0} /\ \A k \in Currencies : h.last[k] \in Nat \cup {Blank}
        /\ Euro \in Currencies
    BY DEF IsHolding, Currencies
  <1>3. tape[seen] \in Nat /\ tape[base] \in Nat
    BY BaseIs
  <1>4. /\ h.par => tape[base] = tape[seen]
        /\ ~h.par /\ seen >= started => base = previousTradingSession(seen)
        /\ ~h.par /\ ~(seen >= started) => base = seen
    BY BaseIs
  <1>5. moved <=> ~h.par /\ seen >= started /\ (h.cur = Euro \/ Known(r.now))
    <2>1. MovesRight(h, tape, exported, r, started, Euro)
      BY <1>2, MovedIs
    <2> QED
      BY <2>1 DEF MovesRight
  <1>6. Holds(h, tape, seen, Euro, r.now) /\ Holds(h, tape, base, Euro, r.now)
    BY <1>1, <1>2, <1>3, HeldType
  <1>7. ASSUME moved PROVE Known(v.priceMove) /\ v.priceMove = KnownOrNone(today) - KnownOrNone(was)
    <2>1. ~h.par /\ seen >= started /\ (h.cur = Euro \/ Known(r.now)) /\ base = previousTradingSession(seen)
      BY <1>4, <1>5, <1>7
    <2>2. /\ today = convert(x, h.cur, Euro, r.now) /\ was = convert(y, h.cur, Euro, r.now)
          /\ Known(today) /\ Known(was) /\ today \in Nat \cup {Blank} /\ was \in Nat \cup {Blank} /\ was < -Blank
          /\ x \in Nat /\ y \in Nat
      BY <1>2, <1>6, <2>1 DEF Holds
    <2>3. today \in Nat /\ was \in Nat
      BY <2>2 DEF Known
    <2>4. y < -Blank
      <3>1. Holds(h, tape, base, h.cur, fxPrev(r))
        BY <1>1, <1>2, <1>3, HeldType
      <3>2. heldAt(h, tape, base, h.cur, fxPrev(r)) = convert(y, h.cur, h.cur, fxPrev(r))
        BY <3>1 DEF Holds
      <3>3. convert(y, h.cur, h.cur, fxPrev(r)) = y
        BY DEF convert
      <3>4. heldAt(h, tape, base, h.cur, fxPrev(r)) < -Blank
        BY <1>2
      <3> QED
        BY <3>2, <3>3, <3>4
    <2>5. /\ tape[seen] - tape[base] \in Int /\ tape[base] <= y
          /\ h.shares * (tape[seen] - tape[base]) = x - y
      <3> DEFINE s == h.shares
                 a == tape[seen]
                 b == tape[base]
      <3>1. s \in Nat \ {0} /\ a \in Nat /\ b \in Nat
        BY <1>2, <1>3
      <3> HIDE DEF s, a, b
      <3>2. b <= s * b /\ s * (a - b) = s * a - s * b /\ a - b \in Int
        BY <3>1
      <3> QED
        BY <3>2 DEF s, a, b
    <2>6. Known(tape[seen] - tape[base]) /\ x - y # Blank
      <3>1. Blank \in Int
        BY DEF Blank
      <3>2. tape[seen] - tape[base] # Blank
        BY <1>3, <2>2, <2>4, <2>5, <3>1
      <3>3. x - y # Blank
        BY <2>2, <2>4, <3>1
      <3> QED
        BY <3>2, <3>3 DEF Known
    <2>7. v.priceMove = convert(x - y, h.cur, Euro, r.now)
      <3>1. Viewed(h, tape, exported, r.now, fxPrev(r), started, Euro)
        BY <1>2, ViewIs
      <3> QED
        BY <2>1, <2>5, <2>6, <3>1 DEF Viewed
    <2>8. Known(r.now) /\ h.cur = Dollar => (x * Unit) % r.now = 0 /\ (y * Unit) % r.now = 0
      BY <2>1 DEF IsExact
    <2>9. v.priceMove = today - was
      <3> DEFINE k == h.cur
                 rate == r.now
      <3>1. k = Euro \/ Known(rate)
        BY <2>1
      <3>2. Known(rate) /\ k = Dollar => (x * Unit) % rate = 0 /\ (y * Unit) % rate = 0
        BY <2>8
      <3>3. k \in Currencies /\ rate \in (Nat \ {0}) \cup {Blank} /\ x \in Nat /\ y \in Nat /\ x - y # Blank
        BY <1>1, <1>2, <2>2, <2>6
      <3>4. today = convert(x, k, Euro, rate) /\ was = convert(y, k, Euro, rate) /\ v.priceMove = convert(x - y, k, Euro, rate)
        BY <2>2, <2>7
      <3> HIDE DEF k, rate, x, y, v, today, was
      <3>5. convert(x - y, k, Euro, rate) = convert(x, k, Euro, rate) - convert(y, k, Euro, rate)
        BY <3>1, <3>2, <3>3, ConvertParts
      <3> QED
        BY <3>4, <3>5
    <2>10. today - was # Blank
      <3>1. Blank \in Int
        BY DEF Blank
      <3> QED
        BY <2>2, <2>3, <3>1
    <2> HIDE DEF v, today, was
    <2> QED
      BY <2>2, <2>9, <2>10 DEF KnownOrNone, Known
  <1>8. ASSUME ~moved PROVE today = was
    <2>1. CASE tape[base] = tape[seen]
      BY <2>1 DEF heldAt
    <2>2. CASE ~(h.cur = Euro \/ Known(r.now))
      BY <1>6, <2>2 DEF Holds
    <2> QED
      BY <1>4, <1>5, <1>8, <2>1, <2>2
  <1> QED
    BY <1>7, <1>8

\* Exact quotients are ordered as what was divided.
LEMMA SameOrder ==
    ASSUME NEW x \in Nat, NEW y \in Nat, NEW k \in Nat \ {0}, NEW d \in Nat \ {0}, (x * k) % d = 0, (y * k) % d = 0
    PROVE  LET p == (x * k) \div d
               q == (y * k) \div d
           IN  p \in Nat /\ q \in Nat /\ (x > y <=> p > q) /\ (x < y <=> p < q)
  <1> DEFINE m == x * k
             n == y * k
             p == m \div d
             q == n \div d
  <1>1. m \in Nat /\ n \in Nat
    OBVIOUS
  <1> HIDE DEF m, n
  <1>2. m % d = 0 /\ n % d = 0
    BY DEF m, n
  <1>3. p \in Nat /\ q \in Nat /\ m = d * p /\ n = d * q
    BY <1>1, <1>2
  <1> HIDE DEF p, q
  <1>4. m = k * x /\ n = k * y
    BY DEF m, n
  <1>5. \A a, b \in Nat : (a > b => d * a > d * b) /\ (a > b => k * a > k * b)
    OBVIOUS
  <1>6. (x > y <=> m > n) /\ (x < y <=> m < n)
    BY <1>4, <1>5
  <1>7. (p > q <=> m > n) /\ (p < q <=> m < n)
    BY <1>3, <1>5
  <1> QED
    BY <1>3, <1>6, <1>7 DEF p, q, m, n

\* The views of a book are what the board compares.
LEMMA ViewType ==
    ASSUME NEW started \in Stretch .. LastDay, NEW exported \in Int, NEW tape, NEW h, IsHolding(h, tape, started),
           NEW r, IsRates(r)
    PROVE  IsView(buildHolding(h, exported, r.now, fxPrev(r)))
  <1> DEFINE v == buildHolding(h, exported, r.now, fxPrev(r))
             a == tape[seenDay(h)]
             b == tape[previousTradingSession(seenDay(h))]
  <1>1. r.now \in (Nat \ {0}) \cup {Blank} /\ fxPrev(r) \in (Nat \ {0}) \cup {Blank} /\ Blank \in Int
    BY RatesType DEF Blank
  <1>2. h.cur \in Currencies /\ h.shares \in Nat \ {0}
    BY DEF IsHolding
  <1>3. \A c \in Currencies : Viewed(h, tape, exported, r.now, fxPrev(r), started, c)
    BY ViewIs
  <1>4. v.date \in Int
    <2>1. Viewed(h, tape, exported, r.now, fxPrev(r), started, Euro)
      BY <1>3 DEF Currencies
    <2>2. (h.par => v.date = exported) /\ (~h.par => v.date \in Stretch .. started)
      BY <2>1 DEF Viewed
    <2>3. \A n \in Stretch .. started : n \in Int
      OBVIOUS
    <2> QED
      BY <2>2, <2>3
  <1>5. ASSUME NEW c \in Currencies PROVE v.move[c] \in Int /\ v.before[c] \in Int
    <2>1. CASE h.par
      BY <1>1, <1>3, <2>1 DEF Viewed
    <2>2. CASE ~h.par
      <3> DEFINE n == convert(h.shares * a, h.cur, c, r.now)
                 w == convert(h.shares * b, h.cur, c, fxPrev(r))
      <3>1. a \in Nat /\ b \in Nat /\ v.before[c] = w /\ v.move[c] = Minus(n, w)
        BY <1>3, <2>2 DEF Viewed
      <3>2. h.shares * a \in Nat /\ h.shares * b \in Nat
        <4> DEFINE s == h.shares
        <4>1. s \in Nat
          BY <1>2
        <4> HIDE DEF s, a, b
        <4>2. s * a \in Nat /\ s * b \in Nat
          BY <3>1, <4>1, Products
        <4> QED
          BY <4>2 DEF s, a, b
      <3>3. n \in Nat \cup {Blank} /\ w \in Nat \cup {Blank}
        <4> DEFINE k == h.cur
                   x == h.shares * a
                   y == h.shares * b
        <4>1. k \in Currencies /\ x \in Nat /\ y \in Nat
          BY <1>2, <3>2
        <4> HIDE DEF k, x, y
        <4>2. convert(x, k, c, r.now) \in Nat \cup {Blank} /\ convert(y, k, c, fxPrev(r)) \in Nat \cup {Blank}
          BY <1>1, <4>1, ConvertType
        <4> QED
          BY <4>2 DEF k, x, y
      <3> HIDE DEF v, n, w
      <3>4. n \in Int /\ w \in Int
        BY <1>1, <3>3
      <3> QED
        BY <1>1, <3>1, <3>4 DEF Minus
    <2> QED
      BY <2>1, <2>2
  <1> QED
    BY <1>4, <1>5 DEF IsView

\* When the rate stands still a holding that gained in euros has gained in dollars.
LEMMA SameSide ==
    ASSUME NEW started \in Stretch .. LastDay, NEW exported \in Int, NEW tape, NEW h, IsHolding(h, tape, started),
           NEW r, IsRates(r), IsExact(h, tape, r.now), r.now = fxPrev(r), NEW sign \in {1, -1},
           Known(buildHolding(h, exported, r.now, fxPrev(r)).move[Euro]),
           sign * buildHolding(h, exported, r.now, fxPrev(r)).move[Euro] > 0
    PROVE  sign * moveForCurrency(buildHolding(h, exported, r.now, fxPrev(r)), Dollar) > 0
  <1> DEFINE v == buildHolding(h, exported, r.now, fxPrev(r))
             a == tape[seenDay(h)]
             b == tape[previousTradingSession(seenDay(h))]
             s == h.shares
             k == h.cur
             x == s * a
             y == s * b
             n == r.now
             moved(c) == Minus(convert(x, k, c, n), convert(y, k, c, n))
  <1>0. /\ Euro \in Currencies /\ Dollar \in Currencies /\ Euro # Dollar /\ Blank \in Int /\ ~Known(Blank)
        /\ Unit \in Nat \ {0} /\ \A z \in Nat : z # Blank /\ Known(z)
    BY DEF Currencies, Blank, Known, Unit, Euro, Dollar
  <1>1. n \in (Nat \ {0}) \cup {Blank} /\ k \in Currencies /\ s \in Nat \ {0}
    BY RatesType DEF IsHolding
  <1>2. v.move[Euro] \in Int
    BY <1>0, ViewType DEF IsView
  <1>3. Viewed(h, tape, exported, n, fxPrev(r), started, Euro) /\ Viewed(h, tape, exported, n, fxPrev(r), started, Dollar)
    BY <1>0, ViewIs
  <1>4. ~h.par
    BY <1>0, <1>3 DEF Viewed
  <1>5. a \in Nat /\ b \in Nat /\ v.move[Euro] = moved(Euro) /\ v.move[Dollar] = moved(Dollar)
    BY <1>3, <1>4 DEF Viewed
  <1>6. x \in Nat /\ y \in Nat
    <2> HIDE DEF a, b, s
    <2> QED
      BY <1>1, <1>5, Products
  <1>7. Known(n) => /\ k = Dollar => (x * Unit) % n = 0 /\ (y * Unit) % n = 0
                    /\ k = Euro => (x * n) % Unit = 0 /\ (y * n) % Unit = 0
    BY <1>4 DEF IsExact
  <1>8. Known(v.move[Euro]) /\ sign * v.move[Euro] > 0
    OBVIOUS
  <1> HIDE DEF v, x, y, n, k
  <1>9. moveForCurrency(v, Dollar) = IF Known(v.move[Dollar]) THEN v.move[Dollar] ELSE v.move[Euro]
    BY DEF moveForCurrency, Otherwise
  <1>10. CASE Known(v.move[Dollar])
    <2>1. Known(n)
      <3> SUFFICES ASSUME ~Known(n) PROVE FALSE
        OBVIOUS
      <3>1. CASE k = Euro
        <4>1. convert(x, k, Dollar, n) = Blank
          BY <1>0, <1>1, <1>6, <3>1, ConvertIs
        <4> QED
          BY <1>0, <1>5, <1>10, <4>1 DEF Minus
      <3>2. CASE k # Euro
        <4>1. convert(x, k, Euro, n) = Blank
          BY <1>0, <1>1, <1>6, <3>2, ConvertIs
        <4> QED
          BY <1>0, <1>5, <1>8, <4>1 DEF Minus
      <3> QED
        BY <3>1, <3>2
    <2>2. n \in Nat \ {0}
      BY <1>1, <2>1 DEF Known
    <2>3. CASE k = Euro
      <3> DEFINE p == (x * n) \div Unit
                 q == (y * n) \div Unit
      <3>1. p \in Nat /\ q \in Nat /\ (x > y <=> p > q) /\ (x < y <=> p < q)
        BY <1>0, <1>6, <1>7, <2>1, <2>2, <2>3, SameOrder
      <3>2. /\ convert(x, k, Euro, n) = x /\ convert(y, k, Euro, n) = y
            /\ convert(x, k, Dollar, n) = p /\ convert(y, k, Dollar, n) = q
        <4>1. x \in Int /\ x # Blank /\ y \in Int /\ y # Blank /\ n \in Int
          BY <1>0, <1>6, <2>2
        <4>2. convert(x, Euro, Dollar, n) = p /\ convert(x, Euro, Euro, n) = x
          BY <2>1, <4>1, ConvertsTo
        <4>3. convert(y, Euro, Dollar, n) = q /\ convert(y, Euro, Euro, n) = y
          BY <2>1, <4>1, ConvertsTo
        <4> QED
          BY <2>3, <4>2, <4>3
      <3> HIDE DEF p, q
      <3>3. moved(Euro) = x - y /\ moved(Dollar) = p - q
        BY <1>0, <1>6, <3>1, <3>2 DEF Minus
      <3>4. sign * (x - y) > 0
        BY <1>5, <1>8, <3>3
      <3>5. sign * (p - q) > 0
        BY <1>6, <3>1, <3>4
      <3> QED
        BY <1>5, <1>9, <1>10, <3>3, <3>5 DEF v, n
    <2>4. CASE k # Euro
      <3> DEFINE p == (x * Unit) \div n
                 q == (y * Unit) \div n
      <3>0. k = Dollar
        BY <1>1, <2>4 DEF Currencies
      <3>1. p \in Nat /\ q \in Nat /\ (x > y <=> p > q) /\ (x < y <=> p < q)
        BY <1>0, <1>6, <1>7, <2>1, <2>2, <3>0, SameOrder
      <3>2. /\ convert(x, k, Euro, n) = p /\ convert(y, k, Euro, n) = q
            /\ convert(x, k, Dollar, n) = x /\ convert(y, k, Dollar, n) = y
        <4>1. x \in Int /\ x # Blank /\ y \in Int /\ y # Blank /\ n \in Int
          BY <1>0, <1>6, <2>2
        <4>2. convert(x, Dollar, Euro, n) = p /\ convert(x, Dollar, Dollar, n) = x
          BY <2>1, <4>1, ConvertsTo
        <4>3. convert(y, Dollar, Euro, n) = q /\ convert(y, Dollar, Dollar, n) = y
          BY <2>1, <4>1, ConvertsTo
        <4> QED
          BY <3>0, <4>2, <4>3
      <3> HIDE DEF p, q
      <3>3. moved(Euro) = p - q /\ moved(Dollar) = x - y
        BY <1>0, <1>6, <3>1, <3>2 DEF Minus
      <3>4. sign * (p - q) > 0
        BY <1>5, <1>8, <3>3
      <3>5. sign * (x - y) > 0
        BY <1>6, <3>1, <3>4
      <3> QED
        BY <1>5, <1>9, <1>10, <3>3, <3>5 DEF v, n
    <2> QED
      BY <2>3, <2>4
  <1>11. CASE ~Known(v.move[Dollar])
    BY <1>8, <1>9, <1>11 DEF v, n
  <1> QED
    BY <1>10, <1>11

\* What is counted adds up to all there is, when what is left out is nothing.
LEMMA SumOverAll ==
    ASSUME NEW D, IsFiniteSet(D), NEW S \in SUBSET D, NEW f, \A i \in D : f[i] \in Int, \A i \in D \ S : f[i] = 0,
           NEW g, \A i \in S : g[i] = f[i] /\ Known(f[i])
    PROVE  sumOver(S, g) = Total(f, D) /\ Total(f, D) \in Int
  <1>1. IsFiniteSet(S)
    BY FS_Subset
  <1>2. Numbers(f, D) /\ Numbers(g, S) /\ Numbers(f, S)
    BY <1>1 DEF Numbers
  <1>3. Total(f, D) = Total(f, S)
    BY <1>2, TotalWithin
  <1>4. Total(g, S) = Total(f, S)
    BY <1>2, TotalSame
  <1>5. \A i \in S : Known(g[i])
    OBVIOUS
  <1>6. sumOver(S, g) = Total(g, S)
    BY <1>5 DEF sumOver, Total
  <1> QED
    BY <1>2, <1>3, <1>4, <1>6, TotalType

\* A book as the theorem takes it: holdings and cash, finitely many, the model's amounts
\* without rests, rates for today and for before or none, and less of everything than the
\* number that stands for null.
IsPortfolio(b, r, started, prices) ==
    /\ IsFiniteSet(DOMAIN b.holdings) /\ DOMAIN b.holdings \subseteq Int /\ IsFiniteSet(DOMAIN b.cash)
    /\ b.exported \in Int /\ IsRates(r)
    /\ \A i \in DOMAIN b.holdings : IsHolding(b.holdings[i], prices[i], started) /\ IsExact(b.holdings[i], prices[i], r.now)
    /\ \A i \in DOMAIN b.cash : b.cash[i].cur \in Currencies /\ b.cash[i].amount \in Nat
    /\ \A c \in Currencies, rate \in {r.now, fxPrev(r)} :
          worthOn(b, prices, [i \in DOMAIN b.holdings |-> baseDay(b.holdings[i], started)], c, rate) < -Blank

\* The worth of a book on the days given: the sum of its holdings and that of its cash.
heldOn(b, prices, day, c, rate) ==
    [i \in DOMAIN b.holdings |-> KnownOrNone(heldAt(b.holdings[i], prices[i], day[i], c, rate))]
cashIn(b, c, rate) == [i \in DOMAIN b.cash |-> KnownOrNone(convert(b.cash[i].amount, b.cash[i].cur, c, rate))]

LEMMA WorthIs ==
    ASSUME NEW b, NEW prices, NEW day, NEW c, NEW rate
    PROVE  worthOn(b, prices, day, c, rate)
              = Total(heldOn(b, prices, day, c, rate), DOMAIN b.holdings) + Total(cashIn(b, c, rate), DOMAIN b.cash)
  BY DEF worthOn, heldOn, cashIn, Total

\* Every holding's and every cash's worth is a number, at the newest marks and at the baseline.
Counts(b, prices, day, c, rate) ==
    LET held == heldOn(b, prices, day, c, rate)
        cash == cashIn(b, c, rate)
        all == Total(held, DOMAIN b.holdings)
    IN /\ \A i \in DOMAIN b.holdings : /\ Holds(b.holdings[i], prices[i], day[i], c, rate)
                                       /\ held[i] \in Nat /\ held[i] <= all
       /\ \A i \in DOMAIN b.cash : cash[i] \in Nat
       /\ all \in Nat /\ Total(cash, DOMAIN b.cash) \in Nat

LEMMA WorthType ==
    ASSUME NEW b, NEW r, NEW started \in Stretch .. LastDay, NEW prices, IsPortfolio(b, r, started, prices),
           NEW day, \A i \in DOMAIN b.holdings : day[i] = seenDay(b.holdings[i]) \/ day[i] = baseDay(b.holdings[i], started),
           NEW c \in Currencies, NEW rate \in {r.now, fxPrev(r)}
    PROVE  Counts(b, prices, day, c, rate)
  <1> DEFINE H == heldOn(b, prices, day, c, rate)
             K == cashIn(b, c, rate)
             D == DOMAIN b.holdings
             E == DOMAIN b.cash
  <1>1. rate \in (Nat \ {0}) \cup {Blank}
    BY RatesType DEF IsPortfolio
  <1>2. ASSUME NEW i \in D PROVE Holds(b.holdings[i], prices[i], day[i], c, rate) /\ H[i] \in Nat
    <2> DEFINE h == b.holdings[i]
               tape == prices[i]
               d == day[i]
    <2>1. IsHolding(h, tape, started) /\ (d = seenDay(h) \/ d = baseDay(h, started))
      BY DEF IsPortfolio
    <2>2. H[i] = KnownOrNone(heldAt(h, tape, d, c, rate))
      BY DEF heldOn
    <2> HIDE DEF h, tape, d, H
    <2>3. tape[d] \in Nat
      BY <2>1, BaseIs
    <2>4. h.cur \in Currencies /\ h.shares \in Nat \ {0} /\ \A k \in Currencies : h.last[k] \in Nat \cup {Blank}
      BY <2>1 DEF IsHolding
    <2>5. Holds(h, tape, d, c, rate)
      BY <1>1, <2>3, <2>4, HeldType
    <2>6. H[i] \in Nat
      BY <2>2, <2>5 DEF Holds, KnownOrNone, Known
    <2> QED
      BY <2>5, <2>6 DEF h, tape, d
  <1>3. ASSUME NEW i \in E PROVE K[i] \in Nat
    <2> DEFINE x == b.cash[i].amount
               k == b.cash[i].cur
    <2>1. x \in Nat /\ k \in Currencies
      BY DEF IsPortfolio
    <2>2. K[i] = KnownOrNone(convert(x, k, c, rate))
      BY DEF cashIn
    <2> HIDE DEF x, k, K
    <2>3. convert(x, k, c, rate) \in Nat \cup {Blank}
      BY <1>1, <2>1, ConvertType
    <2> QED
      BY <2>2, <2>3 DEF KnownOrNone, Known
  <1>4. IsFiniteSet(D) /\ IsFiniteSet(E)
    BY DEF IsPortfolio
  <1> HIDE DEF H, K, D, E
  <1>5. Total(H, D) \in Nat /\ \A i \in D : H[i] <= Total(H, D)
    BY <1>2, <1>4, TotalNat
  <1>6. Total(K, E) \in Nat
    BY <1>3, <1>4, TotalNat
  <1> QED
    BY <1>2, <1>3, <1>5, <1>6 DEF Counts, H, K, D, E

\* At the baseline a holding is worth less than what stands for null.
LEMMA HeldBounded ==
    ASSUME NEW b, NEW r, NEW started \in Stretch .. LastDay, NEW prices, IsPortfolio(b, r, started, prices),
           NEW i \in DOMAIN b.holdings, NEW c \in Currencies, NEW rate \in {r.now, fxPrev(r)}
    PROVE  heldAt(b.holdings[i], prices[i], baseDay(b.holdings[i], started), c, rate) < -Blank
  <1> DEFINE day == [j \in DOMAIN b.holdings |-> baseDay(b.holdings[j], started)]
             H == heldOn(b, prices, day, c, rate)
             t == Total(H, DOMAIN b.holdings)
             k == Total(cashIn(b, c, rate), DOMAIN b.cash)
             x == heldAt(b.holdings[i], prices[i], baseDay(b.holdings[i], started), c, rate)
  <1>1. \A j \in DOMAIN b.holdings : day[j] = baseDay(b.holdings[j], started)
    OBVIOUS
  <1>2. worthOn(b, prices, day, c, rate) < -Blank
    BY DEF IsPortfolio
  <1>3. H[i] = KnownOrNone(x)
    BY DEF heldOn
  <1> HIDE DEF day
  <1>4. Counts(b, prices, day, c, rate)
    BY <1>1, WorthType
  <1>5. worthOn(b, prices, day, c, rate) = t + k
    BY WorthIs
  <1>6. t \in Nat /\ k \in Nat /\ H[i] \in Nat /\ H[i] <= t
    BY <1>4 DEF Counts
  <1>7. x \in Nat \cup {Blank}
    <2>1. Holds(b.holdings[i], prices[i], day[i], c, rate)
      BY <1>4 DEF Counts
    <2> QED
      BY <1>1, <2>1 DEF Holds
  <1>8. Blank \in Int /\ Blank < -Blank
    BY DEF Blank
  <1> HIDE DEF H, t, k, x
  <1>9. H[i] < -Blank
    BY <1>2, <1>5, <1>6, <1>8
  <1>10. x = Blank \/ (x \in Nat /\ H[i] = x)
    BY <1>3, <1>7 DEF KnownOrNone, Known
  <1> QED
    BY <1>8, <1>9, <1>10 DEF x

\* The dashboard's total is the book's worth at its newest marks, its anchor the worth at
\* the baseline: in euros always, in dollars when there is a rate.
LEMMA TotalsTrue ==
    ASSUME NEW b, NEW r, NEW started \in Stretch .. LastDay, NEW prices, IsPortfolio(b, r, started, prices),
           NEW seen, seen = [i \in DOMAIN b.holdings |-> seenDay(b.holdings[i])],
           NEW base, base = [i \in DOMAIN b.holdings |-> baseDay(b.holdings[i], started)],
           NEW c \in Currencies, c = Euro \/ Known(r.now)
    PROVE  LET d == buildDashboard(views(b, r), b, r, started)
           IN  /\ d.total[c] = worthOn(b, prices, seen, c, r.now)
               /\ d.anchor[c] = worthOn(b, prices, base, c, fxPrev(r))
  <1> DEFINE V == views(b, r)
             D == DOMAIN b.holdings
             E == DOMAIN b.cash
             prior == fxPrev(r)
             d == buildDashboard(V, b, r, started)
             counted == {i \in D : Known(V[i].value[Euro])}
             rows == {i \in E : Known(convert(b.cash[i].amount, b.cash[i].cur, Euro, r.now))}
             cash(k, rate) == sumOver(rows, [i \in rows |-> convert(b.cash[i].amount, b.cash[i].cur, k, rate)])
             held(k) == sumOver(counted, [i \in counted |-> V[i].value[k]])
             was(k) == sumOver(D, [i \in D |-> valueBefore(V[i], k, prior, started)])
             plus(x, y, z) == IF Known(x) /\ Known(y) /\ Known(z) THEN x + y ELSE Blank
             H == heldOn(b, prices, seen, c, r.now)
             B == heldOn(b, prices, base, c, prior)
             K(rate) == cashIn(b, c, rate)
  <1>1. DOMAIN V = D /\ \A i \in D : V[i] = buildHolding(b.holdings[i], b.exported, r.now, prior)
    BY DEF views
  <1>2. /\ d.total[c] = plus(held(c), cash(c, r.now), held(c))
        /\ d.anchor[c] = plus(was(c), cash(c, prior), held(c))
    <2> DEFINE all == {i \in DOMAIN V : Known(V[i].value[Euro])}
               heldOf(k) == sumOver(all, [i \in all |-> V[i].value[k]])
               wasOf(k) == sumOver(DOMAIN V, [i \in DOMAIN V |-> valueBefore(V[i], k, prior, started)])
    <2>1. /\ d.total[c] = plus(heldOf(c), cash(c, r.now), heldOf(c))
          /\ d.anchor[c] = plus(wasOf(c), cash(c, prior), heldOf(c))
      <3> DEFINE In(k) == /\ d.total[k] = plus(heldOf(k), cash(k, r.now), heldOf(k))
                          /\ d.anchor[k] = plus(wasOf(k), cash(k, prior), heldOf(k))
      <3> HIDE DEF V
      <3>0. Euro = "EUR" /\ Dollar = "USD"
        BY DEF Euro, Dollar
      <3>1. In(Euro)
        BY <3>0 DEF buildDashboard, inBoth
      <3>2. In(Dollar)
        BY <3>0 DEF buildDashboard, inBoth
      <3> HIDE DEF In
      <3>3. In(c)
        BY <3>1, <3>2 DEF Currencies
      <3> QED
        BY <3>3 DEF In
    <2>2. heldOf(c) = held(c) /\ wasOf(c) = was(c)
      BY <1>1
    <2> QED
      BY <2>1, <2>2
  <1>3. /\ r.now \in (Nat \ {0}) \cup {Blank} /\ prior \in (Nat \ {0}) \cup {Blank} /\ (Known(r.now) <=> Known(prior))
    <2>1. IsRates(r)
      BY DEF IsPortfolio
    <2> QED
      BY <2>1, RatesType
  <1>4. IsFiniteSet(D) /\ IsFiniteSet(E) /\ b.exported \in Int /\ IsRates(r) /\ Euro \in Currencies
        /\ \A i \in D : IsHolding(b.holdings[i], prices[i], started)
    BY DEF IsPortfolio, Currencies
  <1>5. \A n \in Nat : Known(n)
    BY DEF Known, Blank
  <1>6. /\ \A i \in D : seen[i] = seenDay(b.holdings[i])
        /\ \A i \in D : base[i] = baseDay(b.holdings[i], started)
    OBVIOUS
  <1>7. \A k \in Currencies : Counts(b, prices, seen, k, r.now) /\ Counts(b, prices, base, k, prior)
    BY <1>6, WorthType
  <1>8. \A i \in D : /\ H[i] = KnownOrNone(heldAt(b.holdings[i], prices[i], seen[i], c, r.now))
                     /\ B[i] = KnownOrNone(heldAt(b.holdings[i], prices[i], base[i], c, prior))
    BY DEF heldOn
  <1>9. \A i \in D : H[i] \in Nat /\ B[i] \in Nat
    BY <1>7 DEF Counts
  <1>10. ASSUME NEW i \in D
         PROVE  /\ \A k \in Currencies : V[i].value[k] = heldAt(b.holdings[i], prices[i], seen[i], k, r.now)
                /\ valueBefore(V[i], c, prior, started) = B[i]
    <2> DEFINE h == b.holdings[i]
               tape == prices[i]
               v == buildHolding(h, b.exported, r.now, prior)
    <2>1. IsHolding(h, tape, started) /\ V[i] = v /\ seen[i] = seenDay(h) /\ base[i] = baseDay(h, started)
      BY <1>1, <1>4, <1>6
    <2>2. \A k \in Currencies : heldAt(h, tape, baseDay(h, started), k, prior) < -Blank
      BY HeldBounded
    <2>3. B[i] = KnownOrNone(heldAt(h, tape, baseDay(h, started), c, prior))
      BY <1>8, <2>1
    <2> HIDE DEF h, tape
    <2>4. \A k \in Currencies : Viewed(h, tape, b.exported, r.now, prior, started, k)
      BY <1>4, <2>1, ViewIs
    <2>5. \A k \in Currencies : v.value[k] = heldAt(h, tape, seenDay(h), k, r.now)
      BY <2>4 DEF Viewed
    <2>6. valueBefore(v, c, prior, started) = KnownOrNone(heldAt(h, tape, baseDay(h, started), c, prior))
      BY <1>4, <2>1, <2>2, BaselineOf
    <2> QED
      BY <2>1, <2>3, <2>5, <2>6 DEF h, tape
  <1>11. held(c) = Total(H, D) /\ Known(held(c)) /\ held(c) \in Nat
    <2> DEFINE g == [i \in counted |-> V[i].value[c]]
    <2>1. ASSUME NEW i \in D PROVE i \in counted => g[i] = H[i] /\ Known(H[i])
      <3>1. Holds(b.holdings[i], prices[i], seen[i], c, r.now)
        BY <1>7 DEF Counts
      <3>2. i \in counted => Known(V[i].value[c])
        BY <1>10, <3>1 DEF Holds
      <3>3. i \in counted => g[i] = H[i]
        BY <1>8, <1>10, <3>2 DEF KnownOrNone
      <3> QED
        BY <1>5, <1>9, <3>3
    <2>2. ASSUME NEW i \in D \ counted PROVE H[i] = 0
      <3>1. Holds(b.holdings[i], prices[i], seen[i], Euro, r.now)
        BY <1>4, <1>7 DEF Counts
      <3>2. ~Known(heldAt(b.holdings[i], prices[i], seen[i], Euro, r.now))
        BY <1>4, <1>10
      <3>3. c = Euro
        BY <3>1, <3>2 DEF Holds
      <3> QED
        BY <1>8, <3>2, <3>3 DEF KnownOrNone
    <2>3. counted \in SUBSET D
      OBVIOUS
    <2>4. Total(H, D) \in Nat
      BY <1>7 DEF Counts
    <2> HIDE DEF g, counted, H
    <2>5. sumOver(counted, g) = Total(H, D)
      BY <1>4, <1>9, <2>1, <2>2, <2>3, SumOverAll
    <2> QED
      BY <1>5, <2>4, <2>5 DEF g
  <1>12. was(c) = Total(B, D) /\ Known(was(c)) /\ was(c) \in Nat
    <2> DEFINE g == [i \in D |-> valueBefore(V[i], c, prior, started)]
    <2>1. ASSUME NEW i \in D PROVE g[i] = B[i] /\ Known(B[i]) /\ B[i] \in Int
      <3>1. valueBefore(V[i], c, prior, started) = B[i]
        BY <1>10
      <3>2. B[i] \in Nat
        BY <1>9
      <3> HIDE DEF B, V
      <3>3. g[i] = B[i]
        BY <3>1
      <3> QED
        BY <1>5, <3>2, <3>3
    <2>2. Total(B, D) \in Nat
      BY <1>7 DEF Counts
    <2> HIDE DEF g, B
    <2>3. sumOver(D, g) = Total(B, D)
      BY <1>4, <2>1, SumOverAll
    <2> QED
      BY <1>5, <2>2, <2>3 DEF g
  <1>13. ASSUME NEW rate \in {r.now, prior}
         PROVE  cash(c, rate) = Total(K(rate), E) /\ Known(cash(c, rate)) /\ cash(c, rate) \in Nat
    <2> DEFINE g == [i \in rows |-> convert(b.cash[i].amount, b.cash[i].cur, c, rate)]
               F == K(rate)
    <2>1. ASSUME NEW i \in E
          PROVE  /\ F[i] \in Nat
                 /\ i \in rows => g[i] = F[i] /\ Known(F[i])
                 /\ i \notin rows => F[i] = 0
      <3> DEFINE x == b.cash[i].amount
                 k == b.cash[i].cur
                 y == convert(x, k, c, rate)
                 z == convert(x, k, Euro, r.now)
      <3>1. x \in Nat /\ k \in Currencies
        BY DEF IsPortfolio
      <3>2. F[i] = KnownOrNone(y) /\ (i \in rows <=> Known(z)) /\ (i \in rows => g[i] = y)
        BY DEF cashIn
      <3> HIDE DEF x, k, F, rows, g
      <3>3. y \in Nat \cup {Blank} /\ (Known(y) <=> k = c \/ Known(rate)) /\ (Known(z) <=> k = Euro \/ Known(r.now))
        <4>1. rate \in (Nat \ {0}) \cup {Blank}
          BY <1>3
        <4>2. y \in Nat \cup {Blank} /\ (Known(y) <=> k = c \/ Known(rate))
          BY <3>1, <4>1, ConvertType
        <4>3. Known(z) <=> k = Euro \/ Known(r.now)
          BY <1>3, <1>4, <3>1, ConvertType
        <4> QED
          BY <4>2, <4>3
      <3> HIDE DEF y, z
      <3>4. Known(rate) <=> Known(r.now)
        BY <1>3
      <3>5. Known(y) <=> Known(z)
        BY <3>1, <3>3, <3>4
      <3>6. CASE Known(y)
        <4>1. F[i] = y /\ y \in Nat /\ i \in rows
          BY <3>2, <3>3, <3>5, <3>6 DEF KnownOrNone, Known
        <4> QED
          BY <3>2, <3>6, <4>1
      <3>7. CASE ~Known(y)
        BY <3>2, <3>5, <3>7 DEF KnownOrNone
      <3> QED
        BY <3>6, <3>7
    <2>2. rows \in SUBSET E
      OBVIOUS
    <2>3. Total(F, E) \in Nat
      BY <1>7 DEF Counts
    <2> HIDE DEF g, rows, F
    <2>4. sumOver(rows, g) = Total(F, E)
      BY <1>4, <2>1, <2>2, SumOverAll
    <2> QED
      BY <1>5, <2>3, <2>4 DEF g, F
  <1> HIDE DEF held, was, cash, d
  <1>14. d.total[c] = Total(H, D) + Total(K(r.now), E) /\ d.anchor[c] = Total(B, D) + Total(K(prior), E)
    BY <1>2, <1>11, <1>12, <1>13
  <1> QED
    BY <1>14, WorthIs DEF d

\* What is left of the move when the prices' part is taken away is what the baseline has
\* gained by the rate alone.
LEMMA RateMoveTrue ==
    ASSUME NEW b, NEW r, NEW started \in Stretch .. LastDay, NEW prices, IsPortfolio(b, r, started, prices),
           NEW base, base = [i \in DOMAIN b.holdings |-> baseDay(b.holdings[i], started)]
    PROVE  buildDashboard(views(b, r), b, r, started).fxMove
              = worthOn(b, prices, base, Euro, r.now) - worthOn(b, prices, base, Euro, fxPrev(r))
  <1> DEFINE V == views(b, r)
             D == DOMAIN b.holdings
             seen == [i \in D |-> seenDay(b.holdings[i])]
             prior == fxPrev(r)
             d == buildDashboard(V, b, r, started)
             moved == {i \in D : movedToday(V[i], started) /\ Known(V[i].move[Euro])}
             priceOnly == sumOver(moved, [i \in moved |-> V[i].priceMove])
             S == heldOn(b, prices, seen, Euro, r.now)
             B == heldOn(b, prices, base, Euro, r.now)
             P == [i \in D |-> S[i] - B[i]]
             cash == Total(cashIn(b, Euro, r.now), DOMAIN b.cash)
             total == worthOn(b, prices, seen, Euro, r.now)
             anchor == worthOn(b, prices, base, Euro, prior)
             still == worthOn(b, prices, base, Euro, r.now)
  <1>1. DOMAIN V = D /\ \A i \in D : V[i] = buildHolding(b.holdings[i], b.exported, r.now, prior)
    BY DEF views
  <1>2. d.fxMove = Minus(Minus(d.total[Euro], d.anchor[Euro]), priceOnly)
    <2> DEFINE all == {i \in DOMAIN V : movedToday(V[i], started) /\ Known(V[i].move[Euro])}
               priceOf == sumOver(all, [i \in all |-> V[i].priceMove])
    <2>1. d.fxMove = Minus(Minus(d.total[Euro], d.anchor[Euro]), priceOf)
      <3> HIDE DEF V
      <3> QED
        BY DEF buildDashboard
    <2>2. priceOf = priceOnly
      BY <1>1
    <2> QED
      BY <2>1, <2>2
  <1>3. Euro \in Currencies /\ IsFiniteSet(D) /\ b.exported \in Int /\ IsRates(r)
    BY DEF IsPortfolio, Currencies
  <1>4. d.total[Euro] = total /\ d.anchor[Euro] = anchor
    BY <1>3, TotalsTrue
  <1>5. /\ \A i \in D : seen[i] = seenDay(b.holdings[i])
        /\ \A i \in D : base[i] = baseDay(b.holdings[i], started)
    OBVIOUS
  <1> HIDE DEF seen
  <1>6. /\ Counts(b, prices, seen, Euro, r.now) /\ Counts(b, prices, base, Euro, r.now)
        /\ Counts(b, prices, base, Euro, prior)
    BY <1>3, <1>5, WorthType
  <1>7. \A i \in D : /\ S[i] = KnownOrNone(heldAt(b.holdings[i], prices[i], seen[i], Euro, r.now))
                     /\ B[i] = KnownOrNone(heldAt(b.holdings[i], prices[i], base[i], Euro, r.now))
                     /\ S[i] \in Nat /\ B[i] \in Nat
    BY <1>6 DEF Counts, heldOn
  <1>8. ASSUME NEW i \in D
        PROVE  /\ i \in moved => V[i].priceMove = P[i] /\ Known(P[i])
               /\ i \notin moved => P[i] = 0
    <2> DEFINE h == b.holdings[i]
               tape == prices[i]
               v == buildHolding(h, b.exported, r.now, prior)
               worth(day) == KnownOrNone(heldAt(h, tape, day, Euro, r.now))
    <2>1. IsHolding(h, tape, started) /\ IsExact(h, tape, r.now)
      BY DEF IsPortfolio
    <2>2. \A k \in Currencies, rate \in {r.now, prior} : heldAt(h, tape, baseDay(h, started), k, rate) < -Blank
      BY HeldBounded
    <2>3. V[i] = v /\ S[i] = worth(seenDay(h)) /\ B[i] = worth(baseDay(h, started)) /\ P[i] = S[i] - B[i]
      BY <1>1, <1>5, <1>7
    <2>4. i \in moved <=> movedToday(V[i], started) /\ Known(V[i].move[Euro])
      OBVIOUS
    <2> HIDE DEF h, tape, P
    <2>5. /\ movedToday(v, started) /\ Known(v.move[Euro]) =>
                Known(v.priceMove) /\ v.priceMove = worth(seenDay(h)) - worth(baseDay(h, started))
          /\ ~(movedToday(v, started) /\ Known(v.move[Euro])) => worth(seenDay(h)) = worth(baseDay(h, started))
      BY <1>3, <2>1, <2>2, PriceMoveOf
    <2> HIDE DEF v, worth, moved, V
    <2>6. CASE i \in moved
      BY <2>3, <2>4, <2>5, <2>6
    <2>7. CASE i \notin moved
      <3>1. S[i] = B[i] /\ S[i] \in Nat
        BY <1>7, <2>3, <2>4, <2>5, <2>7
      <3> QED
        BY <2>3, <2>7, <3>1
    <2> QED
      BY <2>6, <2>7
  <1>9. \A i \in D : P[i] = S[i] - B[i] /\ P[i] \in Int /\ S[i] = P[i] + B[i]
    <2> HIDE DEF S, B
    <2>1. \A i \in D : P[i] = S[i] - B[i]
      OBVIOUS
    <2> HIDE DEF P
    <2> QED
      BY <1>7, <2>1
  <1>10. /\ Total(S, D) \in Nat /\ Total(B, D) \in Nat /\ cash \in Nat
         /\ total = Total(S, D) + cash /\ still = Total(B, D) + cash
    BY <1>6, WorthIs DEF Counts
  <1>11. anchor \in Nat
    <2>1. anchor = Total(heldOn(b, prices, base, Euro, prior), D) + Total(cashIn(b, Euro, prior), DOMAIN b.cash)
      BY WorthIs
    <2> QED
      BY <1>6, <2>1 DEF Counts
  <1>12. anchor < -Blank /\ still < -Blank
    BY <1>3 DEF IsPortfolio
  <1>13. priceOnly = Total(P, D) /\ Total(P, D) \in Int
    <2> DEFINE g == [i \in moved |-> V[i].priceMove]
    <2>1. moved \in SUBSET D
      OBVIOUS
    <2>2. \A i \in moved : g[i] = P[i] /\ Known(P[i])
      BY <1>8
    <2>3. \A i \in D \ moved : P[i] = 0
      BY <1>8
    <2> HIDE DEF moved, g, P
    <2>4. sumOver(moved, g) = Total(P, D) /\ Total(P, D) \in Int
      BY <1>3, <1>9, <2>1, <2>2, <2>3, SumOverAll
    <2> QED
      BY <2>4 DEF g
  <1>14. Total(S, D) = Total(P, D) + Total(B, D)
    <2> HIDE DEF S, B, P, D
    <2>1. \A i \in D : P[i] \in Int /\ B[i] \in Int /\ S[i] = P[i] + B[i]
      BY <1>7, <1>9
    <2>2. Numbers(P, D) /\ Numbers(B, D)
      BY <1>3, <2>1 DEF Numbers
    <2> QED
      BY <2>1, <2>2, TotalPlus
  <1> DEFINE s == Total(S, D)
             t == Total(B, D)
             p == Total(P, D)
  <1> HIDE DEF total, anchor, still, cash, priceOnly, s, t, p, d
  <1>15. /\ s \in Nat /\ t \in Nat /\ p \in Int /\ cash \in Nat /\ anchor \in Nat /\ s = p + t
         /\ total = s + cash /\ still = t + cash /\ anchor < -Blank /\ still < -Blank /\ priceOnly = p
    BY <1>10, <1>11, <1>12, <1>13, <1>14 DEF s, t, p
  <1>16. Blank \in Int /\ Blank < 0
    BY DEF Blank
  <1>17. total # Blank /\ anchor # Blank /\ total - anchor # Blank /\ p # Blank
    BY <1>15, <1>16
  <1>18. Minus(total, anchor) = total - anchor
    BY <1>17 DEF Minus, Known
  <1>19. Minus(total - anchor, p) = (total - anchor) - p
    BY <1>17 DEF Minus, Known
  <1>20. d.fxMove = (total - anchor) - p
    BY <1>2, <1>4, <1>15, <1>18, <1>19
  <1>21. (total - anchor) - p = still - anchor
    BY <1>15
  <1> QED
    BY <1>20, <1>21 DEF d, still, anchor

\* Whatever a book of marks with the close of the session before their own holds, and
\* whichever of the day's prices have arrived: the dashboard's total is its worth now, the
\* anchor its worth at the baseline, the move by the rate what the baseline gained by the
\* rate alone, and the board names those that moved most.  That the marks are so paired is
\* assumed of the book: a bar that begins a session, or carries a price over a close, leaves
\* a mark without its close before.  Of the cache: a mark with its own close before it has
\* it after every other arrival, and only a pulled quote puts an older price in the place
\* of a newer one (compute.ts, cache.ts).
THEOREM MoveAlwaysHonest ==
    ASSUME case.of = "book" => /\ case.v = views(case.b, case.r) /\ case.started \in Stretch .. LastDay
                               /\ IsPortfolio(case.b, case.r, case.started, case.prices),
           case.of = "arrival" => /\ case.cached \in Marks /\ Dated(case.cached) /\ case.now \in Nat
                                  /\ Delivered(case.a, case.now, case.closes)
    PROVE  MoveHonest
  <1>1. ASSUME case.of = "book"
        PROVE  /\ BaselineTrue(case.v, case.b, case.r, case.started, previousTradingSession(case.started), case.prices)
               /\ \A k \in Currencies : BoardTrue(case.v, case.r, k)
    <2> DEFINE b == case.b
               r == case.r
               started == case.started
               prices == case.prices
               V == case.v
               D == DOMAIN b.holdings
    <2>1. V = views(b, r) /\ started \in Stretch .. LastDay /\ IsPortfolio(b, r, started, prices)
      BY <1>1
    <2> HIDE DEF b, r, started, prices, V
    <2>2. BaselineTrue(V, b, r, started, previousTradingSession(started), prices)
      <3> DEFINE d == buildDashboard(V, b, r, started)
                 seen == [i \in D |-> seenDay(b.holdings[i])]
                 before == previousTradingSession(started)
                 base == [i \in D |-> baseDay(b.holdings[i], started)]
                 was == [i \in D |-> IF seen[i] > before THEN before ELSE seen[i]]
      <3>1. was = base
        BY DEF baseDay
      <3>2. ASSUME NEW c \in Currencies, c = Euro \/ Known(r.now)
            PROVE  d.total[c] = worthOn(b, prices, seen, c, r.now) /\ d.anchor[c] = worthOn(b, prices, base, c, fxPrev(r))
        BY <2>1, <3>2, TotalsTrue
      <3>3. d.fxMove = worthOn(b, prices, base, Euro, r.now) - worthOn(b, prices, base, Euro, fxPrev(r))
        BY <2>1, RateMoveTrue
      <3>4. Euro \in Currencies /\ Dollar \in Currencies
        BY DEF Currencies
      <3> HIDE DEF d, seen, base, was
      <3>5. /\ d.total[Euro] = worthOn(b, prices, seen, Euro, r.now)
            /\ d.anchor[Euro] = worthOn(b, prices, was, Euro, fxPrev(r))
            /\ d.fxMove = worthOn(b, prices, was, Euro, r.now) - worthOn(b, prices, was, Euro, fxPrev(r))
            /\ Known(r.now) => /\ d.total[Dollar] = worthOn(b, prices, seen, Dollar, r.now)
                               /\ d.anchor[Dollar] = worthOn(b, prices, was, Dollar, fxPrev(r))
        BY <3>1, <3>2, <3>3, <3>4
      <3> QED
        BY <3>5 DEF BaselineTrue, d, seen, was
    <2>3. /\ DOMAIN V = D /\ IsFiniteSet(D) /\ D \subseteq Int /\ b.exported \in Int /\ IsRates(r)
          /\ \A i \in D : /\ V[i] = buildHolding(b.holdings[i], b.exported, r.now, fxPrev(r))
                          /\ IsHolding(b.holdings[i], prices[i], started) /\ IsExact(b.holdings[i], prices[i], r.now)
      BY <2>1 DEF views, IsPortfolio
    <2>4. \A i \in D : IsView(V[i])
      <3> SUFFICES ASSUME NEW i \in D PROVE IsView(V[i])
        OBVIOUS
      <3> DEFINE h == b.holdings[i]
                 tape == prices[i]
      <3>1. IsHolding(h, tape, started) /\ V[i] = buildHolding(h, b.exported, r.now, fxPrev(r))
        BY <2>3
      <3> HIDE DEF h, tape
      <3> QED
        BY <2>1, <2>3, <3>1, ViewType
    <2>5. ASSUME NEW i \in D, NEW sign \in {1, -1}, r.now = fxPrev(r), IsMover(V[i]), sign * V[i].move[Euro] > 0
          PROVE  sign * moveForCurrency(V[i], Dollar) > 0
      <3> DEFINE h == b.holdings[i]
                 tape == prices[i]
                 v == buildHolding(h, b.exported, r.now, fxPrev(r))
      <3>1. IsHolding(h, tape, started) /\ IsExact(h, tape, r.now) /\ V[i] = v
        BY <2>3
      <3>2. Known(v.move[Euro]) /\ sign * v.move[Euro] > 0
        BY <2>5, <3>1 DEF IsMover
      <3> HIDE DEF h, tape
      <3>3. sign * moveForCurrency(v, Dollar) > 0
        BY <2>1, <2>3, <2>5, <3>1, <3>2, SameSide
      <3> QED
        BY <3>1, <3>3
    <2>6. ASSUME NEW k \in Currencies PROVE BoardTrue(V, r, k)
      <3>1. ASSUME k # Euro, r.now = fxPrev(r), NEW i \in DOMAIN V, NEW sign \in {1, -1}, IsMover(V[i]),
                   sign * V[i].move[Euro] > 0
            PROVE  sign * moveForCurrency(V[i], k) > 0
        <4>1. k = Dollar
          BY <3>1 DEF Currencies
        <4> QED
          BY <2>3, <2>5, <3>1, <4>1
      <3>2. IsFiniteSet(DOMAIN V) /\ \A i \in DOMAIN V : i \in Int /\ IsView(V[i])
        BY <2>3, <2>4
      <3> QED
        BY <3>1, <3>2, BoardAlwaysTrue
    <2> QED
      BY <2>2, <2>6 DEF b, r, started, prices, V
  <1>2. ASSUME case.of = "arrival" PROVE CacheTrue(case.cached, case.a, case.now, case.closes)
    <2> DEFINE cached == case.cached
               a == case.a
               pulled == case.now
               closes == case.closes
    <2>1. cached \in Marks /\ Dated(cached) /\ pulled \in Nat /\ Delivered(a, pulled, closes)
      BY <1>2
    <2> HIDE DEF cached, a, pulled, closes
    <2>2. CacheTrue(cached, a, pulled, closes)
      BY <2>1, CacheAlwaysTrue
    <2> QED
      BY <2>2 DEF cached, a, pulled, closes
  <1> QED
    BY <1>1, <1>2 DEF MoveHonest
============================================================================
