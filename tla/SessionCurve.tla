---------------------------- MODULE SessionCurve ----------------------------
(***************************************************************************)
(* The companion's stored trading day (web/src/timeseries-store.ts) and    *)
(* what reads and writes it: the builds of the 1D graph (intraday.ts), each *)
(* on behalf of one painting of the dashboard, the download of bars at a    *)
(* login or a regeneration, and the trail taken from the export (app.ts).   *)
(*                                                                         *)
(* The store has no transaction over a read and a write: every merge loads  *)
(* the record, and saves it in a later step.  One symbol stands for all,    *)
(* its bars for their newest instant; the rate's track goes through the     *)
(* same resolution under a key of its own.  The wall clock counts from 0,   *)
(* the market is open before Shut.                                          *)
(***************************************************************************)
EXTENDS CloseProbes, FiniteSets, FiniteSetsExt

CONSTANTS
    Builders, \* builds of the graph under way at the same time
    Shut,     \* when the market closes
    MaxTips,  \* DEFAULT_MAX_TIPS
    Patience, \* bound of the time a request may take, far below the cooldown
    Writers,  \* bound of the builds and downloads under way at once
    Horizon   \* bound of the wall clock

ASSUME CurveAssumption ==
    /\ IsFiniteSet(Builders) /\ Shut \in Nat /\ MaxTips \in Nat \ {0}
    /\ Patience \in Nat /\ Writers \in Nat \ {0} /\ Horizon \in Nat

\* A request that hangs is given up long before a parked series is tried again (30 minutes).
ASSUME PatienceAssumption == 2 * Patience < Cooldown

VARIABLES
    now,
    disk,    \* the day's record
    backoff, \* the strikes of the series
    build,   \* [Builders -> what the build waits for and has seen]
    filler,  \* the download of bars
    agreed   \* history: the hours in which both providers agreed

vars == <<now, disk, backoff, build, filler, agreed>>

Tips == 0 .. Close - Tol
Times == 0 .. Horizon
NoRecord == [tip |-> NoBars, probe |-> NoProbe, crumbs |-> {}]
Idle == [step |-> "idle", began |-> 0, seen |-> NoRecord, first |-> NoBars, found |-> Nothing]
open(t) == t < Shut

Init ==
    /\ now = 0 /\ disk = NoRecord /\ backoff = NoStrike /\ agreed = {}
    /\ build = [b \in Builders |-> Idle] /\ filler = Idle

----------------------------------------------------------------------------
(* The store's two read-modify-writes, as what they save of what they loaded. *)
mergeBars(existing, incoming) == IF incoming > existing THEN incoming ELSE existing
mergeCloseProbes(existing, found) ==
    IF found.clear THEN NoProbe
    ELSE IF found.probe = NoProbe THEN existing
    ELSE [found.probe EXCEPT !.settled = @ \/ existing.settled]
mergeSession(seen, found) ==
    [seen EXCEPT !.tip = mergeBars(@, found.tip), !.probe = mergeCloseProbes(@, found)]

\* A crumb no later than the last one takes its place.
appendTip(seen, t) ==
    LET kept == IF \E c \in seen.crumbs : c >= t THEN seen.crumbs \ {Max(seen.crumbs)} ELSE seen.crumbs
        all == kept \cup {t}
    IN [seen EXCEPT !.crumbs = IF Cardinality(all) > MaxTips THEN all \ {Min(all)} ELSE all]

----------------------------------------------------------------------------
(* A build of the graph. *)
Room == Cardinality({b \in Builders : build[b].step # "idle"}) + (IF filler.step = "idle" THEN 0 ELSE 1) < Writers

incompleteAfterClose(r) ==
    r.tip # NoBars /\ ~sessionBarsComplete(r.tip) /\ ~r.probe.settled

Needed(r, kind) ==
    CASE kind = "stored" -> "draw"
      [] kind = "force" -> "all"
      [] kind = "paint" /\ r.tip = NoBars -> "all"
      [] kind = "paint" /\ ~open(now) /\ incompleteAfterClose(r)
           /\ ~suppressed(backoff, now) /\ closeProbeReady(r.probe, now) -> "first"
      [] OTHER -> "draw"

\* What is left to do for a build of time t once its bars are in the store: only
\* while the market was open it draws the live tip, and leaves it as a crumb.
Drawing(t) == IF open(t) THEN [Idle EXCEPT !.step = "draw", !.began = t] ELSE Idle

loadOrBuildSessionCurve(b, kind) ==
    /\ build[b].step = "idle" /\ Room
    /\ build' = [build EXCEPT ![b] =
         CASE Needed(disk, kind) = "draw" -> Drawing(now)
           [] Needed(disk, kind) = "all" -> [Idle EXCEPT !.step = "all", !.began = now]
           [] OTHER -> [Idle EXCEPT !.step = "first", !.began = now, !.seen = disk]]
    /\ UNCHANGED <<now, disk, backoff, filler, agreed>>

\* What the providers have: nothing of the close before the close.
Printed(t) == IF open(t) THEN Tips \ {Close - Tol} ELSE Tips

\* What a merge saves is made from what it loaded.
Saving(w, record) == [Idle EXCEPT !.step = "save", !.began = w.began, !.seen = record]
Merging(w, found) == [Idle EXCEPT !.step = "merge", !.began = w.began, !.found = found]

\* A missing series, or a forced one, is fetched as it is.
AllAnswers(b, tip) ==
    /\ build[b].step = "all" /\ tip \in Printed(now)
    /\ build' = [build EXCEPT ![b] = Merging(@, [Nothing EXCEPT !.tip = tip])]
    /\ UNCHANGED <<now, disk, backoff, filler, agreed>>

FirstAnswers(b, tip) ==
    LET w == build[b]
        found == ResolvedByFirst(tip, w.began)
    IN /\ w.step = "first" /\ tip \in Printed(now)
       /\ \/ /\ Escalates(tip, w.seen.probe, w.seen.tip)
             /\ build' = [build EXCEPT ![b].step = "second", ![b].first = tip]
             /\ UNCHANGED backoff
          \/ /\ ~Escalates(tip, w.seen.probe, w.seen.tip)
             /\ build' = [build EXCEPT ![b] = Merging(@, found)]
             /\ backoff' = Scored(backoff, tip, NoBars, found, w.began)
       /\ UNCHANGED <<now, disk, filler, agreed>>

\* No answer, NoBars, is also what a missing second provider gives.
SecondAnswers(b, tip) ==
    LET w == build[b]
        found == ResolvedBySecond(w.first, tip, w.seen.probe, w.seen.tip, w.began)
    IN /\ w.step = "second" /\ tip \in Printed(now)
       /\ build' = [build EXCEPT ![b] = Merging(@, found)]
       /\ backoff' = Scored(backoff, w.first, tip, found, w.began)
       /\ agreed' = IF found.probe.sources = 2 THEN agreed \cup {w.began \div Hour} ELSE agreed
       /\ UNCHANGED <<now, disk, filler>>

\* A provider that throws ends the build; the graph keeps what it shows.
Throws(b) ==
    /\ build[b].step \in {"all", "first", "second"}
    /\ build' = [build EXCEPT ![b] = Idle]
    /\ UNCHANGED <<now, disk, backoff, filler, agreed>>

MergeLoads(b) ==
    /\ build[b].step = "merge"
    /\ build' = [build EXCEPT ![b] = Saving(@, mergeSession(disk, @.found))]
    /\ UNCHANGED <<now, disk, backoff, filler, agreed>>

MergeSaves(b) ==
    /\ build[b].step = "save"
    /\ disk' = build[b].seen
    /\ build' = [build EXCEPT ![b] = Drawing(@.began)]
    /\ UNCHANGED <<now, backoff, filler, agreed>>

\* A total with a price missing is no tip.
Draws(b, complete) ==
    /\ build[b].step = "draw"
    /\ build' = [build EXCEPT ![b] =
                    IF complete THEN [build[b] EXCEPT !.step = "append", !.seen = appendTip(disk, build[b].began)]
                    ELSE Idle]
    /\ UNCHANGED <<now, disk, backoff, filler, agreed>>

Appends(b) ==
    /\ build[b].step = "append"
    /\ disk' = build[b].seen
    /\ build' = [build EXCEPT ![b] = Idle]
    /\ UNCHANGED <<now, backoff, filler, agreed>>

----------------------------------------------------------------------------
(* The download of bars at a login; a regeneration wipes the day before. *)
prefetchGraphBars(wipe) ==
    /\ filler.step = "idle" /\ Room
    /\ filler' = [Idle EXCEPT !.step = "all", !.began = now]
    /\ disk' = IF wipe THEN NoRecord ELSE disk
    /\ UNCHANGED <<now, backoff, build, agreed>>

\* Bars short of the close seed a probe, so that builds need not ask at once.
FillerAnswers(tip) ==
    /\ filler.step = "all" /\ tip \in Printed(now)
    /\ filler' = [Idle EXCEPT !.step = "merge",
                    !.found = Found(tip, IF open(filler.began) \/ tip = NoBars \/ sessionBarsComplete(tip)
                                         THEN NoProbe ELSE Attempted(tip, 1, 0, filler.began))]
    /\ UNCHANGED <<now, disk, backoff, build, agreed>>

FillerLoads ==
    /\ filler.step = "merge"
    /\ filler' = Saving(filler, mergeSession(disk, filler.found))
    /\ UNCHANGED <<now, disk, backoff, build, agreed>>

FillerSaves ==
    /\ filler.step = "save"
    /\ disk' = filler.seen
    /\ filler' = Idle
    /\ UNCHANGED <<now, backoff, build, agreed>>

\* The export's points become the day's trail, unless there is something better.
persistSprungSessionDetail ==
    /\ filler.step = "idle" /\ Room /\ disk.tip = NoBars /\ disk.crumbs = {}
    /\ filler' = [Idle EXCEPT !.step = "trail", !.seen = disk]
    /\ UNCHANGED <<now, disk, backoff, build, agreed>>

TrailSaved(t) ==
    /\ filler.step = "trail"
    /\ disk' = [filler.seen EXCEPT !.crumbs = {t}, !.probe = NoProbe]
    /\ filler' = Idle
    /\ UNCHANGED <<now, backoff, build, agreed>>

FillerFails ==
    /\ filler.step = "all"
    /\ filler' = Idle
    /\ UNCHANGED <<now, disk, backoff, build, agreed>>

----------------------------------------------------------------------------
Tick ==
    /\ now < Horizon
    /\ \A b \in Builders : build[b].step # "idle" => now - build[b].began < Patience
    /\ now' = now + 1
    /\ UNCHANGED <<disk, backoff, build, filler, agreed>>

\* The page goes away in the middle; what was saved stays.
Reload ==
    /\ build' = [b \in Builders |-> Idle] /\ filler' = Idle
    /\ UNCHANGED <<now, disk, backoff, agreed>>

Next ==
    \/ \E b \in Builders :
        \/ \E kind \in {"paint", "stored", "force"} : loadOrBuildSessionCurve(b, kind)
        \/ \E tip \in Tips : AllAnswers(b, tip) \/ FirstAnswers(b, tip) \/ SecondAnswers(b, tip)
        \/ \E complete \in BOOLEAN : Draws(b, complete)
        \/ Throws(b) \/ MergeLoads(b) \/ MergeSaves(b) \/ Appends(b)
    \/ \E wipe \in BOOLEAN : prefetchGraphBars(wipe)
    \/ \E tip \in Tips : FillerAnswers(tip)
    \/ persistSprungSessionDetail
    \/ \E t \in 0 .. Shut - 1 : TrailSaved(t)
    \/ FillerLoads \/ FillerSaves \/ FillerFails \/ Tick \/ Reload

Spec == Init /\ [][Next]_vars

----------------------------------------------------------------------------
\* However the builds overlap and lose each other's writes, a day is settled only
\* after both providers agreed in as many different hours as the code asks for,
\* and never without bars (close-completeness.ts resolveCloseCompleteness,
\* closeProbeReady; timeseries-store.ts mergeCloseProbes).
SettledEarned == disk.probe.settled => Cardinality(agreed) >= Agreements /\ disk.tip # NoBars

\* A series that nobody can advance is parked: the builds that were already under
\* way may still add a strike each, and no more (live-graph.ts cacheSeriesBackoff).
StrikesBounded == backoff.fails <= Strikes - 1 + Cardinality(Builders)

\* No merge takes a crumb off the trail ("a bar fetch must never wipe the live-tip
\* trail", timeseries-store.ts mergeSession).  TLC refutes it: a merge that loaded
\* before a crumb was appended saves the trail without it.
TrailKept == [][\A b \in Builders : MergeSaves(b) => disk.crumbs \subseteq disk'.crumbs]_vars

\* A day that is settled stays so until it reaches the close or is wiped ("settled
\* is sticky", mergeCloseProbes).  TLC refutes it in the same way.
SettledSticky ==
    [][disk.probe.settled => disk'.probe.settled \/ sessionBarsComplete(disk'.tip) \/ disk' = NoRecord]_vars
=============================================================================
