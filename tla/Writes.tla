------------------------------ MODULE Writes ------------------------------
(***************************************************************************)
(* One tab of the app between its user, its query cache and the server:    *)
(* writes to the ledger, drawn before they are confirmed, the list they    *)
(* are drawn in, the check whether the tab is signed in, and the wipe of   *)
(* everything cached when it is not                                        *)
(* (frontend/src/lib: queries/optimistic.ts, queries/ledger.ts, api.ts,    *)
(* queries.ts, auth.ts, and pages/Login).                                  *)
(*                                                                         *)
(* The ledger is the set of the writes applied to it, and so is every copy *)
(* of it: an edit marks an existing row, a create adds one.  A request     *)
(* carries the cookie of the sign-in it was sent under.                    *)
(***************************************************************************)
EXTENDS Naturals, FiniteSets

CONSTANTS
    Edits,      \* writes to a row the list shows: update, delete
    Creates,    \* writes of a new row
    MaxSignIns, \* bound: how often the user signs in
    MaxFaults   \* bound: how many answers are lost or refused

Writes == Edits \cup Creates

\* undefined, where the cached list is expected
NoData == {"undefined"}

ASSUME WritesAssumption == Edits \cap Creates = {} /\ "undefined" \notin Writes
ASSUME WritesBounds == MaxSignIns \in Nat /\ MaxFaults \in Nat

VARIABLES
    ledger,   \* the writes the server has applied
    alive,    \* whether the session of the last sign-in is valid
    signIns,  \* how often the user has signed in
    stage,    \* stage[w]: new, begun, sent, applied, refused, barred (401) or done
    sentBy,   \* sentBy[w]: the sign-in a write was sent under
    before,   \* before[w]: the snapshot its onMutate took
    stray,    \* writes the tab gave up on and the server may still receive
    list,     \* the cached ledger: its data, its mark, and the fetch under way
    check,    \* the cached answer of /auth/me and the fetch under way
    page,     \* ledger, other, or login
    leaving,  \* the sign-in page waits for its last check before it leaves
    missed,   \* history: applied writes the tab was given no cause to fetch
    wiped,    \* history: nothing cached since a wipe, a rollback undid it, or neither
    faults

server  == <<ledger, alive, signIns>>
writing == <<stage, sentBy, before, stray>>
vars == <<server, writing, list, check, page, leaving, missed, wiped, faults>>

NoList  == [data |-> NoData, invalid |-> FALSE, fetch |-> "none", got |-> {}]
NoCheck == [answer |-> "none", of |-> 0, fetch |-> "none", by |-> 0]

Init ==
    /\ ledger = {} /\ alive = TRUE /\ signIns = 0
    /\ stage = [w \in Writes |-> "new"]
    /\ sentBy = [w \in Writes |-> 0]
    /\ before = [w \in Writes |-> NoData]
    /\ stray = {}
    /\ list = NoList /\ check = NoCheck
    /\ page = "ledger" /\ leaving = FALSE
    /\ missed = {} /\ wiped = "no" /\ faults = 0

Admitted(by) == alive /\ by = signIns

Fault == faults < MaxFaults /\ faults' = faults + 1

(***************************************************************************)
(* The query cache of the tab.                                             *)
(***************************************************************************)
Asking(L) == [L EXCEPT !.fetch = "asked", !.got = {}]
Idle(L)   == [L EXCEPT !.fetch = "none", !.got = {}]

\* setQueryData: a value put by hand counts as fresh; a fetch under way goes on.
Put(L, data) == [L EXCEPT !.data = data, !.invalid = FALSE]

\* invalidateQueries: marked; fetched again at once where a page shows it, in place of a
\* fetch under way unless that one is the first.
Invalidated(L) ==
    LET M == [L EXCEPT !.invalid = L.data # NoData]
    IN  IF page # "ledger" \/ (L.data = NoData /\ L.fetch # "none") THEN M ELSE Asking(M)

\* What an invalidation after w leaves behind: a fetch it does not replace has been read
\* before w was applied, and its arrival removes the mark.
Overlooked(w, L) ==
    IF L.fetch = "read" /\ Invalidated(L).fetch = "read" THEN ({w} \cap ledger) \ L.got ELSE {}

\* rollback(): nothing to put back where nothing was drawn.
RolledBack(L, w) == IF before[w] = NoData THEN L ELSE Put(L, before[w])

\* MUTANT: the entries are dropped but what is under way is not cancelled.
Wiped_FetchesGoOn(L) == [L EXCEPT !.data = NoData, !.invalid = FALSE]

\* clearClientData(): every query is gone, with the fetch under way; a write is not.
Wiped(L) == NoList

(***************************************************************************)
(* The pages.                                                              *)
(***************************************************************************)
\* The ledger page asks for a list that is missing, marked, or old; so do a reconnect, a
\* pull to refresh, and on the other pages the prefetch.
Fetch ==
    /\ page # "login" /\ list.fetch = "none"
    /\ list' = Asking(list)
    /\ UNCHANGED <<server, writing, check, page, leaving, missed, wiped, faults>>

\* Leaving the page that shows a query cancels its fetch.
Browse ==
    /\ page # "login"
    /\ page' = IF page = "ledger" THEN "other" ELSE "ledger"
    /\ list' = IF page = "ledger" THEN Idle(list)
               ELSE IF list.fetch = "none" /\ (list.data = NoData \/ list.invalid) THEN Asking(list)
               ELSE list
    /\ UNCHANGED <<server, writing, check, leaving, missed, wiped, faults>>

\* The server reads the ledger for it, or answers 401.  No fetch outlives the sign-in it was
\* sent under: the sign-in page is only reached without one.
FetchRead ==
    /\ list.fetch = "asked"
    /\ list' = IF alive THEN [list EXCEPT !.fetch = "read", !.got = ledger]
               ELSE [list EXCEPT !.fetch = "barred"]
    /\ UNCHANGED <<server, writing, check, page, leaving, missed, wiped, faults>>

FetchLands ==
    /\ list.fetch = "read"
    /\ list' = Idle(Put(list, list.got))
    /\ missed' = missed \ list.got
    /\ UNCHANGED <<server, writing, check, page, leaving, wiped, faults>>

\* No answer, after the retries: what is cached stays, and is marked.
FetchFails ==
    /\ list.fetch # "none"
    /\ Fault
    /\ list' = Idle([list EXCEPT !.invalid = list.data # NoData])
    /\ UNCHANGED <<server, writing, check, page, leaving, missed, wiped>>

\* A 401: the listeners wipe everything cached, the check included, and the app goes to the
\* sign-in page, unless that page was waiting for the check it just lost.
AuthLost(L) ==
    /\ list' = Wiped(L)
    /\ check' = NoCheck
    /\ page' = IF leaving THEN "other" ELSE "login"
    /\ leaving' = FALSE
    /\ wiped' = IF leaving THEN "no" ELSE "yes"

FetchBarred ==
    /\ list.fetch = "barred"
    /\ AuthLost(Idle(list))
    /\ UNCHANGED <<server, writing, missed, faults>>

(***************************************************************************)
(* A write.                                                                *)
(***************************************************************************)
Send(w) ==
    /\ stage' = [stage EXCEPT ![w] = "sent"]
    /\ sentBy' = [sentBy EXCEPT ![w] = signIns]

\* A create waits for the server.
Create(w) ==
    /\ w \in Creates
    /\ page = "ledger" /\ stage[w] = "new"
    /\ Send(w)
    /\ UNCHANGED <<server, before, stray, list, check, page, leaving, missed, wiped, faults>>

\* An edit of a row that is shown cancels the fetch under way (applyOptimistic), and waits.
Begin(w) ==
    /\ w \in Edits /\ list.data # NoData
    /\ page = "ledger" /\ stage[w] = "new"
    /\ stage' = [stage EXCEPT ![w] = "begun"]
    /\ list' = Idle(list)
    /\ UNCHANGED <<server, sentBy, before, stray, check, page, leaving, missed, wiped, faults>>

\* Then it remembers the list and draws itself in what is there by now, and is sent.
Draw(w) ==
    /\ w \in Edits /\ stage[w] = "begun"
    /\ Send(w)
    /\ before' = [before EXCEPT ![w] = list.data]
    /\ list' = IF list.data = NoData THEN list ELSE Put(list, list.data \cup {w})
    /\ UNCHANGED <<server, stray, check, page, leaving, missed, wiped, faults>>

Serve(w, accepted) ==
    /\ stage[w] = "sent"
    /\ IF ~ Admitted(sentBy[w]) THEN
           /\ stage' = [stage EXCEPT ![w] = "barred"]
           /\ UNCHANGED <<ledger, faults>>
       ELSE IF accepted THEN
           /\ stage' = [stage EXCEPT ![w] = "applied"]
           /\ ledger' = ledger \cup {w}
           /\ UNCHANGED faults
       ELSE
           /\ stage' = [stage EXCEPT ![w] = "refused"]
           /\ Fault
           /\ UNCHANGED ledger
    /\ UNCHANGED <<alive, signIns, sentBy, before, stray, list, check, page, leaving, missed, wiped>>

Ends(w) ==
    /\ stage' = [stage EXCEPT ![w] = "done"]
    /\ sentBy' = [sentBy EXCEPT ![w] = IF stage[w] = "sent" THEN @ ELSE 0]
    /\ before' = [before EXCEPT ![w] = NoData]

\* onSuccess of a create, onSettled of an edit: the list is fetched again.
Confirm(w) ==
    /\ stage[w] = "applied"
    /\ Ends(w)
    /\ list' = Invalidated(list)
    /\ missed' = missed \cup Overlooked(w, list)
    /\ UNCHANGED <<server, stray, check, page, leaving, wiped, faults>>

\* A rollback after a wipe puts back what was wiped.
Undone(w) == IF wiped = "yes" /\ before[w] # NoData THEN "undone" ELSE wiped

\* MUTANT: the list is only fetched again after a success.
Fails_OnSuccessOnly(w) ==
    /\ list' = RolledBack(list, w)
    /\ missed' = missed
    /\ wiped' = Undone(w)

\* onError: an edit is taken back and the list fetched again; of a create nothing is left
\* to take back, and nothing is fetched.
Fails(w) ==
    IF w \in Creates THEN
        /\ list' = list
        /\ missed' = IF list.data # NoData /\ w \in list.data THEN missed ELSE missed \cup {w}
        /\ wiped' = wiped
    ELSE
        /\ list' = Invalidated(RolledBack(list, w))
        /\ missed' = missed \cup Overlooked(w, RolledBack(list, w))
        /\ wiped' = Undone(w)

Reject(w) ==
    /\ stage[w] = "refused"
    /\ Ends(w) /\ stray' = stray
    /\ Fails(w)
    /\ UNCHANGED <<server, check, page, leaving, faults>>

\* The connection is gone before the answer: nothing is known of the write.
GiveUp(w) ==
    /\ stage[w] \in {"sent", "applied"}
    /\ Fault
    /\ Ends(w) /\ stray' = IF stage[w] = "sent" THEN stray \cup {w} ELSE stray
    /\ Fails(w)
    /\ UNCHANGED <<server, check, page, leaving>>

\* A write given up on still arrives.
StrayApplies(w) ==
    /\ w \in stray
    /\ stray' = stray \ {w}
    /\ ledger' = IF Admitted(sentBy[w]) THEN ledger \cup {w} ELSE ledger
    /\ missed' = missed \cup {w}
    /\ sentBy' = [sentBy EXCEPT ![w] = 0]
    /\ UNCHANGED <<alive, signIns, stage, before, list, check, page, leaving, wiped, faults>>

\* A 401 wipes first; the handlers of the write run after it, on a page that is gone.
Bar(w) ==
    /\ stage[w] = "barred"
    /\ Ends(w) /\ stray' = stray
    /\ LET back == w \in Edits /\ before[w] # NoData
       IN  /\ list' = IF back THEN [NoList EXCEPT !.data = before[w], !.invalid = TRUE] ELSE Wiped(list)
           /\ wiped' = IF leaving THEN "no" ELSE IF back THEN "undone" ELSE "yes"
    /\ check' = NoCheck
    /\ page' = IF leaving THEN "other" ELSE "login"
    /\ leaving' = FALSE
    /\ UNCHANGED <<server, missed, faults>>

(***************************************************************************)
(* Signing in and out.                                                     *)
(***************************************************************************)
\* Every page shows the check: it is asked when it is missing or old.
Ask ==
    /\ check.fetch = "none"
    /\ check' = [check EXCEPT !.fetch = "asked", !.by = signIns]
    /\ UNCHANGED <<server, writing, list, page, leaving, missed, wiped, faults>>

CheckRead ==
    /\ check.fetch = "asked"
    /\ check' = [check EXCEPT !.fetch = IF Admitted(check.by) THEN "in" ELSE "out"]
    /\ UNCHANGED <<server, writing, list, page, leaving, missed, wiped, faults>>

\* The sign-in page leaves once its check is over, answered or not.
Leave ==
    /\ page' = IF leaving THEN "other" ELSE page
    /\ leaving' = FALSE
    /\ wiped' = IF leaving THEN "no" ELSE wiped

CheckLands ==
    /\ check.fetch \in {"in", "out"}
    /\ check' = [answer |-> check.fetch, of |-> check.by, fetch |-> "none", by |-> 0]
    /\ Leave
    /\ UNCHANGED <<server, writing, list, missed, faults>>

CheckFails ==
    /\ check.fetch # "none"
    /\ Fault
    /\ check' = [check EXCEPT !.fetch = "none", !.by = 0]
    /\ Leave
    /\ UNCHANGED <<server, writing, list, missed>>

\* RequireAuth: an app page that finds the answer "not signed in" goes to the sign-in page;
\* nothing is wiped.
Bounce ==
    /\ page # "login" /\ check.answer = "out"
    /\ page' = "login"
    /\ list' = Idle(list)
    /\ UNCHANGED <<server, writing, check, leaving, missed, wiped, faults>>

\* logout(): the cache is wiped whether or not the request got through.
Logout(reached) ==
    /\ page # "login"
    /\ alive' = (alive /\ ~ reached)
    /\ AuthLost(list)
    /\ UNCHANGED <<ledger, signIns, writing, missed, faults>>

SessionEnds ==
    /\ alive
    /\ alive' = FALSE
    /\ UNCHANGED <<ledger, signIns, writing, list, check, page, leaving, missed, wiped, faults>>

\* MUTANT: the check under way is cancelled, the cached answer stays, and is fresh enough.
SignIn_KeepsAnswer ==
    /\ page = "login" /\ ~ leaving
    /\ signIns < MaxSignIns /\ signIns' = signIns + 1
    /\ alive' = TRUE
    /\ check' = [check EXCEPT !.fetch = IF check.answer = "none" THEN "asked" ELSE "none",
                              !.by = IF check.answer = "none" THEN signIns' ELSE 0]
    /\ leaving' = (check.answer = "none")
    /\ page' = IF check.answer = "none" THEN page ELSE "other"
    /\ UNCHANGED <<ledger, writing, list, missed, wiped, faults>>

\* The sign-in is accepted: invalidateAuth() cancels the check under way and removes the
\* cached answer, and done() asks again before it leaves the page.
SignIn ==
    /\ page = "login" /\ ~ leaving
    /\ signIns < MaxSignIns /\ signIns' = signIns + 1
    /\ alive' = TRUE
    /\ check' = [NoCheck EXCEPT !.fetch = "asked", !.by = signIns']
    /\ leaving' = TRUE
    /\ UNCHANGED <<ledger, writing, list, page, missed, wiped, faults>>

Write(w) ==
    \/ Create(w) \/ Begin(w) \/ Draw(w) \/ Confirm(w) \/ Reject(w) \/ GiveUp(w) \/ StrayApplies(w) \/ Bar(w)
    \/ \E accepted \in BOOLEAN : Serve(w, accepted)

Reading == Fetch \/ FetchRead \/ FetchLands \/ FetchFails \/ FetchBarred \/ Browse

Signing ==
    \/ Ask \/ CheckRead \/ CheckLands \/ CheckFails \/ Bounce \/ SessionEnds \/ SignIn
    \/ \E reached \in BOOLEAN : Logout(reached)

Next == (\E w \in Writes : Write(w)) \/ Reading \/ Signing

Spec == Init /\ [][Next]_vars

----------------------------------------------------------------------------
Lists == SUBSET Writes

TypeOK ==
    /\ ledger \in Lists /\ stray \in Lists /\ missed \in Lists
    /\ alive \in BOOLEAN /\ leaving \in BOOLEAN
    /\ signIns \in 0 .. MaxSignIns /\ faults \in 0 .. MaxFaults
    /\ stage \in [Writes -> {"new", "begun", "sent", "applied", "refused", "barred", "done"}]
    /\ sentBy \in [Writes -> 0 .. signIns]
    /\ before \in [Writes -> Lists \cup {NoData}]
    /\ list \in [data : Lists \cup {NoData}, invalid : BOOLEAN, got : Lists,
                 fetch : {"none", "asked", "read", "barred"}]
    /\ check \in [answer : {"none", "in", "out"}, of : 0 .. signIns, by : 0 .. signIns,
                  fetch : {"none", "asked", "in", "out"}]
    /\ page \in {"ledger", "other", "login"}
    /\ wiped \in {"no", "yes", "undone"}

Settled == \A w \in Writes : stage[w] \in {"new", "done"}

\* Once no write is under way, a list that counts as fresh is what the server holds:
\* however rollbacks, refetches and lost answers crossed, no edit the server refused stays
\* drawn and none it applied is missing (optimistic.ts:1-6; ledger.ts:87, "the list
\* refetches once the write lands").  Left out are the writes the tab has no cause to fetch:
\* a create whose answer was lost, a write given up on that arrives later, and one that a
\* fetch already read when the write settled, and that it does not replace, leaves out.
RowsConfirmed ==
    Settled /\ ~ list.invalid /\ list.data # NoData => list.data = ledger \ missed

\* The route guard never acts on a check sent before the last sign-in
\* (Login.tsx:75-78, "can never act on a check that was sent before the sign-in").
GuardFresh == page # "login" /\ check.answer = "out" => check.of = signIns

\* What a wipe removed does not come back by an answer that was under way
\* (queries.ts:56-61).
WipeKept == wiped = "yes" => list.data = NoData

\* "Forget every cached server answer ... Called on logout and on any 401, so holdings and
\* transactions do not stay readable" (queries.ts:56-61).
WipeHolds == wiped # "no" => list.data = NoData

=============================================================================
