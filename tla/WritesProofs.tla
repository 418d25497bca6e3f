--------------------------- MODULE WritesProofs ---------------------------
(***************************************************************************)
(* Proofs about Writes: the list the tab shows is what the server holds,   *)
(* a wipe is not undone by an answer, and the route guard acts on no check *)
(* that was sent before the sign-in.                                       *)
(*                                                                         *)
(* For the list the invariant says of each of its copies what it may lack: *)
(* an answer under way lacks what is still to be confirmed or was missed   *)
(* (Read); a list that counts as fresh beside no edit lacks no more and    *)
(* has no more than the ledger (Fresh); and the snapshots, which hold      *)
(* edits nobody confirmed, hold no create the server has not (Drawn).      *)
(***************************************************************************)
EXTENDS Writes, TLAPS

Pending(w) == stage[w] \notin {"new", "done"}
NoEdits == \A w \in Edits : ~ Pending(w)

List == [data : Lists \cup {NoData}, invalid : BOOLEAN, got : Lists,
         fetch : {"none", "asked", "read", "barred"}]

Types ==
    /\ ledger \in Lists /\ stray \in Lists /\ missed \in Lists
    /\ stage \in [Writes -> {"new", "begun", "sent", "applied", "refused", "barred", "done"}]
    /\ before \in [Writes -> Lists \cup {NoData}]
    /\ list \in List

\* What the server has applied is what it said or will say it has, and the strays are not
\* among it.
Served ==
    \A w \in Writes :
        /\ stage[w] = "applied" => w \in ledger
        /\ w \in ledger => stage[w] \in {"applied", "done"} /\ w \notin stray
        /\ w \in stray => stage[w] = "done"

\* A copy of the list holds no create that is not within S.
Within(copy, S) == copy # NoData => copy \cap Creates \subseteq S

Drawn == Within(list.data, ledger) /\ \A w \in Writes : Within(before[w], ledger)

\* What a copy of the ledger lacks was missed or is still to be confirmed.
Lacks(copy) == \A w \in ledger \ copy : w \in missed \/ stage[w] = "applied"

Read ==
    list.fetch = "read" =>
        /\ list.got \subseteq ledger
        /\ Lacks(list.got)
        /\ Within(list.data, list.got)
        /\ \A w \in Writes : Within(before[w], list.got)

Fresh ==
    NoEdits /\ ~ list.invalid /\ list.data # NoData =>
        list.data \subseteq ledger \ missed /\ Lacks(list.data)

RowsInv == Types /\ Served /\ Drawn /\ Read /\ Fresh

rowVars == <<ledger, stage, before, stray, list, missed>>

----------------------------------------------------------------------------
\* An unknown list is no list.
LEMMA NoDataIsNoList == NoData \notin Lists
  BY WritesAssumption DEF NoData, Lists

\* invalidateQueries leaves the data, marks it if there is some, and either asks again or
\* lets the fetch under way go on.
LEMMA InvalidatedIs ==
    ASSUME NEW L \in List
    PROVE  /\ Invalidated(L) \in List
           /\ Invalidated(L).data = L.data
           /\ Invalidated(L).invalid = (L.data # NoData)
           /\ \/ Invalidated(L).fetch = "asked"
              \/ Invalidated(L).fetch = L.fetch /\ Invalidated(L).got = L.got
  BY DEF Invalidated, Asking, List, Lists

LEMMA PutIs ==
    ASSUME NEW L \in List, NEW d \in Lists
    PROVE  /\ Put(L, d) \in List
           /\ Put(L, d).data = d /\ Put(L, d).invalid = FALSE
           /\ Put(L, d).fetch = L.fetch /\ Put(L, d).got = L.got
  BY DEF Put, List

LEMMA IdleIs ==
    ASSUME NEW L \in List
    PROVE  /\ Idle(L) \in List
           /\ Idle(L).data = L.data /\ Idle(L).invalid = L.invalid /\ Idle(L).fetch = "none"
  BY DEF Idle, List, Lists

LEMMA AskingIs ==
    ASSUME NEW L \in List
    PROVE  /\ Asking(L) \in List
           /\ Asking(L).data = L.data /\ Asking(L).invalid = L.invalid /\ Asking(L).fetch = "asked"
  BY DEF Asking, List, Lists

\* Nothing is written and nothing known at first.
LEMMA RowsInit == Init => RowsInv
  BY NoDataIsNoList
     DEF Init, RowsInv, Types, Served, Drawn, Within, Read, Fresh, NoList, List, Lists

\* A step that leaves the writes and the ledger alone, and of the list only cancels, starts
\* or drops a fetch, keeps the invariant.
LEMMA RowsFetch ==
    ASSUME RowsInv, UNCHANGED <<ledger, stage, before, stray, missed>>,
           list' \in List, list'.fetch = "read" => list'.got = list.got /\ list.fetch = "read",
           list'.data = list.data, list'.invalid = list.invalid
    PROVE  RowsInv'
  <1>1. Types' /\ Served' /\ Drawn'
    BY DEF RowsInv, Types, Served, Drawn, Within
  <1>2. Read'
    BY DEF RowsInv, Read, Lacks, Within
  <1>3. Fresh'
    BY DEF RowsInv, Fresh, NoEdits, Pending, Lacks
  <1> QED
    BY <1>1, <1>2, <1>3 DEF RowsInv

\* The same, where the list is gone.
LEMMA RowsGone ==
    ASSUME RowsInv, UNCHANGED <<ledger, stage, before, stray, missed>>, list' = NoList
    PROVE  RowsInv'
  <1>1. list' \in List /\ list'.data = NoData /\ list'.fetch = "none"
    BY DEF NoList, List, Lists
  <1>2. Types' /\ Served' /\ Drawn'
    BY <1>1 DEF RowsInv, Types, Served, Drawn, Within
  <1>3. Read' /\ Fresh'
    BY <1>1 DEF RowsInv, Read, Fresh
  <1> QED
    BY <1>2, <1>3 DEF RowsInv

----------------------------------------------------------------------------
\* The list is read, lands, fails, or is cancelled.
LEMMA RowsReading == RowsInv /\ Reading => RowsInv'
  <1> SUFFICES ASSUME RowsInv, Reading PROVE RowsInv'
    OBVIOUS
  <1> USE NoDataIsNoList
  <1>t. list \in List
    BY DEF RowsInv, Types
  <1>1. CASE Fetch
    <2>1. UNCHANGED <<ledger, stage, before, stray, missed>> /\ list' = Asking(list)
      BY <1>1 DEF Fetch, server, writing
    <2>2. list' \in List /\ list'.data = list.data /\ list'.invalid = list.invalid
          /\ list'.fetch = "asked"
      BY <2>1, <1>t, AskingIs
    <2> QED
      BY <2>1, <2>2, RowsFetch
  <1>2. CASE FetchRead
    <2>1. /\ UNCHANGED <<ledger, stage, before, stray, missed>>
          /\ list'.data = list.data /\ list'.invalid = list.invalid
          /\ list' \in List
          /\ list'.fetch = "read" => list'.got = ledger
      <3>1. UNCHANGED <<ledger, stage, before, stray, missed>> /\ ledger \in Lists
        BY <1>2 DEF FetchRead, server, writing, RowsInv, Types
      <3>2. CASE alive
        BY <1>2, <1>t, <3>1, <3>2 DEF FetchRead, List
      <3>3. CASE ~ alive
        BY <1>2, <1>t, <3>1, <3>3 DEF FetchRead, List
      <3> QED
        BY <3>1, <3>2, <3>3
    <2>2. Types' /\ Served' /\ Drawn'
      BY <2>1 DEF RowsInv, Types, Served, Drawn, Within
    <2>3. Read'
      BY <2>1 DEF RowsInv, Read, Drawn, Lacks, Within
    <2>4. Fresh'
      BY <2>1 DEF RowsInv, Fresh, NoEdits, Pending, Lacks
    <2> QED
      BY <2>2, <2>3, <2>4 DEF RowsInv
  <1>3. CASE FetchLands
    <2>1. /\ UNCHANGED <<ledger, stage, before, stray>>
          /\ list.fetch = "read" /\ list.got \in Lists
          /\ missed' = missed \ list.got
          /\ list' = Idle(Put(list, list.got))
      BY <1>3, <1>t DEF FetchLands, server, writing, List
    <2>2. list' \in List /\ list'.data = list.got /\ ~ list'.invalid /\ list'.fetch = "none"
      <3> DEFINE L == Put(list, list.got)
      <3>1. L \in List /\ L.data = list.got /\ L.invalid = FALSE
        BY <2>1, <1>t, PutIs
      <3> HIDE DEF L
      <3>2. Idle(L) \in List /\ Idle(L).data = L.data /\ Idle(L).invalid = L.invalid
            /\ Idle(L).fetch = "none"
        BY <3>1, IdleIs
      <3> QED
        BY <2>1, <3>1, <3>2 DEF L
    <2>3. Types' /\ Served' /\ Drawn'
      BY <2>1, <2>2 DEF RowsInv, Types, Served, Drawn, Within, Read, Lists
    <2>4. Read'
      BY <2>2 DEF Read
    <2>5. Fresh'
      BY <2>1, <2>2 DEF RowsInv, Read, Fresh, Lacks
    <2> QED
      BY <2>3, <2>4, <2>5 DEF RowsInv
  <1>4. CASE FetchFails
    <2>1. /\ UNCHANGED <<ledger, stage, before, stray, missed>>
          /\ list' \in List /\ list'.data = list.data /\ list'.fetch = "none"
          /\ list'.invalid = (list.data # NoData)
      BY <1>4, <1>t DEF FetchFails, server, writing, List, Idle, Lists
    <2>2. Types' /\ Served' /\ Drawn'
      BY <2>1 DEF RowsInv, Types, Served, Drawn, Within
    <2>3. Read' /\ Fresh'
      BY <2>1 DEF RowsInv, Read, Fresh
    <2> QED
      BY <2>2, <2>3 DEF RowsInv
  <1>5. CASE FetchBarred
    <2>1. UNCHANGED <<ledger, stage, before, stray, missed>> /\ list' = NoList
      BY <1>5 DEF FetchBarred, AuthLost, Wiped, server, writing
    <2> QED
      BY <2>1, RowsGone
  <1>6. CASE Browse
    <2>1. /\ UNCHANGED <<ledger, stage, before, stray, missed>>
          /\ list' \in {Idle(list), Asking(list), list}
      BY <1>6 DEF Browse, server, writing
    <2>2. /\ list' \in List /\ list'.data = list.data /\ list'.invalid = list.invalid
          /\ list'.fetch \in {"none", "asked"} \/ list' = list
      BY <2>1, <1>t, AskingIs, IdleIs
    <2> QED
      BY <2>1, <2>2, RowsFetch
  <1> QED
    BY <1>1, <1>2, <1>3, <1>4, <1>5, <1>6 DEF Reading

\* Signing in and out only cancels a fetch or drops the list.
LEMMA RowsSigning == RowsInv /\ Signing => RowsInv'
  <1> SUFFICES ASSUME RowsInv, Signing PROVE RowsInv'
    OBVIOUS
  <1>t. list \in List
    BY DEF RowsInv, Types
  <1>1. CASE Ask \/ CheckRead \/ CheckLands \/ CheckFails \/ SessionEnds \/ SignIn
    <2>1. UNCHANGED <<ledger, stage, before, stray, missed, list>>
      BY <1>1 DEF Ask, CheckRead, CheckLands, CheckFails, SessionEnds, SignIn, server, writing
    <2> QED
      BY <2>1, <1>t, RowsFetch
  <1>2. CASE Bounce
    <2>1. UNCHANGED <<ledger, stage, before, stray, missed>> /\ list' = Idle(list)
      BY <1>2 DEF Bounce, server, writing
    <2>2. list' \in List /\ list'.data = list.data /\ list'.invalid = list.invalid
          /\ list'.fetch = "none"
      BY <2>1, <1>t, IdleIs
    <2> QED
      BY <2>1, <2>2, RowsFetch
  <1>3. ASSUME NEW reached \in BOOLEAN, Logout(reached) PROVE RowsInv'
    <2>1. UNCHANGED <<ledger, stage, before, stray, missed>> /\ list' = NoList
      BY <1>3 DEF Logout, AuthLost, Wiped, writing
    <2> QED
      BY <2>1, RowsGone
  <1> QED
    BY <1>1, <1>2, <1>3 DEF Signing

----------------------------------------------------------------------------
\* A write that is over and invalidates the list, whatever list L it left behind, keeps the
\* invariant: a marked list promises nothing, and what goes on being fetched lacks the
\* write only if it was overlooked.
LEMMA RowsSettled ==
    ASSUME RowsInv, NEW w \in Writes, Pending(w),
           NEW L \in List, L.fetch = list.fetch, L.got = list.got,
           Within(L.data, ledger), list.fetch = "read" => Within(L.data, list.got),
           ledger' = ledger,
           stage' = [stage EXCEPT ![w] = "done"], before' = [before EXCEPT ![w] = NoData],
           stray' = stray \cup (IF stage[w] = "sent" THEN {w} ELSE {}),
           list' = Invalidated(L), missed' = missed \cup Overlooked(w, L)
    PROVE  RowsInv'
  <1>1. /\ list' \in List /\ list'.data = L.data
        /\ list'.invalid = (L.data # NoData)
        /\ list'.fetch = "asked" \/ (list'.fetch = list.fetch /\ list'.got = list.got)
    BY InvalidatedIs
  <1>2. /\ stage'[w] = "done" /\ before'[w] = NoData
        /\ \A v \in Writes \ {w} : stage'[v] = stage[v] /\ before'[v] = before[v]
    BY DEF RowsInv, Types
  <1>3. Overlooked(w, L) \subseteq {w}
    BY DEF Overlooked
  <1>4. Types'
    BY <1>1, <1>3 DEF RowsInv, Types, Lists
  <1>5. Served'
    BY <1>2 DEF RowsInv, Served, Pending
  <1>6. Drawn'
    BY <1>1, <1>2 DEF RowsInv, Drawn, Within
  <1>7. Read'
    <2> SUFFICES ASSUME list'.fetch = "read" PROVE Read'
      BY DEF Read
    <2>1. list.fetch = "read" /\ list'.got = list.got
      BY <1>1
    <2>2. Overlooked(w, L) = ({w} \cap ledger) \ list.got
      BY <2>1 DEF Overlooked
    <2>3. \A v \in ledger' \ list'.got : v \in missed' \/ stage'[v] = "applied"
      <3> TAKE v \in ledger' \ list'.got
      <3>1. v \in Writes /\ (v \in missed \/ stage[v] = "applied")
        BY <2>1 DEF RowsInv, Read, Lacks, Types, Lists
      <3>2. CASE v = w
        BY <3>2, <2>1, <2>2
      <3>3. CASE v # w
        BY <3>1, <3>3, <1>2
      <3> QED
        BY <3>2, <3>3
    <2>4. Within(list'.data, list'.got) /\ \A v \in Writes : Within(before'[v], list'.got)
      BY <1>1, <1>2, <2>1 DEF RowsInv, Read, Within
    <2> QED
      BY <2>1, <2>3, <2>4 DEF RowsInv, Read, Lacks
  <1>8. Fresh'
    BY <1>1 DEF Fresh
  <1> QED
    BY <1>4, <1>5, <1>6, <1>7, <1>8 DEF RowsInv

\* What a rollback leaves holds no create the server has not.
LEMMA RolledBackIs ==
    ASSUME RowsInv, NEW w \in Writes
    PROVE  /\ RolledBack(list, w) \in List
           /\ RolledBack(list, w).fetch = list.fetch /\ RolledBack(list, w).got = list.got
           /\ Within(RolledBack(list, w).data, ledger)
           /\ list.fetch = "read" => Within(RolledBack(list, w).data, list.got)
  <1>1. list \in List /\ before[w] \in Lists \cup {NoData}
    BY DEF RowsInv, Types
  <1>2. CASE before[w] = NoData
    <2>1. RolledBack(list, w) = list
      BY <1>2 DEF RolledBack
    <2> QED
      BY <1>1, <2>1 DEF RowsInv, Drawn, Read
  <1>3. CASE before[w] # NoData
    <2>1. RolledBack(list, w) = Put(list, before[w]) /\ before[w] \in Lists
      BY <1>1, <1>3 DEF RolledBack
    <2> DEFINE snapshot == before[w]
    <2> HIDE DEF snapshot
    <2>2. /\ Put(list, snapshot) \in List /\ Put(list, snapshot).data = snapshot
          /\ Put(list, snapshot).fetch = list.fetch /\ Put(list, snapshot).got = list.got
      <3>1. list \in List /\ snapshot \in Lists
        BY <1>1, <2>1 DEF snapshot
      <3> QED
        BY <3>1, PutIs
    <2>3. RolledBack(list, w) = Put(list, snapshot) /\ snapshot = before[w]
      BY <2>1 DEF snapshot
    <2> QED
      BY <2>2, <2>3 DEF RowsInv, Drawn, Read, Within
  <1> QED
    BY <1>2, <1>3

\* A create that fails leaves no trace in the tab, and is missed if it was applied after all.
LEMMA RowsCreateFails ==
    ASSUME RowsInv, NEW w \in Creates, Pending(w),
           ledger' = ledger, list' = list,
           stage' = [stage EXCEPT ![w] = "done"], before' = [before EXCEPT ![w] = NoData],
           stray' = stray \cup (IF stage[w] = "sent" THEN {w} ELSE {}),
           missed' = IF list.data # NoData /\ w \in list.data THEN missed ELSE missed \cup {w}
    PROVE  RowsInv'
  <1>1. /\ w \in Writes /\ stage'[w] = "done" /\ before'[w] = NoData
        /\ \A v \in Writes \ {w} : stage'[v] = stage[v] /\ before'[v] = before[v]
        /\ list \in List /\ missed \in Lists
    BY DEF RowsInv, Types, Writes
  <1>2. Types'
    BY <1>1 DEF RowsInv, Types, Lists
  <1>3. Served'
    BY <1>1 DEF RowsInv, Served, Pending
  <1>4. Drawn'
    BY <1>1 DEF RowsInv, Drawn, Within
  <1>5. Read'
    <2> SUFFICES ASSUME list.fetch = "read" PROVE Read'
      BY DEF Read
    <2>1. w \in list.got \/ w \in missed'
      BY DEF RowsInv, Read, Within
    <2>2. \A v \in ledger \ list.got : v \in missed' \/ stage'[v] = "applied"
      BY <1>1, <2>1 DEF RowsInv, Read, Lacks, Types, Lists
    <2> QED
      BY <1>1, <2>2 DEF RowsInv, Read, Lacks, Within
  <1>6. Fresh'
    <2> SUFFICES ASSUME NoEdits', ~ list.invalid, list.data # NoData
                 PROVE  list.data \subseteq ledger \ missed' /\ Lacks(list.data)'
      BY DEF Fresh
    <2>1. w \notin Edits /\ NoEdits
      BY <1>1, WritesAssumption DEF NoEdits, Pending, Writes
    <2>2. list.data \subseteq ledger \ missed /\ Lacks(list.data)
      BY <2>1 DEF RowsInv, Fresh
    <2> QED
      BY <1>1, <2>2 DEF RowsInv, Lacks, Types, Lists
  <1> QED
    BY <1>2, <1>3, <1>4, <1>5, <1>6 DEF RowsInv

----------------------------------------------------------------------------
\* A create that is sent leaves the list alone.
LEMMA RowsCreate == \A w \in Writes : RowsInv /\ Create(w) => RowsInv'
  <1> SUFFICES ASSUME NEW w \in Writes, RowsInv, Create(w) PROVE RowsInv'
    OBVIOUS
  <1>1. /\ UNCHANGED <<ledger, before, stray, list, missed>> /\ w \notin Edits
        /\ stage[w] = "new" /\ stage' = [stage EXCEPT ![w] = "sent"]
    BY WritesAssumption DEF Create, Send, server, Writes
  <1>2. /\ stage'[w] = "sent"
        /\ \A v \in Writes \ {w} : stage'[v] = stage[v]
        /\ stage' \in [Writes -> {"new", "begun", "sent", "applied", "refused", "barred", "done"}]
    BY <1>1 DEF RowsInv, Types
  <1>3. Types' /\ Served' /\ Drawn'
    BY <1>1, <1>2 DEF RowsInv, Types, Served, Drawn, Within
  <1>4. Read'
    BY <1>1, <1>2 DEF RowsInv, Read, Lacks, Within, Types, Lists
  <1>5. Fresh'
    <2>1. NoEdits' => NoEdits
      BY <1>1, <1>2 DEF NoEdits, Pending, Writes
    <2> QED
      BY <1>1, <1>2, <2>1 DEF RowsInv, Fresh, Lacks, Types, Lists
  <1> QED
    BY <1>3, <1>4, <1>5 DEF RowsInv

\* An edit that begins cancels a fetch.
LEMMA RowsBegin == \A w \in Writes : RowsInv /\ Begin(w) => RowsInv'
  <1> SUFFICES ASSUME NEW w \in Writes, RowsInv, Begin(w) PROVE RowsInv'
    OBVIOUS
  <1>1. /\ UNCHANGED <<ledger, before, stray, missed>> /\ w \in Edits
        /\ stage[w] = "new" /\ stage' = [stage EXCEPT ![w] = "begun"]
        /\ list' = Idle(list)
    BY DEF Begin, server
  <1>2. /\ list' \in List /\ list'.data = list.data /\ list'.fetch = "none"
    BY <1>1, IdleIs DEF RowsInv, Types
  <1>3. /\ stage'[w] = "begun"
        /\ \A v \in Writes \ {w} : stage'[v] = stage[v]
        /\ stage' \in [Writes -> {"new", "begun", "sent", "applied", "refused", "barred", "done"}]
    BY <1>1 DEF RowsInv, Types
  <1>4. Types' /\ Served' /\ Drawn'
    BY <1>1, <1>2, <1>3 DEF RowsInv, Types, Served, Drawn, Within
  <1>5. Read' /\ Fresh'
    BY <1>1, <1>2, <1>3 DEF Read, Fresh, NoEdits, Pending
  <1> QED
    BY <1>4, <1>5 DEF RowsInv

\* Drawing an edit: what the list shows until it is over is no create; a fetch that began
\* meanwhile goes on.
LEMMA RowsDraw == \A w \in Writes : RowsInv /\ Draw(w) => RowsInv'
  <1> SUFFICES ASSUME NEW w \in Writes, RowsInv, Draw(w) PROVE RowsInv'
    OBVIOUS
  <1> USE NoDataIsNoList
  <1>1. /\ UNCHANGED <<ledger, stray, missed>>
        /\ stage[w] = "begun" /\ stage' = [stage EXCEPT ![w] = "sent"]
        /\ before' = [before EXCEPT ![w] = list.data]
        /\ list' = IF list.data = NoData THEN list ELSE Put(list, list.data \cup {w})
    BY DEF Draw, Send, server
  <1>2. /\ list \in List /\ stage'[w] = "sent"
        /\ \A v \in Writes \ {w} : stage'[v] = stage[v]
        /\ stage' \in [Writes -> {"new", "begun", "sent", "applied", "refused", "barred", "done"}]
    BY <1>1 DEF RowsInv, Types
  <1>3. list.data \in Lists \cup {NoData}
    BY <1>2 DEF List
  <1>4. /\ before' \in [Writes -> Lists \cup {NoData}] /\ before'[w] = list.data
        /\ \A v \in Writes \ {w} : before'[v] = before[v]
    BY <1>1, <1>3 DEF RowsInv, Types
  <1>5. /\ list' \in List /\ list'.fetch = list.fetch /\ list'.got = list.got
        /\ list.data = NoData => list'.data = NoData
        /\ list.data # NoData => list'.data = list.data \cup {w}
    <2>1. CASE list.data = NoData
      BY <1>1, <1>2, <2>1
    <2>2. CASE list.data # NoData
      <3> DEFINE drawn == list.data \cup {w}
      <3>1. drawn \in Lists
        BY <1>3, <2>2 DEF Lists
      <3> HIDE DEF drawn
      <3>2. /\ Put(list, drawn) \in List /\ Put(list, drawn).data = drawn
            /\ Put(list, drawn).fetch = list.fetch /\ Put(list, drawn).got = list.got
        BY <1>2, <3>1, PutIs
      <3> QED
        BY <1>1, <2>2, <3>2 DEF drawn
    <2> QED
      BY <2>1, <2>2
  <1>6. Types' /\ Served'
    BY <1>1, <1>2, <1>4, <1>5 DEF RowsInv, Types, Served
  <1>7. w \in Edits /\ w \notin Creates
    BY WritesAssumption DEF Draw
  <1>8. Drawn'
    BY <1>1, <1>4, <1>5, <1>7 DEF RowsInv, Drawn, Within
  <1>9. Read'
    <2> SUFFICES ASSUME list.fetch = "read" PROVE Read'
      BY <1>5 DEF Read
    <2>1. /\ list.got \subseteq ledger /\ Lacks(list.got)
          /\ Within(list.data, list.got) /\ \A v \in Writes : Within(before[v], list.got)
      BY DEF RowsInv, Read
    <2>2. Lacks(list.got)'
      BY <1>1, <1>2, <1>5, <2>1 DEF Lacks, RowsInv, Types, Lists
    <2>3. Within(list'.data, list'.got) /\ \A v \in Writes : Within(before'[v], list'.got)
      BY <1>4, <1>5, <1>7, <2>1 DEF Within
    <2> QED
      BY <1>1, <1>5, <2>1, <2>2, <2>3 DEF Read, Lacks
  <1>10. Fresh'
    BY <1>7, <1>2 DEF Fresh, NoEdits, Pending
  <1> QED
    BY <1>6, <1>8, <1>9, <1>10 DEF RowsInv

\* The server's answer: what it applies is still to be confirmed.
LEMMA RowsServe ==
    \A w \in Writes, accepted \in BOOLEAN : RowsInv /\ Serve(w, accepted) => RowsInv'
  <1> SUFFICES ASSUME NEW w \in Writes, NEW accepted \in BOOLEAN, RowsInv, Serve(w, accepted)
               PROVE  RowsInv'
    OBVIOUS
  <1>1. /\ UNCHANGED <<before, stray, list, missed>> /\ stage[w] = "sent"
        /\ \E answer \in {"barred", "applied", "refused"} :
              /\ stage' = [stage EXCEPT ![w] = answer]
              /\ ledger' = IF answer = "applied" THEN ledger \cup {w} ELSE ledger
    <2>1. UNCHANGED <<before, stray, list, missed>> /\ stage[w] = "sent"
      BY DEF Serve
    <2>2. CASE ~ Admitted(sentBy[w])
      BY <2>1, <2>2 DEF Serve
    <2>3. CASE Admitted(sentBy[w]) /\ accepted
      BY <2>1, <2>3 DEF Serve
    <2>4. CASE Admitted(sentBy[w]) /\ ~ accepted
      BY <2>1, <2>4 DEF Serve
    <2> QED
      BY <2>2, <2>3, <2>4
  <1>2. PICK answer \in {"barred", "applied", "refused"} :
              /\ stage' = [stage EXCEPT ![w] = answer]
              /\ ledger' = IF answer = "applied" THEN ledger \cup {w} ELSE ledger
    BY <1>1
  <1>3. /\ stage'[w] = answer /\ \A v \in Writes \ {w} : stage'[v] = stage[v]
        /\ ledger \subseteq ledger' /\ \A v \in ledger' \ ledger : v = w /\ answer = "applied"
    BY <1>2 DEF RowsInv, Types
  <1>4. Types'
    BY <1>1, <1>2 DEF RowsInv, Types, Lists
  <1>5. Served'
    BY <1>1, <1>3 DEF RowsInv, Served
  <1>6. Drawn'
    BY <1>1, <1>3 DEF RowsInv, Drawn, Within
  <1>7. \A copy : Lacks(copy) => Lacks(copy)'
    BY <1>1, <1>3 DEF RowsInv, Lacks, Types, Lists
  <1>8. Read'
    BY <1>1, <1>3, <1>7 DEF RowsInv, Read, Lacks, Within
  <1>9. Fresh'
    <2> SUFFICES ASSUME NoEdits', ~ list.invalid, list.data # NoData
                 PROVE  list.data \subseteq ledger' \ missed /\ Lacks(list.data)'
      BY <1>1 DEF Fresh
    <2>1. NoEdits
      BY <1>1, <1>3 DEF NoEdits, Pending, Writes
    <2>2. list.data \subseteq ledger \ missed /\ Lacks(list.data)
      BY <2>1 DEF RowsInv, Fresh
    <2> QED
      BY <1>1, <1>3, <2>2 DEF Lacks, RowsInv, Types, Lists
  <1> QED
    BY <1>4, <1>5, <1>6, <1>8, <1>9 DEF RowsInv

\* A stray arrives: nobody is told, so it is missed.
LEMMA RowsStray == \A w \in Writes : RowsInv /\ StrayApplies(w) => RowsInv'
  <1> SUFFICES ASSUME NEW w \in Writes, RowsInv, StrayApplies(w) PROVE RowsInv'
    OBVIOUS
  <1>1. /\ UNCHANGED <<stage, before, list>> /\ w \in stray
        /\ stray' = stray \ {w} /\ missed' = missed \cup {w}
        /\ ledger \subseteq ledger' /\ ledger' \subseteq ledger \cup {w}
    BY DEF StrayApplies
  <1>2. w \notin ledger /\ stage[w] = "done"
    BY <1>1 DEF RowsInv, Served
  <1>3. Types'
    BY <1>1 DEF RowsInv, Types, Lists
  <1>4. Served'
    BY <1>1, <1>2 DEF RowsInv, Served
  <1>5. Drawn'
    BY <1>1 DEF RowsInv, Drawn, Within
  <1>6. Read'
    BY <1>1 DEF RowsInv, Read, Lacks, Within, Types, Lists
  <1>7. Fresh'
    <2> SUFFICES ASSUME NoEdits, ~ list.invalid, list.data # NoData
                 PROVE  list.data \subseteq ledger' \ missed' /\ Lacks(list.data)'
      BY <1>1 DEF Fresh, NoEdits, Pending
    <2>1. list.data \subseteq ledger \ missed /\ Lacks(list.data)
      BY DEF RowsInv, Fresh
    <2> QED
      BY <1>1, <1>2, <2>1 DEF Lacks, RowsInv, Types, Lists
  <1> QED
    BY <1>3, <1>4, <1>5, <1>6, <1>7 DEF RowsInv

\* A 401 leaves no list, or a marked one.
LEMMA RowsBar == \A w \in Writes : RowsInv /\ Bar(w) => RowsInv'
  <1> SUFFICES ASSUME NEW w \in Writes, RowsInv, Bar(w) PROVE RowsInv'
    OBVIOUS
  <1> USE NoDataIsNoList
  <1>1. /\ UNCHANGED <<ledger, stray, missed>> /\ stage[w] = "barred"
        /\ stage' = [stage EXCEPT ![w] = "done"] /\ before' = [before EXCEPT ![w] = NoData]
    BY DEF Bar, Ends, server
  <1>2. /\ stage'[w] = "done" /\ before'[w] = NoData
        /\ \A v \in Writes \ {w} : stage'[v] = stage[v] /\ before'[v] = before[v]
    BY <1>1 DEF RowsInv, Types
  <1>3. /\ list' \in List /\ list'.fetch = "none"
        /\ list'.data = NoData \/ (list'.data = before[w] /\ list'.invalid = TRUE)
    <2>1. \/ list' = NoList
          \/ before[w] # NoData /\ list' = [NoList EXCEPT !.data = before[w], !.invalid = TRUE]
      BY DEF Bar, Wiped
    <2>2. before[w] \in Lists \cup {NoData}
      BY DEF RowsInv, Types
    <2>3. CASE list' = NoList
      BY <2>3 DEF NoList, List, Lists
    <2>4. CASE before[w] # NoData /\ list' = [NoList EXCEPT !.data = before[w], !.invalid = TRUE]
      <3> DEFINE snapshot == before[w]
      <3>1. snapshot \in Lists /\ list' = [NoList EXCEPT !.data = snapshot, !.invalid = TRUE]
        BY <2>2, <2>4
      <3> HIDE DEF snapshot
      <3>2. list' \in List /\ list'.fetch = "none" /\ list'.data = snapshot /\ list'.invalid = TRUE
        BY <3>1 DEF NoList, List, Lists
      <3> QED
        BY <3>2 DEF snapshot
    <2> QED
      BY <2>1, <2>3, <2>4
  <1>4. Types'
    BY <1>1, <1>3 DEF RowsInv, Types
  <1>5. Served'
    BY <1>1, <1>2 DEF RowsInv, Served
  <1>6. Drawn'
    BY <1>1, <1>2, <1>3 DEF RowsInv, Drawn, Within
  <1>7. Read' /\ Fresh'
    BY <1>3 DEF Read, Fresh
  <1> QED
    BY <1>4, <1>5, <1>6, <1>7 DEF RowsInv

\* A write that was applied is confirmed.
LEMMA RowsConfirm == \A w \in Writes : RowsInv /\ Confirm(w) => RowsInv'
  <1> SUFFICES ASSUME NEW w \in Writes, RowsInv, Confirm(w) PROVE RowsInv'
    OBVIOUS
  <1>1. /\ stage[w] = "applied" /\ Pending(w)
        /\ ledger' = ledger /\ stray' = stray \cup (IF stage[w] = "sent" THEN {w} ELSE {})
        /\ stage' = [stage EXCEPT ![w] = "done"] /\ before' = [before EXCEPT ![w] = NoData]
        /\ list' = Invalidated(list) /\ missed' = missed \cup Overlooked(w, list)
    BY DEF Confirm, Ends, Pending, server
  <1>2. /\ list \in List /\ Within(list.data, ledger)
        /\ list.fetch = "read" => Within(list.data, list.got)
    BY DEF RowsInv, Types, Drawn, Read
  <1> QED
    BY <1>1, <1>2, RowsSettled

\* A write that was refused, or whose answer is lost, is taken back.
LEMMA RowsFail == \A w \in Writes : RowsInv /\ (Reject(w) \/ GiveUp(w)) => RowsInv'
  <1> SUFFICES ASSUME NEW w \in Writes, RowsInv, Reject(w) \/ GiveUp(w) PROVE RowsInv'
    OBVIOUS
  <1>1. /\ Pending(w) /\ Fails(w) /\ ledger' = ledger
        /\ stray' = stray \cup (IF stage[w] = "sent" THEN {w} ELSE {})
        /\ stage' = [stage EXCEPT ![w] = "done"] /\ before' = [before EXCEPT ![w] = NoData]
    BY DEF Reject, GiveUp, Ends, Pending, server
  <1>2. CASE w \in Creates
    <2>1. /\ list' = list
          /\ missed' = IF list.data # NoData /\ w \in list.data THEN missed ELSE missed \cup {w}
      BY <1>1, <1>2 DEF Fails
    <2> QED
      BY <1>1, <1>2, <2>1, RowsCreateFails
  <1>3. CASE w \notin Creates
    <2> DEFINE L == RolledBack(list, w)
    <2>1. list' = Invalidated(L) /\ missed' = missed \cup Overlooked(w, L)
      BY <1>1, <1>3 DEF Fails
    <2>2. /\ L \in List /\ L.fetch = list.fetch /\ L.got = list.got
          /\ Within(L.data, ledger)
          /\ list.fetch = "read" => Within(L.data, list.got)
      BY RolledBackIs
    <2> HIDE DEF L
    <2> QED
      BY <1>1, <2>1, <2>2, RowsSettled
  <1> QED
    BY <1>2, <1>3

----------------------------------------------------------------------------
LEMMA RowsStep == RowsInv /\ [Next]_vars => RowsInv'
  <1> SUFFICES ASSUME RowsInv, [Next]_vars PROVE RowsInv'
    OBVIOUS
  <1>1. ASSUME NEW w \in Writes, Write(w) PROVE RowsInv'
    BY <1>1, RowsCreate, RowsBegin, RowsDraw, RowsServe, RowsConfirm, RowsFail, RowsStray, RowsBar DEF Write
  <1>2. CASE UNCHANGED vars
    BY <1>2 DEF vars, server, writing, RowsInv, Types, Served, Drawn, Within, Read, Lacks, Fresh,
       NoEdits, Pending
  <1> QED
    BY <1>1, <1>2, RowsReading, RowsSigning DEF Next

\* Whatever edits, creates, rollbacks, refetches, losses and sign-ins there are, and however
\* many: a list that counts as fresh, with no write under way, is what the server holds,
\* save what the tab was given no cause to fetch.
THEOREM RowsAreConfirmed == Spec => []RowsConfirmed
  <1>1. RowsInv => RowsConfirmed
    <2> SUFFICES ASSUME RowsInv, Settled, ~ list.invalid, list.data # NoData
                 PROVE  list.data = ledger \ missed
      BY DEF RowsConfirmed
    <2>1. NoEdits
      BY DEF Settled, NoEdits, Pending, Writes
    <2>2. list.data \subseteq ledger \ missed /\ Lacks(list.data)
      BY <2>1 DEF RowsInv, Fresh
    <2>3. \A w \in ledger : w \in Writes /\ stage[w] # "applied"
      BY DEF RowsInv, Types, Lists, Settled
    <2> QED
      BY <2>2, <2>3 DEF Lacks
  <1> QED
    BY <1>1, RowsInit, RowsStep, PTL DEF Spec

----------------------------------------------------------------------------
\* Every check under way was sent under the present sign-in, and the sign-in page waits for
\* one it has no answer to.
GuardInv ==
    /\ check.fetch # "none" => check.by = signIns
    /\ leaving => page = "login" /\ check.answer = "none"
    /\ GuardFresh
    /\ check \in [answer : {"none", "in", "out"}, of : Nat, by : Nat,
                  fetch : {"none", "asked", "in", "out"}]
    /\ signIns \in Nat

LEMMA GuardStep == GuardInv /\ [Next]_vars => GuardInv'
  <1> SUFFICES ASSUME GuardInv, [Next]_vars PROVE GuardInv'
    OBVIOUS
  <1> USE DEF GuardInv, GuardFresh, NoCheck
  <1>1. ASSUME NEW w \in Writes, Write(w) PROVE GuardInv'
    BY <1>1 DEF Write, Create, Send, Begin, Draw, Serve, Confirm, Reject, GiveUp, StrayApplies, Bar, server, writing
  <1>2. CASE Reading
    BY <1>2 DEF Reading, Fetch, Browse, FetchRead, FetchLands, FetchFails, FetchBarred, AuthLost,
       server, writing
  <1>3. CASE Ask
    BY <1>3 DEF Ask, server
  <1>4. CASE CheckRead
    BY <1>4 DEF CheckRead, server
  <1>5. CASE CheckLands
    BY <1>5 DEF CheckLands, Leave, server
  <1>6. CASE CheckFails
    BY <1>6 DEF CheckFails, Leave, server
  <1>7. CASE Bounce
    BY <1>7 DEF Bounce, server
  <1>8. CASE SessionEnds
    BY <1>8 DEF SessionEnds
  <1>9. CASE SignIn
    <2>1. /\ signIns' = signIns + 1 /\ page' = page /\ page = "login"
          /\ check' = [NoCheck EXCEPT !.fetch = "asked", !.by = signIns']
      BY <1>9 DEF SignIn
    <2>2. signIns' \in Nat
      BY <2>1
    <2>3. check' = [answer |-> "none", of |-> 0, fetch |-> "asked", by |-> signIns']
      BY <2>1
    <2>4. /\ check'.answer = "none" /\ check'.of = 0 /\ check'.fetch = "asked"
          /\ check'.by = signIns'
      BY <2>3
    <2>5. check' \in [answer : {"none", "in", "out"}, of : Nat, by : Nat,
                      fetch : {"none", "asked", "in", "out"}]
      BY <2>2, <2>3
    <2> QED
      BY <2>1, <2>2, <2>4, <2>5
  <1>10. ASSUME NEW reached \in BOOLEAN, Logout(reached) PROVE GuardInv'
    BY <1>10 DEF Logout, AuthLost
  <1>11. CASE UNCHANGED vars
    BY <1>11 DEF vars, server
  <1> QED
    BY <1>1, <1>2, <1>3, <1>4, <1>5, <1>6, <1>7, <1>8, <1>9, <1>10, <1>11 DEF Next, Signing

\* No number of sign-ins, sign-outs, lost sessions and late answers makes the route guard act
\* on a check sent before the last sign-in.
THEOREM GuardActsOnFresh == Spec => []GuardFresh
  <1>1. Init => GuardInv
    BY DEF Init, NoCheck, GuardInv, GuardFresh
  <1>2. GuardInv => GuardFresh
    BY DEF GuardInv
  <1> QED
    BY <1>1, <1>2, GuardStep, PTL DEF Spec

----------------------------------------------------------------------------
\* As long as a wipe holds nothing is fetched, because no page asks.
AwayInv == wiped = "yes" => list.data = NoData /\ list.fetch = "none" /\ page = "login"

LEMMA AwayStep == Types /\ AwayInv /\ [Next]_vars => AwayInv'
  <1> SUFFICES ASSUME Types, AwayInv, [Next]_vars PROVE AwayInv'
    OBVIOUS
  <1> USE DEF AwayInv
  <1>t. list \in List
    BY DEF Types
  <1>1. ASSUME NEW w \in Writes, Write(w) PROVE AwayInv'
    <2>1. CASE Create(w) \/ Begin(w)
      BY <2>1 DEF Create, Begin
    <2>7. CASE Draw(w)
      BY <2>7 DEF Draw
    <2>2. ASSUME NEW accepted \in BOOLEAN, Serve(w, accepted) PROVE AwayInv'
      BY <2>2 DEF Serve
    <2>3. CASE Confirm(w)
      BY <2>3, <1>t DEF Confirm, Invalidated, List
    <2>4. CASE Reject(w) \/ GiveUp(w)
      <3>1. UNCHANGED page /\ Fails(w)
        BY <2>4 DEF Reject, GiveUp
      <3> QED
        BY <3>1, <1>t DEF Fails, Undone, RolledBack, Invalidated, List
    <2>5. CASE StrayApplies(w)
      BY <2>5 DEF StrayApplies
    <2>6. CASE Bar(w)
      BY <2>6 DEF Bar, Wiped, NoList
    <2> QED
      BY <1>1, <2>1, <2>2, <2>3, <2>4, <2>5, <2>6, <2>7 DEF Write
  <1>2. CASE Reading
    BY <1>2 DEF Reading, Fetch, Browse, FetchRead, FetchLands, FetchFails, FetchBarred, AuthLost,
       Wiped, NoList
  <1>3. CASE Signing
    BY <1>3, <1>t, IdleIs DEF Signing, Ask, CheckRead, CheckLands, CheckFails, Leave, Bounce, SessionEnds,
       SignIn, Logout, AuthLost, Wiped, NoList
  <1>4. CASE UNCHANGED vars
    BY <1>4 DEF vars
  <1> QED
    BY <1>1, <1>2, <1>3, <1>4 DEF Next

\* No answer that was under way when the cache was wiped brings anything back.
THEOREM WipesAreKept == Spec => []WipeKept
  <1>1. Init => AwayInv
    BY DEF Init, AwayInv
  <1>2. RowsInv => Types
    BY DEF RowsInv
  <1>3. AwayInv => WipeKept
    BY DEF AwayInv, WipeKept
  <1> QED
    BY <1>1, <1>2, <1>3, RowsInit, RowsStep, AwayStep, PTL DEF Spec
=============================================================================
