-------------------------- MODULE LiveStreamProofs --------------------------
(***************************************************************************)
(* Proofs about LiveStream: a tab on screen always has a stream or a way   *)
(* to one, and a sample missing from its graph is always on its way.       *)
(***************************************************************************)
EXTENDS LiveStream, FiniteSetTheorems, TLAPS

----------------------------------------------------------------------------
(* The stream is held. *)

LEMMA HeldAtFirst == Init => StreamHeld
  BY DEF Init, StreamHeld

LEMMA HeldKept == StreamHeld /\ [Next]_vars => StreamHeld'
  <1> SUFFICES ASSUME StreamHeld, [Next]_vars PROVE StreamHeld'
    OBVIOUS
  <1> USE DEF StreamHeld
  <1>1. CASE Server \/ ServerGoesOn
    BY <1>1 DEF Server, ServerGoesOn, Tick, Begin, AnnounceRestart, GoDown, ComeUp, End, Announce, pageVars, connVars
  <1>2. CASE Stream
    <2>1. CASE Open
      BY <2>1 DEF Open, pageVars
    <2>2. CASE Error
      BY <2>2 DEF Error, pageVars
    <2>3. CASE Retry
      BY <2>3 DEF Retry, pageVars
    <2>4. CASE handleLiveEvent
      BY <2>4 DEF handleLiveEvent, pageVars, connVars
    <2> QED
      BY <1>2, <2>1, <2>2, <2>3, <2>4 DEF Stream
  <1>3. CASE Page \/ Show \/ Online
    BY <1>3 DEF Page, Hide, Offline, Show, Online, reopen
  <1>4. CASE Banner
    BY <1>4 DEF Banner, Lost, HealthDone, UpdatedShown, reopen, pageVars, connVars
  <1>5. CASE Data \/ Bar
    BY <1>5 DEF Data, Bar, ServeCatchUp, CatchUp, CatchUpFails, Refetch, ServeFetch, Fetched, start, ServePost,
                PostLands, Poll, PollLands, pageVars, connVars
  <1>6. CASE UNCHANGED vars
    BY <1>6 DEF vars, pageVars, connVars
  <1> QED
    BY <1>1, <1>2, <1>3, <1>4, <1>5, <1>6 DEF Next

\* Whatever closes the stream of a tab that is on screen and has a network opens another one
\* or schedules it, in whatever order drops, hiding, network changes and restarts come
\* (live.ts startLive).
THEOREM NeverDeaf == Spec => []StreamHeld
  BY HeldAtFirst, HeldKept, PTL DEF Spec

----------------------------------------------------------------------------
(* Samples. *)

\* The newest of the first n samples is the n-th.
LEMMA LatestOfFirst == ASSUME NEW n \in Nat PROVE Latest(1 .. n) = n
  <1>1. CASE n = 0
    BY <1>1 DEF Latest
  <1>2. CASE n # 0
    <2>1. n \in 1 .. n /\ \A t \in 1 .. n : n >= t
      BY <1>2
    <2>2. PICK m \in 1 .. n : m = Max(1 .. n) /\ \A t \in 1 .. n : m >= t
      BY <2>1 DEF Max
    <2> QED
      BY <2>1, <2>2 DEF Latest
  <1> QED
    BY <1>1, <1>2

\* What a catch-up tells of: the newest sample it brings, or what was known.
LEMMA LatestKnown ==
    ASSUME NEW k \in Nat, NEW q \in Nat, NEW newest \in {{}, {q}}
    PROVE  /\ Latest({k} \cup newest) \in {k, q} /\ Latest({k} \cup newest) >= k
           /\ newest = {q} => Latest({k} \cup newest) >= q
  <1> DEFINE told == {k} \cup newest
             top == IF newest = {q} /\ q > k THEN q ELSE k
  <1>1. top \in told /\ \A t \in told : top >= t
    OBVIOUS
  <1>2. PICK m \in told : m = Max(told) /\ \A t \in told : m >= t
    BY <1>1 DEF Max
  <1>3. Latest(told) = m
    BY <1>1, <1>2 DEF Latest
  <1> QED
    BY <1>2, <1>3

\* A catch-up that starts no later than the graph ends leaves no hole in it.
Filled(n, s, q, newest) ==
    patchGraphPoints(patchGraphPoints(1 .. n, s + 1 .. q), newest) = 1 .. IF q > n THEN q ELSE n

LEMMA CatchUpFills ==
    ASSUME NEW n \in Nat, NEW s \in 0 .. n, NEW q \in Nat, NEW newest \in {{}, {q}}, loaded
    PROVE  Filled(n, s, q, newest)
  <1> DEFINE missed == s + 1 .. q
             after == IF q > n THEN q ELSE n
  <1>1. (1 .. n) \cup {t \in missed : t > n} = 1 .. after
    OBVIOUS
  <1>2. patchGraphPoints(1 .. n, missed) = 1 .. after
    BY <1>1, LatestOfFirst DEF patchGraphPoints
  <1>3. after \in Nat
    OBVIOUS
  <1>4. {t \in newest : t > after} = {}
    OBVIOUS
  <1>5. patchGraphPoints(1 .. after, newest) = 1 .. after
    BY <1>3, <1>4, LatestOfFirst DEF patchGraphPoints
  <1> QED
    BY <1>2, <1>5 DEF Filled

----------------------------------------------------------------------------
(* No hole is forgotten.  The ticks of a process number the samples taken since *)
(* it started; a catch-up that one process serves and that asks since a tick of *)
(* it starts no later than the newest sample the tab was told of; and when      *)
(* nothing is under way the graph is complete up to that one.                   *)

Events ==
    [type : {"tick"}, seq : Nat, t : Nat]
    \cup [type : {"unsubscribed", "refresh_started", "refresh_finished", "restarting", "restart_planned"}]

\* The samples there were when the process started: its k-th tick is sample earlier + k.
earlier == samples - seq

\* The ticks it published since.
Honest == {e \in Events : e.type = "tick" => e.seq \in 1 .. seq /\ e.t = earlier + e.seq}

Answers == {Nothing} \cup [state : {"asked"}] \cup [state : {"answered"}, upTo : Nat]

Numbered ==
    /\ boot \in Nat /\ samples \in Nat /\ seq \in 0 .. samples
    /\ ticks = {[seq |-> k, t |-> earlier + k] : k \in 1 .. seq}

\* The tab was told of the sample its newest tick of this process names.
Noted == lastSeq \in Nat /\ lastOf \in 0 .. boot /\ (lastOf = boot => earlier + lastSeq <= known)

\* A catch-up asks since a tick whose sample the tab was told of, when the process still runs
\* that numbered it; its answer brings every sample after one the tab was told of, when the
\* process that numbered it gave the answer.
Asked(c) == c.since \in Nat /\ c.of \in 0 .. boot /\ (c.of = boot => earlier + c.since <= known)
Answered(c) ==
    /\ c.seq \in Nat /\ c.by \in 0 .. boot
    /\ \E q \in 0 .. samples :
         /\ c.newest \in {{}, {q}}
         /\ (c.by = boot /\ c.seq # 0) => c.newest = {q} /\ q = earlier + c.seq
         /\ (c.of = c.by) => \E s \in 0 .. known : c.missed = s + 1 .. q
CaughtUp(c) ==
    \/ c.state = "asked" /\ Asked(c)
    \/ c.state = "answered" /\ Answered(c)

\* With nothing under way the graph is drawn, complete, and reaches the newest sample told of.
Complete ==
    ~overtaken /\ ~mixed /\ fetch = Nothing /\ ~refetch =>
        loaded /\ \E n \in Nat : drawn = 1 .. n /\ known <= n

HoleInv ==
    /\ queue \in Seq(Honest) /\ fetch \in Answers /\ (fetch = Nothing => loaded)
    /\ known \in 0 .. samples
    /\ Numbered /\ Noted
    /\ \A c \in catchUps : CaughtUp(c)
    /\ Complete

LEMMA HoleInvAtFirst == Init => HoleInv
  <1> SUFFICES ASSUME Init PROVE HoleInv
    OBVIOUS
  <1>1. queue \in Seq(Honest)
    <2>1. [type |-> "unsubscribed"] \in Honest
      BY DEF Honest, Events
    <2> QED
      BY <2>1 DEF Init, Unsubscribed
  <1>2. fetch \in Answers /\ fetch # Nothing
    <2>1. fetch = [state |-> "asked"]
      BY DEF Init
    <2>2. fetch # Nothing
      BY <2>1 DEF Nothing
    <2> QED
      BY <2>1, <2>2 DEF Answers
  <1>3. Numbered /\ Noted /\ known \in 0 .. samples
    BY DEF Init, NoSeq, Numbered, Noted, earlier
  <1> QED
    BY <1>1, <1>2, <1>3 DEF Init, HoleInv, Complete

LEMMA PutType ==
    ASSUME NEW S, queue \in Seq(S), NEW e \in S, LiveStreamAssumption
    PROVE  Put(queue, e) \in Seq(S)
  <1>1. CASE queue = Unsubscribed
    BY <1>1 DEF Put
  <1>2. CASE queue # Unsubscribed /\ Len(queue) = QueueSize
    <2>1. queue # <<>>
      BY <1>2, LiveStreamAssumption
    <2>2. Tail(queue) \in Seq(S)
      BY <2>1
    <2> QED
      BY <1>2, <2>2 DEF Put
  <1>3. CASE queue # Unsubscribed /\ Len(queue) # QueueSize
    BY <1>3 DEF Put
  <1> QED
    BY <1>1, <1>2, <1>3

\* What is said of samples and catch-ups stays true while these and the tab's memory stay.
LEMMA SaidStays ==
    ASSUME UNCHANGED <<srvVars, lastSeq, lastOf, known>>
    PROVE  /\ earlier' = earlier /\ Honest' = Honest
           /\ Numbered => Numbered'
           /\ Noted => Noted'
           /\ \A c : CaughtUp(c) => CaughtUp(c)'
  <1>1. earlier' = earlier
    BY DEF earlier, srvVars
  <1>2. Honest' = Honest
    BY <1>1 DEF Honest, srvVars
  <1>3. (Numbered => Numbered') /\ (Noted => Noted')
    BY <1>1 DEF Numbered, Noted, srvVars
  <1>4. ASSUME NEW c, CaughtUp(c) PROVE CaughtUp(c)'
    <2>1. (Asked(c) => Asked(c)') /\ (Answered(c) => Answered(c)')
      BY <1>1 DEF Asked, Answered, srvVars
    <2> QED
      BY <1>4, <2>1 DEF CaughtUp
  <1> QED
    BY <1>1, <1>2, <1>3, <1>4

\* A step that keeps samples, tab memory and graph keeps what they say of each other.
LEMMA HoleUntouched ==
    ASSUME HoleInv, UNCHANGED <<srvVars, seenVars, catchUps, drawn>>, queue' \in Seq(Honest),
           fetch' \in Answers, fetch' = fetch \/ fetch' # Nothing,
           refetch => refetch' \/ fetch' # Nothing
    PROVE  HoleInv'
  <1>1. fetch' = Nothing => fetch = Nothing
    OBVIOUS
  <1>2. Complete => Complete'
    BY <1>1 DEF Complete, seenVars
  <1>3. UNCHANGED <<srvVars, lastSeq, lastOf, known>>
    BY DEF seenVars
  <1>4. Honest' = Honest /\ Numbered' /\ Noted' /\ \A c \in catchUps : CaughtUp(c)'
    BY <1>3, SaidStays DEF HoleInv
  <1> QED
    BY <1>1, <1>2, <1>4 DEF HoleInv, srvVars, seenVars

\* One more sample, numbered by the process that runs.
LEMMA TickKeepsHoles == ASSUME HoleInv, Tick, LiveStreamAssumption PROVE HoleInv'
  <1>0. /\ samples \in Nat /\ seq \in 0 .. samples /\ samples' = samples + 1 /\ seq' = seq + 1 /\ boot' = boot
        /\ UNCHANGED <<seenVars, catchUps, drawn, fetch, refetch>>
    BY DEF Tick, HoleInv, Numbered, seenVars, dataVars
  <1>1. earlier' = earlier /\ earlier \in Nat /\ earlier + seq = samples
    BY <1>0 DEF earlier
  <1> DEFINE e == [type |-> "tick", seq |-> seq + 1, t |-> samples + 1]
  <1>2. queue' \in Seq(Honest')
    <2>1. \A x \in Honest : x \in Honest'
      BY <1>0, <1>1 DEF Honest
    <2>2. queue \in Seq(Honest')
      BY <2>1 DEF HoleInv
    <2>3. e \in Honest'
      BY <1>0, <1>1 DEF Honest, Events
    <2> QED
      BY <2>2, <2>3, PutType DEF Tick
  <1>3. Numbered'
    <2>1. 1 .. seq + 1 = (1 .. seq) \cup {seq + 1}
      BY <1>0
    <2>2. {[seq |-> k, t |-> earlier + k] : k \in 1 .. seq + 1}
            = {[seq |-> k, t |-> earlier + k] : k \in 1 .. seq} \cup {[seq |-> seq + 1, t |-> earlier + (seq + 1)]}
      BY <2>1
    <2>3. earlier + (seq + 1) = samples + 1
      BY <1>0, <1>1
    <2>4. ticks' = {[seq |-> k, t |-> earlier + k] : k \in 1 .. seq + 1}
      BY <2>2, <2>3 DEF Tick, HoleInv, Numbered
    <2> QED
      BY <1>0, <1>1, <2>4 DEF HoleInv, Numbered
  <1>4. Noted' /\ known' \in 0 .. samples'
    BY <1>0, <1>1 DEF HoleInv, Noted, seenVars
  <1>5. ASSUME NEW c \in catchUps PROVE CaughtUp(c)'
    <2>1. 0 .. samples \subseteq 0 .. samples'
      BY <1>0
    <2>2. (Asked(c) => Asked(c)') /\ (Answered(c) => Answered(c)')
      BY <1>0, <1>1, <2>1 DEF Asked, Answered, seenVars
    <2> QED
      BY <2>2 DEF HoleInv, CaughtUp
  <1>6. Complete'
    BY <1>0 DEF HoleInv, Complete, seenVars
  <1> QED
    BY <1>0, <1>2, <1>3, <1>4, <1>5, <1>6 DEF HoleInv, seenVars

\* The sequence starts over: what the old process numbered says nothing of the new one.
LEMMA RestartKeepsHoles == ASSUME HoleInv, GoDown PROVE HoleInv'
  <1>0. /\ samples \in Nat /\ samples' = samples /\ seq' = 0 /\ ticks' = {} /\ boot \in Nat /\ boot' = boot + 1
        /\ UNCHANGED <<seenVars, catchUps, drawn, fetch, refetch>>
    BY DEF GoDown, HoleInv, Numbered, seenVars, dataVars
  <1>1. queue' \in Seq(Honest')
    <2>1. [type |-> "unsubscribed"] \in Honest'
      BY DEF Honest, Events
    <2> QED
      BY <2>1 DEF GoDown, Unsubscribed
  <1>2. Numbered'
    BY <1>0 DEF Numbered
  <1>3. Noted' /\ known' \in 0 .. samples'
    BY <1>0 DEF HoleInv, Noted, seenVars
  <1>4. ASSUME NEW c \in catchUps PROVE CaughtUp(c)'
    <2>1. (Asked(c) => Asked(c)') /\ (Answered(c) => Answered(c)')
      BY <1>0 DEF Asked, Answered, seenVars
    <2> QED
      BY <2>1 DEF HoleInv, CaughtUp
  <1>5. Complete'
    BY <1>0 DEF HoleInv, Complete, seenVars
  <1> QED
    BY <1>0, <1>1, <1>2, <1>3, <1>4, <1>5 DEF HoleInv, seenVars

LEMMA ServerKeepsHoles ==
    ASSUME HoleInv, Server \/ ServerGoesOn, LiveStreamAssumption
    PROVE  HoleInv'
  <1>1. CASE (\E j \in Jobs : Begin(j) \/ End(j) \/ Announce(j)) \/ AnnounceRestart
    <2>1. UNCHANGED <<srvVars, seenVars, catchUps, drawn, fetch, refetch>>
      BY <1>1 DEF Begin, End, Announce, AnnounceRestart, dataVars
    <2>2. \A x \in {"refresh_started", "refresh_finished", "restarting", "restart_planned"} : [type |-> x] \in Honest
      BY DEF Honest, Events
    <2>3. \A e \in Honest : Put(queue, e) \in Seq(Honest)
      BY PutType DEF HoleInv
    <2>4. queue' \in Seq(Honest)
      BY <1>1, <2>2, <2>3 DEF Begin, End, Announce, AnnounceRestart, HoleInv
    <2> QED
      BY <2>1, <2>4, HoleUntouched DEF HoleInv
  <1>2. CASE ComeUp
    <2>1. UNCHANGED <<boot, samples, seq, ticks, seenVars, catchUps, drawn, fetch, refetch, queue>>
      BY <1>2 DEF ComeUp, dataVars
    <2>2. earlier' = earlier
      BY <2>1 DEF earlier
    <2>3. \A c \in catchUps : (Asked(c) => Asked(c)') /\ (Answered(c) => Answered(c)')
      BY <2>1, <2>2 DEF Asked, Answered, seenVars
    <2>4. \A c \in catchUps : CaughtUp(c)'
      BY <2>3 DEF HoleInv, CaughtUp
    <2>5. Honest' = Honest
      BY <2>1, <2>2 DEF Honest
    <2>6. Numbered' /\ Noted' /\ Complete'
      BY <2>1, <2>2 DEF HoleInv, Numbered, Noted, Complete, seenVars
    <2> QED
      BY <2>1, <2>4, <2>5, <2>6 DEF HoleInv, seenVars
  <1> QED
    BY <1>1, <1>2, TickKeepsHoles, RestartKeepsHoles DEF Server, ServerGoesOn

\* What a higher known, and a number noted with its sample known, leave true.
LEMMA KnownGrows ==
    ASSUME Numbered, Noted, known \in Nat, known' \in Nat, known' >= known, UNCHANGED srvVars,
           NEW n \in Nat, NEW of \in 0 .. boot, noteSeq(n, of),
           (of = boot /\ n # 0) => earlier + n <= known'
    PROVE  Numbered' /\ Noted' /\ Honest' = Honest /\ \A c : CaughtUp(c) => CaughtUp(c)'
  <1>1. /\ earlier' = earlier /\ earlier \in Nat /\ UNCHANGED <<boot, samples, seq, ticks>>
        /\ boot \in Nat /\ lastSeq \in Nat
    BY DEF Numbered, Noted, srvVars, earlier
  <1>2. Numbered' /\ Honest' = Honest
    BY <1>1 DEF Numbered, Honest
  <1>3. Noted'
    BY <1>1 DEF Noted, noteSeq
  <1>4. ASSUME NEW c, CaughtUp(c) PROVE CaughtUp(c)'
    <2>1. \A s \in 0 .. known : s \in 0 .. known'
      OBVIOUS
    <2>2. Asked(c) => Asked(c)'
      BY <1>1 DEF Asked
    <2>3. Answered(c) => Answered(c)'
      BY <1>1, <2>1 DEF Answered
    <2> QED
      BY <1>4, <2>2, <2>3 DEF CaughtUp
  <1> QED
    BY <1>2, <1>3, <1>4

\* An event only draws what it brings, and asks for the rest.
LEMMA EventKeepsHoles == ASSUME HoleInv, handleLiveEvent PROVE HoleInv'
  <1> DEFINE e == Head(queue)
  <1>0. queue \in Seq(Honest) /\ queue # <<>>
    BY DEF HoleInv, handleLiveEvent
  <1>1. e \in Honest /\ queue' \in Seq(Honest)
    BY <1>0 DEF handleLiveEvent
  <1>2. UNCHANGED <<srvVars, catchUps, fetch, loaded, overtaken, mixed>>
    BY DEF handleLiveEvent
  <1>3. \/ /\ e.type = "tick" /\ noteSeq(e.seq, boot) /\ known' = IF e.t > known THEN e.t ELSE known
           /\ markStaleAndRefetch
        \/ UNCHANGED <<lastSeq, lastOf, known, drawn>> /\ (refetch' = refetch \/ markStaleAndRefetch)
    BY DEF handleLiveEvent
  <1> HIDE DEF e
  <1>4. CASE /\ e.type = "tick" /\ noteSeq(e.seq, boot) /\ known' = IF e.t > known THEN e.t ELSE known
             /\ markStaleAndRefetch
    <2>1. e.seq \in 1 .. seq /\ e.t = earlier + e.seq /\ samples \in Nat /\ seq \in 0 .. samples /\ boot \in Nat
      BY <1>1, <1>4 DEF Honest, HoleInv, Numbered
    <2>2. e.t \in 0 .. samples /\ e.seq \in Nat /\ boot \in 0 .. boot
      BY <2>1 DEF earlier
    <2>3. known \in 0 .. samples /\ known' \in 0 .. samples /\ known' >= known /\ known' >= e.t
      BY <1>4, <2>1, <2>2 DEF HoleInv
    <2>4. Numbered' /\ Noted' /\ Honest' = Honest /\ \A c : CaughtUp(c) => CaughtUp(c)'
      <3>1. known \in Nat /\ known' \in Nat /\ (boot = boot /\ e.seq # 0 => earlier + e.seq <= known')
        BY <2>1, <2>2, <2>3
      <3> QED
        BY <1>2, <1>4, <2>2, <2>3, <3>1, KnownGrows DEF HoleInv
    <2>5. Complete'
      BY <1>4 DEF Complete, markStaleAndRefetch
    <2> QED
      BY <1>1, <1>2, <2>3, <2>4, <2>5 DEF HoleInv, srvVars
  <1>5. CASE UNCHANGED <<lastSeq, lastOf, known, drawn>> /\ (refetch' = refetch \/ markStaleAndRefetch)
    BY <1>1, <1>2, <1>5, HoleUntouched DEF HoleInv, seenVars, markStaleAndRefetch
  <1> QED
    BY <1>3, <1>4, <1>5

LEMMA StreamKeepsHoles ==
    ASSUME HoleInv, Open \/ Error \/ Retry \/ Page \/ Show \/ Online \/ Banner
    PROVE  HoleInv'
  <1>0. Unsubscribed \in Seq(Honest) /\ <<>> \in Seq(Honest)
    <2>1. [type |-> "unsubscribed"] \in Honest
      BY DEF Honest, Events
    <2> QED
      BY <2>1 DEF Unsubscribed
  <1>1. CASE Open
    <2>1. queue' \in Seq(Honest)
      BY <1>0, <1>1 DEF Open
    <2>2. UNCHANGED <<srvVars, seenVars, drawn, fetch>> /\ (refetch => refetch')
      BY <1>1 DEF Open
    <2>3. Honest' = Honest /\ Numbered' /\ Noted' /\ \A c : CaughtUp(c) => CaughtUp(c)'
      BY <2>2, SaidStays DEF HoleInv, seenVars
    <2>4. ASSUME NEW c \in catchUps' PROVE CaughtUp(c)'
      <3> DEFINE ask == [state |-> "asked", since |-> lastSeq, of |-> lastOf]
      <3>1. c \in catchUps \/ c = ask
        BY <1>1 DEF Open
      <3>2. CaughtUp(ask)
        BY DEF HoleInv, Noted, CaughtUp, Asked
      <3> QED
        BY <2>3, <3>1, <3>2 DEF HoleInv
    <2>5. Complete => Complete'
      BY <2>2 DEF Complete, seenVars
    <2> QED
      BY <2>1, <2>2, <2>3, <2>4, <2>5 DEF HoleInv, srvVars, seenVars
  <1>2. CASE Error \/ Retry \/ Page \/ Show \/ Banner
    <2>1. UNCHANGED <<srvVars, seenVars, catchUps, drawn, fetch>> /\ (refetch => refetch')
      BY <1>2 DEF Error, Retry, Page, Hide, Offline, Show, Banner, Lost, HealthDone, UpdatedShown, dataVars
    <2>2. queue' = queue \/ queue' = Unsubscribed
      BY <1>2 DEF Error, Retry, Page, Hide, Offline, Show, Banner, Lost, HealthDone, UpdatedShown, close, reopen
    <2> QED
      BY <1>0, <2>1, <2>2, HoleUntouched DEF HoleInv
  <1>3. CASE Online
    <2>1. UNCHANGED <<srvVars, seenVars, catchUps, drawn, refetch>>
      BY <1>3 DEF Online
    <2>2. queue' = queue \/ queue' = Unsubscribed
      BY <1>3 DEF Online, reopen
    <2>3. fetch' = fetch \/ fetch' = [state |-> "asked"]
      BY <1>3 DEF Online
    <2>4. [state |-> "asked"] \in Answers /\ [state |-> "asked"] # Nothing
      BY DEF Answers, Nothing
    <2> QED
      BY <1>0, <2>1, <2>2, <2>3, <2>4, HoleUntouched DEF HoleInv
  <1> QED
    BY <1>1, <1>2, <1>3

\* What the server answers: the samples of its ticks after the one named, and the newest.
LEMMA AnswerHonest ==
    ASSUME Numbered, NEW since \in Nat
    PROVE  /\ {p.t : p \in {q \in ticks : q.seq > since}} = earlier + since + 1 .. samples
           /\ {p.t : p \in {q \in ticks : q.seq = seq}} = IF seq = 0 THEN {} ELSE {samples}
  <1>0. /\ samples \in Nat /\ seq \in 0 .. samples /\ earlier \in Nat /\ earlier + seq = samples
        /\ ticks = {[seq |-> k, t |-> earlier + k] : k \in 1 .. seq}
    BY DEF Numbered, earlier
  <1>1. {p.t : p \in {q \in ticks : q.seq > since}} = earlier + since + 1 .. samples
    <2>1. ASSUME NEW x \in {p.t : p \in {q \in ticks : q.seq > since}} PROVE x \in earlier + since + 1 .. samples
      <3>1. PICK k \in 1 .. seq : k > since /\ x = earlier + k
        BY <1>0
      <3> QED
        BY <1>0, <3>1
    <2>2. ASSUME NEW x \in earlier + since + 1 .. samples PROVE x \in {p.t : p \in {q \in ticks : q.seq > since}}
      <3>1. x - earlier \in 1 .. seq /\ x - earlier > since /\ earlier + (x - earlier) = x
        BY <1>0
      <3>2. [seq |-> x - earlier, t |-> x] \in ticks
        BY <1>0, <3>1
      <3> QED
        BY <3>1, <3>2
    <2> QED
      BY <2>1, <2>2
  <1>2. {p.t : p \in {q \in ticks : q.seq = seq}} = IF seq = 0 THEN {} ELSE {samples}
    <2>1. CASE seq = 0
      BY <1>0, <2>1
    <2>2. CASE seq # 0
      <3>1. seq \in 1 .. seq
        BY <1>0, <2>2
      <3>2. [seq |-> seq, t |-> samples] \in ticks /\ \A q \in ticks : q.seq = seq => q.t = samples
        BY <1>0, <3>1
      <3>3. {p.t : p \in {q \in ticks : q.seq = seq}} = {samples}
        BY <3>2
      <3> QED
        BY <2>2, <3>3
    <2> QED
      BY <2>1, <2>2
  <1> QED
    BY <1>1, <1>2

LEMMA ServeKeepsHoles == ASSUME HoleInv, NEW c \in catchUps, ServeCatchUp(c) PROVE HoleInv'
  <1> DEFINE missed == {p.t : p \in {q \in ticks : q.seq > c.since}}
             newest == {p.t : p \in {q \in ticks : q.seq = seq}}
             answer == [state |-> "answered", seq |-> seq, of |-> c.of, by |-> boot, missed |-> missed,
                        newest |-> newest]
  <1>1. UNCHANGED <<srvVars, seenVars, queue, drawn, fetch, refetch>>
    BY DEF ServeCatchUp
  <1>2. Honest' = Honest /\ Numbered' /\ Noted' /\ \A b : CaughtUp(b) => CaughtUp(b)'
    BY <1>1, SaidStays DEF HoleInv, seenVars
  <1>3. /\ c.since \in Nat /\ (c.of = boot => earlier + c.since <= known)
        /\ samples \in Nat /\ seq \in 0 .. samples /\ boot \in Nat /\ known \in 0 .. samples
        /\ earlier \in Nat /\ earlier + seq = samples
    BY DEF ServeCatchUp, HoleInv, CaughtUp, Asked, Numbered, earlier
  <1>4. missed = earlier + c.since + 1 .. samples /\ newest = IF seq = 0 THEN {} ELSE {samples}
    BY <1>3, AnswerHonest DEF HoleInv
  <1>5. \A b \in catchUps' : b \in catchUps \/ b = answer
    BY DEF ServeCatchUp
  <1>6. CaughtUp(answer)
    <2> HIDE DEF missed, newest
    <2>1. /\ answer.state = "answered" /\ answer.seq = seq /\ answer.of = c.of /\ answer.by = boot
          /\ answer.missed = missed /\ answer.newest = newest
      OBVIOUS
    <2> HIDE DEF answer
    <2>2. answer.newest \in {{}, {samples}} /\ samples \in 0 .. samples
      BY <1>3, <1>4, <2>1
    <2>3. answer.seq # 0 => answer.newest = {samples} /\ samples = earlier + answer.seq
      BY <1>3, <1>4, <2>1
    <2>4. answer.of = answer.by => \E s \in 0 .. known : answer.missed = s + 1 .. samples
      <3> SUFFICES ASSUME answer.of = answer.by PROVE \E s \in 0 .. known : answer.missed = s + 1 .. samples
        OBVIOUS
      <3>1. c.of = boot
        BY <2>1
      <3>2. earlier + c.since <= known
        BY <1>3, <3>1
      <3>3. earlier + c.since \in 0 .. known
        BY <1>3, <3>2
      <3> QED
        BY <1>4, <2>1, <3>3
    <2>5. answer.seq \in Nat /\ answer.by \in 0 .. boot
      BY <1>3, <2>1
    <2>6. Answered(answer)
      BY <2>2, <2>3, <2>4, <2>5 DEF Answered
    <2> QED
      BY <2>1, <2>6 DEF CaughtUp
  <1>7. \A b \in catchUps' : CaughtUp(b)'
    <2> HIDE DEF answer
    <2> QED
      BY <1>2, <1>5, <1>6 DEF HoleInv
  <1>8. Complete'
    BY <1>1 DEF HoleInv, Complete, seenVars
  <1> QED
    BY <1>1, <1>2, <1>7, <1>8 DEF HoleInv, srvVars, seenVars

LEMMA CatchUpKeepsHoles == ASSUME HoleInv, NEW c \in catchUps, CatchUp(c) PROVE HoleInv'
  <1>1. /\ UNCHANGED <<srvVars, queue, loaded, overtaken, fetch, refetch>> /\ catchUps' \subseteq catchUps
        /\ drawn' = patchGraphPoints(patchGraphPoints(drawn, c.missed), c.newest)
        /\ noteSeq(c.seq, c.by) /\ known' = Latest({known} \cup c.newest) /\ mixed' = (mixed \/ c.of # c.by)
    BY DEF CatchUp
  <1>2. Answered(c)
    BY DEF CatchUp, HoleInv, CaughtUp
  <1>3. samples \in Nat /\ known \in 0 .. samples /\ boot \in Nat
    BY DEF HoleInv, Numbered
  <1>4. PICK q \in 0 .. samples :
          /\ c.newest \in {{}, {q}}
          /\ (c.by = boot /\ c.seq # 0) => c.newest = {q} /\ q = earlier + c.seq
          /\ (c.of = c.by) => \E s \in 0 .. known : c.missed = s + 1 .. q
    BY <1>2 DEF Answered
  <1>5. known' \in {known, q} /\ known' >= known /\ (c.newest = {q} => known' >= q)
    <2>1. known \in Nat /\ q \in Nat /\ c.newest \in {{}, {q}}
      BY <1>3, <1>4
    <2>2. \A k \in Nat : \A newest \in {{}, {q}} :
            /\ Latest({k} \cup newest) \in {k, q} /\ Latest({k} \cup newest) >= k
            /\ newest = {q} => Latest({k} \cup newest) >= q
      BY <2>1, LatestKnown
    <2> QED
      BY <1>1, <2>1, <2>2
  <1>6. known' \in 0 .. samples
    BY <1>3, <1>5
  <1>7. Numbered' /\ Noted' /\ Honest' = Honest /\ \A b : CaughtUp(b) => CaughtUp(b)'
    <2>1. (c.by = boot /\ c.seq # 0) => earlier + c.seq <= known'
      BY <1>4, <1>5
    <2>2. c.seq \in Nat /\ c.by \in 0 .. boot /\ known \in Nat /\ known' \in Nat
      BY <1>2, <1>3, <1>6 DEF Answered
    <2> QED
      BY <1>1, <1>5, <2>1, <2>2, KnownGrows DEF HoleInv
  <1>8. Complete'
    <2> SUFFICES ASSUME ~overtaken, ~mixed, c.of = c.by, fetch = Nothing, ~refetch
                 PROVE  loaded /\ \E n \in Nat : drawn' = 1 .. n /\ known' <= n
      BY <1>1 DEF Complete
    <2>1. loaded /\ \E n \in Nat : drawn = 1 .. n /\ known <= n
      BY DEF HoleInv, Complete
    <2>2. PICK n \in Nat : drawn = 1 .. n /\ known <= n
      BY <2>1
    <2>3. PICK s \in 0 .. known : c.missed = s + 1 .. q
      BY <1>4
    <2>4. s \in 0 .. n /\ q \in Nat
      BY <1>3, <2>2, <2>3
    <2> DEFINE after == IF q > n THEN q ELSE n
    <2>5. drawn' = 1 .. after
      <3>1. Filled(n, s, q, c.newest)
        BY <1>4, <2>1, <2>4, CatchUpFills
      <3>2. drawn' = patchGraphPoints(patchGraphPoints(1 .. n, s + 1 .. q), c.newest)
        BY <1>1, <2>2, <2>3
      <3> QED
        BY <3>1, <3>2 DEF Filled
    <2>6. after \in Nat /\ known' <= after
      BY <1>3, <1>5, <2>2, <2>4
    <2> QED
      BY <2>1, <2>5, <2>6
  <1> QED
    BY <1>1, <1>6, <1>7, <1>8 DEF HoleInv, srvVars

LEMMA DataKeepsHoles == ASSUME HoleInv, Data PROVE HoleInv'
  <1>1. ASSUME NEW c \in catchUps, CatchUpFails(c) PROVE HoleInv'
    <2>1. UNCHANGED <<srvVars, seenVars, queue, drawn, fetch>> /\ refetch' /\ catchUps' \subseteq catchUps
      BY <1>1 DEF CatchUpFails, markStaleAndRefetch
    <2>2. Honest' = Honest /\ Numbered' /\ Noted' /\ \A b : CaughtUp(b) => CaughtUp(b)'
      BY <2>1, SaidStays DEF HoleInv, seenVars
    <2>3. Complete'
      BY <2>1 DEF Complete
    <2> QED
      BY <2>1, <2>2, <2>3 DEF HoleInv, srvVars, seenVars
  <1>2. CASE Refetch
    <2>1. [state |-> "asked"] \in Answers /\ [state |-> "asked"] # Nothing
      BY DEF Answers, Nothing
    <2> QED
      BY <1>2, <2>1, HoleUntouched DEF Refetch, HoleInv
  <1>3. CASE ServeFetch
    <2>1. [state |-> "answered", upTo |-> samples] \in Answers
      BY DEF Answers, HoleInv, Numbered
    <2>2. [state |-> "answered", upTo |-> samples] # Nothing
      <3>1. [state |-> "answered", upTo |-> samples].state # Nothing.state
        BY DEF Nothing
      <3> QED
        BY <3>1
    <2> QED
      BY <1>3, <2>1, <2>2, HoleUntouched DEF ServeFetch, HoleInv
  <1>4. CASE Fetched
    <2>1. /\ UNCHANGED <<srvVars, lastSeq, lastOf, known, queue, catchUps, refetch>> /\ loaded' /\ fetch' = Nothing
          /\ drawn' = 1 .. fetch.upTo /\ overtaken' = (~refetch /\ fetch.upTo < known)
      BY <1>4 DEF Fetched
    <2>2. fetch.upTo \in Nat
      BY <1>4 DEF Fetched, HoleInv, Answers, Nothing
    <2>3. Complete'
      <3> SUFFICES ASSUME ~overtaken', ~refetch' PROVE (\E n \in Nat : drawn = 1 .. n /\ known <= n)'
        BY <2>1 DEF Complete
      <3>0. known \in Nat
        BY DEF HoleInv, Numbered
      <3>1. ~ (fetch.upTo < known)
        BY <1>4 DEF Fetched
      <3>2. known' <= fetch.upTo
        BY <2>1, <2>2, <3>0, <3>1
      <3> QED
        BY <2>1, <2>2, <3>2
    <2>4. Honest' = Honest /\ Numbered' /\ Noted' /\ \A c : CaughtUp(c) => CaughtUp(c)'
      BY <2>1, SaidStays DEF HoleInv
    <2>5. Nothing \in Answers
      BY DEF Answers
    <2> QED
      BY <2>1, <2>3, <2>4, <2>5 DEF HoleInv, srvVars
  <1> QED
    BY <1>1, <1>2, <1>3, <1>4, ServeKeepsHoles, CatchUpKeepsHoles DEF Data

LEMMA HoleInvKept == LiveStreamAssumption /\ HoleInv /\ [Next]_vars => HoleInv'
  <1> SUFFICES ASSUME LiveStreamAssumption, HoleInv, [Next]_vars PROVE HoleInv'
    OBVIOUS
  <1>1. CASE Bar \/ UNCHANGED vars
    <2>1. UNCHANGED <<srvVars, seenVars, catchUps, drawn, fetch, queue>> /\ (refetch => refetch')
      BY <1>1 DEF Bar, start, ServePost, PostLands, Poll, PollLands, markStaleAndRefetch, vars, dataVars
    <2> QED
      BY <2>1, HoleUntouched DEF HoleInv
  <1> QED
    BY <1>1, ServerKeepsHoles, EventKeepsHoles, StreamKeepsHoles, DataKeepsHoles DEF Next, Stream

LEMMA HoleInvNoHole == HoleInv => NoHole
  <1> SUFFICES ASSUME HoleInv, ~overtaken, ~mixed, ~refetch, fetch = Nothing PROVE drawn = 1 .. Latest(drawn)
    BY DEF NoHole
  <1>1. PICK n \in Nat : drawn = 1 .. n
    BY DEF HoleInv, Complete
  <1> QED
    BY <1>1, LatestOfFirst

\* However ticks, drops, restarts, catch-ups, fetches and full queues follow each other, a sample
\* missing below the newest one drawn is being fetched or about to be (live.ts catchUpLive,
\* tickPatch.ts), unless the last fetch to land was older than a catch-up that landed before it,
\* or a restarted server has since answered a catch-up from a tick of the one before.
THEOREM HolesHeal == Spec => []NoHole
  <1>1. HoleInv /\ [Next]_vars => HoleInv'
    BY HoleInvKept, LiveStreamAssumption
  <1> QED
    BY <1>1, HoleInvAtFirst, HoleInvNoHole, PTL DEF Spec

----------------------------------------------------------------------------
(* The types, and the depth of the refreshes. *)

Running(j) == job[j] \in {"announcing", "running"}
Live == {j \in Jobs : Running(j)}

ServerTyped ==
    /\ up \in BOOLEAN /\ boot \in Nat
    /\ samples \in 0 .. MaxTicks /\ seq \in 0 .. samples
    /\ ticks \subseteq [seq : Sample, t : Sample]
JobsTyped ==
    /\ job \in [Jobs -> {"idle", "announcing", "running", "ending", "done"}] /\ depth \in Nat
    /\ DepthCounts
QueueTyped == queue \in Seq(Event) /\ Len(queue) <= QueueSize
StreamTyped ==
    /\ visible \in BOOLEAN /\ online \in BOOLEAN
    /\ conn \in {"none", "connecting", "open"} /\ retry \in BOOLEAN
    /\ status \in {"connecting", "connected", "reconnecting", "offline"} /\ opened \in BOOLEAN
    /\ lostTimer \in BOOLEAN /\ server \in {"idle", "planned", "restarting", "updated", "lost"}
    /\ health \in BOOLEAN
GraphTyped ==
    /\ lastSeq \in 0 .. MaxTicks /\ lastOf \in Nat
    /\ loaded \in BOOLEAN /\ overtaken \in BOOLEAN /\ mixed \in BOOLEAN
    /\ catchUps \subseteq CatchUpCall /\ drawn \subseteq Sample
    /\ fetch \in FetchCall /\ refetch \in BOOLEAN /\ stale \in BOOLEAN
BarTyped ==
    /\ running \in BOOLEAN /\ post \in {"none", "asked", "busy", "started"}
    /\ poll \in {Nothing} \cup [state : {"answered"}, running : BOOLEAN]
EventsTyped == events \in 0 .. MaxEvents

AllTyped ==
    /\ ServerTyped /\ JobsTyped /\ QueueTyped /\ StreamTyped /\ GraphTyped /\ BarTyped /\ EventsTyped

LEMMA ServerKept == ServerTyped /\ [Next]_vars => ServerTyped'
  <1> SUFFICES ASSUME ServerTyped, [Next]_vars PROVE ServerTyped'
    OBVIOUS
  <1>1. CASE UNCHANGED srvVars
    BY <1>1 DEF srvVars, ServerTyped
  <1>2. CASE Tick
    <2>1. samples \in Nat /\ samples < MaxTicks /\ seq \in 0 .. samples /\ MaxTicks \in Nat
      BY <1>2, LiveStreamAssumption DEF Tick, ServerTyped
    <2>2. samples' \in 0 .. MaxTicks /\ seq' \in 0 .. samples' /\ seq + 1 \in Sample /\ samples + 1 \in Sample
      BY <1>2, <2>1 DEF Tick, Sample
    <2>3. ticks' \subseteq [seq : Sample, t : Sample]
      BY <1>2, <2>2 DEF Tick, ServerTyped
    <2> QED
      BY <1>2, <2>2, <2>3 DEF Tick, ServerTyped
  <1>3. CASE GoDown
    <2>1. /\ up' = FALSE /\ boot' = boot + 1 /\ seq' = 0 /\ ticks' = {} /\ samples' = samples
          /\ boot \in Nat /\ samples \in 0 .. MaxTicks /\ MaxTicks \in Nat
      BY <1>3, LiveStreamAssumption DEF GoDown, ServerTyped
    <2>2. boot' \in Nat /\ samples' \in 0 .. MaxTicks /\ 0 \in 0 .. samples'
      BY <2>1
    <2> QED
      BY <2>1, <2>2 DEF ServerTyped
  <1>4. CASE ComeUp
    BY <1>4 DEF ComeUp, ServerTyped
  <1>5. CASE Server \/ ServerGoesOn
    BY <1>1, <1>2, <1>3, <1>4, <1>5 DEF Server, ServerGoesOn, Begin, AnnounceRestart, End, Announce
  <1>6. CASE Stream \/ Page \/ Show \/ Online \/ Banner
    BY <1>1, <1>6 DEF Stream, Page, Banner, Open, Error, Retry, handleLiveEvent, Hide, Offline, Show, Online,
                      Lost, HealthDone, UpdatedShown
  <1>7. CASE Data \/ Bar
    BY <1>1, <1>7 DEF Data, Bar, ServeCatchUp, CatchUp, CatchUpFails, Refetch, ServeFetch, Fetched, start,
                      ServePost, PostLands, Poll, PollLands
  <1>8. CASE UNCHANGED vars
    BY <1>1, <1>8 DEF vars
  <1> QED
    BY <1>5, <1>6, <1>7, <1>8 DEF Next

\* One more refresh runs, or one less.
LEMMA OneMore ==
    ASSUME JobsTyped, NEW j \in Jobs, job[j] = "idle", depth' = depth + 1,
           NEW at \in {"announcing", "running"}, job' = [job EXCEPT ![j] = at]
    PROVE  JobsTyped'
  <1>1. IsFiniteSet(Live) /\ j \notin Live
    BY FS_Subset, LiveStreamAssumption DEF Live, Running
  <1>2. job' \in [Jobs -> {"idle", "announcing", "running", "ending", "done"}]
    BY DEF JobsTyped
  <1>3. Live' = Live \cup {j}
    BY DEF Live, Running, JobsTyped
  <1>4. Cardinality(Live') = Cardinality(Live) + 1
    BY <1>1, <1>3, FS_AddElement
  <1> QED
    BY <1>2, <1>4 DEF JobsTyped, DepthCounts, Live, Running

LEMMA OneLess ==
    ASSUME JobsTyped, NEW j \in Jobs, job[j] = "running", depth' = depth - 1,
           NEW at \in {"ending", "done"}, job' = [job EXCEPT ![j] = at]
    PROVE  JobsTyped'
  <1>1. IsFiniteSet(Live) /\ j \in Live
    BY FS_Subset, LiveStreamAssumption DEF Live, Running
  <1>2. job' \in [Jobs -> {"idle", "announcing", "running", "ending", "done"}]
    BY DEF JobsTyped
  <1>3. Live' = Live \ {j}
    BY DEF Live, Running, JobsTyped
  <1>4. IsFiniteSet(Live') /\ Cardinality(Live') = Cardinality(Live) - 1
    BY <1>1, <1>3, FS_RemoveElement
  <1>5. Cardinality(Live') \in Nat
    BY <1>4, FS_CardinalityType
  <1> QED
    BY <1>2, <1>4, <1>5 DEF JobsTyped, DepthCounts, Live, Running

LEMMA JobsKept == JobsTyped /\ [Next]_vars => JobsTyped'
  <1> SUFFICES ASSUME JobsTyped, [Next]_vars PROVE JobsTyped'
    OBVIOUS
  <1>1. CASE UNCHANGED jobVars
    BY <1>1 DEF jobVars, JobsTyped, DepthCounts
  <1>2. ASSUME NEW j \in Jobs, Begin(j) PROVE JobsTyped'
    BY <1>2, OneMore DEF Begin
  <1>3. ASSUME NEW j \in Jobs, End(j) PROVE JobsTyped'
    BY <1>3, OneLess DEF End
  <1>4. ASSUME NEW j \in Jobs, Announce(j) PROVE JobsTyped'
    <2>1. job' \in [Jobs -> {"idle", "announcing", "running", "ending", "done"}]
      BY <1>4 DEF Announce, JobsTyped
    <2>2. Live' = Live /\ depth' = depth
      BY <1>4 DEF Announce, JobsTyped, Live, Running
    <2> QED
      BY <2>1, <2>2 DEF JobsTyped, DepthCounts, Live, Running
  <1>5. CASE GoDown
    <2>1. job' \in [Jobs -> {"idle", "announcing", "running", "ending", "done"}] /\ depth' = 0
      BY <1>5 DEF GoDown
    <2>2. Live' = {}
      BY <1>5 DEF GoDown, Live, Running
    <2> QED
      BY <2>1, <2>2, FS_EmptySet DEF JobsTyped, DepthCounts, Live, Running
  <1>6. CASE Server \/ ServerGoesOn
    BY <1>1, <1>2, <1>3, <1>4, <1>5, <1>6 DEF Server, ServerGoesOn, Tick, AnnounceRestart, ComeUp
  <1>7. CASE Stream \/ Page \/ Show \/ Online \/ Banner
    BY <1>1, <1>7 DEF Stream, Page, Banner, Open, Error, Retry, handleLiveEvent, Hide, Offline, Show, Online,
                      Lost, HealthDone, UpdatedShown
  <1>8. CASE ServePost
    <2>1. UNCHANGED jobVars \/ \E j \in Jobs : /\ job[j] = "idle" /\ depth' = depth + 1
                                             /\ job' = [job EXCEPT ![j] = "announcing"]
      BY <1>8 DEF ServePost
    <2> QED
      BY <1>1, <2>1, OneMore
  <1>9. CASE Data \/ Bar
    BY <1>1, <1>8, <1>9 DEF Data, Bar, ServeCatchUp, CatchUp, CatchUpFails, Refetch, ServeFetch, Fetched, start,
                            PostLands, Poll, PollLands
  <1>10. CASE UNCHANGED vars
    BY <1>1, <1>10 DEF vars
  <1> QED
    BY <1>6, <1>7, <1>9, <1>10 DEF Next

LEMMA EventsKept == EventsTyped /\ [Next]_vars => EventsTyped'
  <1> SUFFICES ASSUME EventsTyped, [Next]_vars PROVE EventsTyped'
    OBVIOUS
  <1>1. CASE UNCHANGED events
    BY <1>1 DEF EventsTyped
  <1>2. CASE Happens
    BY <1>2, LiveStreamAssumption DEF Happens, EventsTyped
  <1>3. CASE Error
    BY <1>3, LiveStreamAssumption DEF Error, EventsTyped
  <1>4. CASE Server \/ ServerGoesOn
    BY <1>1, <1>2, <1>4 DEF Server, ServerGoesOn, Tick, Begin, AnnounceRestart, GoDown, ComeUp, End, Announce
  <1>5. CASE Stream \/ Page \/ Show \/ Online \/ Banner
    BY <1>1, <1>2, <1>3, <1>5 DEF Stream, Page, Banner, Open, Retry, handleLiveEvent, Hide, Offline, Show,
                                  Online, Lost, HealthDone, UpdatedShown
  <1>6. CASE Data \/ Bar
    BY <1>1, <1>2, <1>6 DEF Data, Bar, ServeCatchUp, CatchUp, CatchUpFails, Refetch, ServeFetch, Fetched, start,
                            ServePost, PostLands, Poll, PollLands
  <1>7. CASE UNCHANGED vars
    BY <1>1, <1>7 DEF vars
  <1> QED
    BY <1>4, <1>5, <1>6, <1>7 DEF Next

----------------------------------------------------------------------------
\* A full queue loses its oldest event to the new one: it is never longer than it may be.
LEMMA PutKeeps ==
    ASSUME QueueTyped, NEW e \in Event PROVE Put(queue, e) \in Seq(Event) /\ Len(Put(queue, e)) <= QueueSize
  <1>1. Len(queue) \in Nat /\ QueueSize \in Nat \ {0} /\ queue \in Seq(Event) /\ Len(queue) <= QueueSize
    BY LiveStreamAssumption DEF QueueTyped
  <1>2. CASE queue = Unsubscribed
    BY <1>1, <1>2 DEF Put
  <1>3. CASE queue # Unsubscribed /\ Len(queue) = QueueSize
    <2>1. queue # <<>>
      BY <1>1, <1>3
    <2>2. Tail(queue) \in Seq(Event) /\ Len(Tail(queue)) = QueueSize - 1
      BY <1>1, <1>3, <2>1
    <2> QED
      BY <1>1, <1>3, <2>2 DEF Put
  <1>4. CASE queue # Unsubscribed /\ Len(queue) # QueueSize
    BY <1>1, <1>4 DEF Put
  <1> QED
    BY <1>2, <1>3, <1>4

LEMMA QueueKept == ServerTyped /\ QueueTyped /\ [Next]_vars => QueueTyped'
  <1> SUFFICES ASSUME ServerTyped, QueueTyped, [Next]_vars PROVE QueueTyped'
    OBVIOUS
  <1>0. /\ QueueSize \in Nat \ {0} /\ MaxTicks \in Nat
        /\ \A s \in {"unsubscribed", "refresh_started", "refresh_finished", "restarting", "restart_planned"} :
              [type |-> s] \in Event
    BY LiveStreamAssumption DEF Event
  <1>1. CASE UNCHANGED queue
    BY <1>1 DEF QueueTyped
  <1>2. CASE queue' = Unsubscribed
    <2>1. Unsubscribed \in Seq(Event) /\ Len(Unsubscribed) = 1
      BY <1>0 DEF Unsubscribed
    <2> QED
      BY <1>0, <1>2, <2>1 DEF QueueTyped
  <1>3. CASE queue' = <<>>
    BY <1>0, <1>3 DEF QueueTyped
  <1>4. ASSUME NEW e \in Event, queue' = Put(queue, e) PROVE QueueTyped'
    BY <1>4, PutKeeps DEF QueueTyped
  <1>5. CASE Tick
    <2>1. seq + 1 \in Sample /\ samples + 1 \in Sample
      BY <1>0, <1>5 DEF Tick, ServerTyped, Sample
    <2>2. [type |-> "tick", seq |-> seq + 1, t |-> samples + 1] \in Event
      BY <2>1 DEF Event
    <2> QED
      BY <1>4, <1>5, <2>2 DEF Tick
  <1>6. CASE Server \/ ServerGoesOn
    BY <1>0, <1>1, <1>2, <1>4, <1>5, <1>6
       DEF Server, ServerGoesOn, Begin, AnnounceRestart, GoDown, ComeUp, End, Announce
  <1>7. CASE handleLiveEvent
    <2>1. queue \in Seq(Event) /\ queue # <<>> /\ queue' = Tail(queue) /\ Len(queue) \in Nat /\ Len(queue) <= QueueSize
      BY <1>7 DEF handleLiveEvent, QueueTyped
    <2>2. Tail(queue) \in Seq(Event) /\ Len(Tail(queue)) = Len(queue) - 1
      BY <2>1
    <2> QED
      BY <1>0, <2>1, <2>2 DEF QueueTyped
  <1>8. CASE Stream \/ Page \/ Show \/ Online \/ Banner
    BY <1>1, <1>2, <1>3, <1>7, <1>8 DEF Stream, Page, Banner, Open, Error, Retry, Hide, Offline, Show, Online,
                                        Lost, HealthDone, UpdatedShown, close, reopen
  <1>9. CASE Data \/ Bar
    BY <1>1, <1>9 DEF Data, Bar, ServeCatchUp, CatchUp, CatchUpFails, Refetch, ServeFetch, Fetched, start,
                      ServePost, PostLands, Poll, PollLands
  <1>10. CASE UNCHANGED vars
    BY <1>1, <1>10 DEF vars
  <1> QED
    BY <1>6, <1>8, <1>9, <1>10 DEF Next

----------------------------------------------------------------------------
(* The stream and the banner; the graph; the bar. *)

PageTyped == visible \in BOOLEAN /\ online \in BOOLEAN
ConnTyped ==
    /\ conn \in {"none", "connecting", "open"} /\ retry \in BOOLEAN
    /\ status \in {"connecting", "connected", "reconnecting", "offline"} /\ opened \in BOOLEAN
BannerTyped ==
    /\ lostTimer \in BOOLEAN /\ server \in {"idle", "planned", "restarting", "updated", "lost"}
    /\ health \in BOOLEAN

LEMMA StreamKept == StreamTyped /\ [Next]_vars => StreamTyped'
  <1> SUFFICES ASSUME StreamTyped, [Next]_vars PROVE StreamTyped'
    OBVIOUS
  <1>0. PageTyped /\ ConnTyped /\ BannerTyped
    BY DEF StreamTyped, PageTyped, ConnTyped, BannerTyped
  <1>1. CASE UNCHANGED <<pageVars, connVars, bannerVars>>
    BY <1>1 DEF StreamTyped, pageVars, connVars, bannerVars
  <1>2. CASE Stream \/ Page \/ Show \/ Online \/ Banner
    <2>1. PageTyped'
      BY <1>0, <1>2 DEF PageTyped, pageVars, Stream, Page, Banner, Open, Error, Retry, handleLiveEvent, Hide,
                        Offline, Show, Online, Lost, HealthDone, UpdatedShown
    <2>2. ConnTyped'
      BY <1>0, <1>2 DEF ConnTyped, connVars, Stream, Page, Banner, Open, Error, Retry, handleLiveEvent, Hide,
                        Offline, Show, Online, Lost, HealthDone, UpdatedShown, close, reopen, PageTyped
    <2>3. BannerTyped'
      BY <1>0, <1>2 DEF BannerTyped, bannerVars, Stream, Page, Banner, Open, Error, Retry, handleLiveEvent, Hide,
                        Offline, Show, Online, Lost, HealthDone, UpdatedShown, handleServerEvent
    <2> QED
      BY <2>1, <2>2, <2>3 DEF StreamTyped, PageTyped, ConnTyped, BannerTyped
  <1>3. CASE Server \/ ServerGoesOn
    BY <1>1, <1>3 DEF Server, ServerGoesOn, Tick, Begin, AnnounceRestart, GoDown, ComeUp, End, Announce
  <1>4. CASE Data \/ Bar
    BY <1>1, <1>4 DEF Data, Bar, ServeCatchUp, CatchUp, CatchUpFails, Refetch, ServeFetch, Fetched, start,
                      ServePost, PostLands, Poll, PollLands
  <1>5. CASE UNCHANGED vars
    BY <1>1, <1>5 DEF vars
  <1> QED
    BY <1>2, <1>3, <1>4, <1>5 DEF Next

\* What is set beside the graph: the newest tick seen, what was fetched, and the flags.
SeenTyped == lastSeq \in 0 .. MaxTicks /\ lastOf \in Nat
LandedTyped == loaded \in BOOLEAN /\ overtaken \in BOOLEAN /\ mixed \in BOOLEAN
FlagsTyped == refetch \in BOOLEAN /\ stale \in BOOLEAN
CallsTyped == catchUps \subseteq CatchUpCall /\ fetch \in FetchCall
DrawnTyped == drawn \subseteq Sample

\* The head of the queue is an event, and a tick of it names a sample.
LEMMA HeadTyped ==
    ASSUME QueueTyped, handleLiveEvent
    PROVE  /\ Head(queue) \in Event
           /\ Head(queue).type = "tick" => Head(queue).seq \in Sample /\ Head(queue).t \in Sample
  <1>1. queue \in Seq(Event) /\ queue # <<>>
    BY DEF QueueTyped, handleLiveEvent
  <1>2. Head(queue) \in Event
    BY <1>1
  <1> QED
    BY <1>2 DEF Event

\* An answer to a catch-up holds what the server's ticks of it are.
LEMMA AnswerTyped ==
    ASSUME ServerTyped, CallsTyped, NEW c \in catchUps, ServeCatchUp(c)
    PROVE  catchUps' \subseteq CatchUpCall
  <1> DEFINE missed == {p.t : p \in {q \in ticks : q.seq > c.since}}
             newest == {p.t : p \in {q \in ticks : q.seq = seq}}
             answer == [state |-> "answered", seq |-> seq, of |-> c.of, by |-> boot, missed |-> missed,
                        newest |-> newest]
  <1>1. missed \subseteq Sample /\ newest \subseteq Sample
    BY DEF ServerTyped
  <1>2. seq \in 0 .. MaxTicks
    BY LiveStreamAssumption DEF ServerTyped
  <1>3. catchUps' = (catchUps \ {c}) \cup {answer}
    BY DEF ServeCatchUp
  <1> HIDE DEF missed, newest
  <1>4. answer \in CatchUpCall
    <2>1. c.of \in Nat /\ boot \in Nat
      BY DEF ServeCatchUp, CallsTyped, CatchUpCall, ServerTyped
    <2> QED
      BY <1>1, <1>2, <2>1 DEF CatchUpCall
  <1> HIDE DEF answer
  <1> QED
    BY <1>3, <1>4 DEF CallsTyped

LEMMA PatchTyped ==
    ASSUME NEW points \in SUBSET Sample, NEW missed \in SUBSET Sample
    PROVE  patchGraphPoints(points, missed) \in SUBSET Sample
  BY DEF patchGraphPoints

LEMMA DataTyped ==
    ASSUME ServerTyped, GraphTyped, Data
    PROVE  GraphTyped'
  <1>0. MaxTicks \in Nat /\ SeenTyped /\ LandedTyped /\ FlagsTyped /\ CallsTyped /\ DrawnTyped
    BY LiveStreamAssumption DEF GraphTyped, SeenTyped, LandedTyped, FlagsTyped, CallsTyped, DrawnTyped
  <1>1. ASSUME NEW c \in catchUps, ServeCatchUp(c) PROVE GraphTyped'
    <2>1. UNCHANGED <<lastSeq, lastOf, loaded, overtaken, mixed, drawn, fetch, refetch, stale>>
      BY <1>1 DEF ServeCatchUp, seenVars
    <2>2. catchUps' \subseteq CatchUpCall
      BY <1>0, <1>1, AnswerTyped
    <2> QED
      BY <2>1, <2>2 DEF GraphTyped
  <1>2. ASSUME NEW c \in catchUps, CatchUp(c) PROVE GraphTyped'
    <2>1. /\ UNCHANGED <<loaded, overtaken, fetch, refetch>> /\ catchUps' = catchUps \ {c}
          /\ drawn' = patchGraphPoints(patchGraphPoints(drawn, c.missed), c.newest)
          /\ noteSeq(c.seq, c.by) /\ mixed' = (mixed \/ c.of # c.by)
      BY <1>2 DEF CatchUp
    <2>2. c.missed \in SUBSET Sample /\ c.newest \in SUBSET Sample /\ c.seq \in 0 .. MaxTicks /\ c.by \in Nat
      BY <1>0, <1>2 DEF CatchUp, CallsTyped, CatchUpCall
    <2>3. drawn' \in SUBSET Sample
      BY <1>0, <2>1, <2>2, PatchTyped DEF DrawnTyped
    <2>4. SeenTyped'
      BY <1>0, <2>1, <2>2 DEF SeenTyped, noteSeq
    <2>5. stale' \in BOOLEAN /\ mixed' \in BOOLEAN
      BY <1>2 DEF CatchUp
    <2> QED
      BY <2>1, <2>3, <2>4, <2>5 DEF GraphTyped, SeenTyped
  <1>3. ASSUME NEW c \in catchUps, CatchUpFails(c) PROVE GraphTyped'
    <2>1. /\ UNCHANGED <<lastSeq, lastOf, loaded, overtaken, mixed, drawn, fetch>> /\ catchUps' = catchUps \ {c}
          /\ refetch' = TRUE /\ stale' = TRUE
      BY <1>3 DEF CatchUpFails, markStaleAndRefetch, seenVars
    <2> QED
      BY <2>1 DEF GraphTyped
  <1>4. CASE Refetch
    <2>1. /\ UNCHANGED <<lastSeq, lastOf, loaded, overtaken, mixed, drawn, catchUps, stale>>
          /\ refetch' = FALSE /\ fetch' = [state |-> "asked"]
      BY <1>4 DEF Refetch, seenVars
    <2>2. fetch' \in FetchCall
      BY <2>1 DEF FetchCall
    <2> QED
      BY <2>1, <2>2 DEF GraphTyped
  <1>5. CASE ServeFetch
    <2>1. /\ UNCHANGED <<lastSeq, lastOf, loaded, overtaken, mixed, drawn, catchUps, refetch, stale>>
          /\ fetch' = [state |-> "answered", upTo |-> samples]
      BY <1>5 DEF ServeFetch, seenVars
    <2>2. fetch' \in FetchCall
      BY <2>1 DEF FetchCall, ServerTyped
    <2> QED
      BY <2>1, <2>2 DEF GraphTyped
  <1>6. CASE Fetched
    <2>1. /\ UNCHANGED <<lastSeq, lastOf, catchUps, refetch>> /\ fetch' = Nothing /\ drawn' = 1 .. fetch.upTo
          /\ stale' = FALSE /\ loaded' = TRUE /\ mixed' = FALSE
      BY <1>6 DEF Fetched
    <2>2. fetch.upTo \in 0 .. MaxTicks
      BY <1>0, <1>6 DEF Fetched, CallsTyped, FetchCall, Nothing
    <2>3. drawn' \subseteq Sample /\ fetch' \in FetchCall
      BY <1>0, <2>1, <2>2 DEF Sample, FetchCall
    <2>4. overtaken' \in BOOLEAN
      BY <1>6 DEF Fetched
    <2> QED
      BY <2>1, <2>3, <2>4 DEF GraphTyped
  <1> QED
    BY <1>1, <1>2, <1>3, <1>4, <1>5, <1>6 DEF Data

LEMMA GraphKept == ServerTyped /\ QueueTyped /\ GraphTyped /\ [Next]_vars => GraphTyped'
  <1> SUFFICES ASSUME ServerTyped, QueueTyped, GraphTyped, [Next]_vars PROVE GraphTyped'
    OBVIOUS
  <1>0. MaxTicks \in Nat /\ SeenTyped /\ LandedTyped /\ FlagsTyped /\ CallsTyped /\ DrawnTyped
    BY LiveStreamAssumption DEF GraphTyped, SeenTyped, LandedTyped, FlagsTyped, CallsTyped, DrawnTyped
  <1>1. CASE UNCHANGED <<seenVars, dataVars>>
    BY <1>1 DEF GraphTyped, seenVars, dataVars
  <1>2. CASE Open
    <2>1. UNCHANGED <<lastSeq, lastOf, loaded, overtaken, mixed, drawn, fetch>>
      BY <1>2 DEF Open, seenVars
    <2>2. FlagsTyped'
      BY <1>0, <1>2 DEF Open, FlagsTyped
    <2>3. catchUps' \subseteq CatchUpCall
      <3>1. catchUps' = catchUps \/ (lastSeq # 0 /\ catchUps' = catchUps \cup {[state |-> "asked", since |-> lastSeq, of |-> lastOf]})
        BY <1>2 DEF Open, NoSeq
      <3>2. lastSeq # 0 => [state |-> "asked", since |-> lastSeq, of |-> lastOf] \in CatchUpCall
        BY <1>0 DEF SeenTyped, CatchUpCall, Sample
      <3> QED
        BY <1>0, <3>1, <3>2 DEF CallsTyped
    <2> QED
      BY <1>0, <2>1, <2>2, <2>3 DEF GraphTyped, FlagsTyped
  <1>3. CASE Online
    <2>1. UNCHANGED <<lastSeq, lastOf, loaded, overtaken, mixed, catchUps, drawn, refetch, stale>>
      BY <1>3 DEF Online, seenVars
    <2>2. fetch' \in FetchCall
      <3>1. fetch' = fetch \/ fetch' = [state |-> "asked"]
        BY <1>3 DEF Online
      <3> QED
        BY <1>0, <3>1 DEF CallsTyped, FetchCall
    <2> QED
      BY <2>1, <2>2 DEF GraphTyped
  <1>4. CASE HealthDone
    <2>1. UNCHANGED <<lastSeq, lastOf, loaded, overtaken, mixed, catchUps, drawn, fetch, stale>>
      BY <1>4 DEF HealthDone, seenVars
    <2>2. refetch' \in BOOLEAN
      BY <1>0, <1>4 DEF HealthDone, FlagsTyped
    <2> QED
      BY <2>1, <2>2 DEF GraphTyped
  <1>5. CASE handleLiveEvent
    <2> DEFINE e == Head(queue)
    <2>1. UNCHANGED <<loaded, overtaken, mixed, catchUps, fetch>>
      BY <1>5 DEF handleLiveEvent
    <2>2. e.type = "tick" => e.seq \in Sample /\ e.t \in Sample
      BY <1>5, HeadTyped
    <2>3. \/ e.type = "tick" /\ noteSeq(e.seq, boot) /\ drawn' = patchGraphPoints(drawn, {e.t})
          \/ UNCHANGED <<lastSeq, lastOf, drawn>>
      BY <1>5 DEF handleLiveEvent
    <2>4. FlagsTyped'
      BY <1>0, <1>5 DEF handleLiveEvent, FlagsTyped, markStaleAndRefetch
    <2> HIDE DEF e
    <2>5. SeenTyped'
      BY <1>0, <2>2, <2>3 DEF SeenTyped, Sample, noteSeq, ServerTyped
    <2>6. drawn' \in SUBSET Sample
      BY <1>0, <2>2, <2>3, PatchTyped DEF DrawnTyped
    <2> QED
      BY <1>0, <2>1, <2>4, <2>5, <2>6 DEF GraphTyped, FlagsTyped, SeenTyped
  <1>6. CASE PollLands
    <2>1. UNCHANGED <<lastSeq, lastOf, loaded, overtaken, mixed, catchUps, drawn, fetch>>
      BY <1>6 DEF PollLands, seenVars
    <2>2. FlagsTyped'
      BY <1>0, <1>6 DEF PollLands, FlagsTyped, markStaleAndRefetch
    <2> QED
      BY <2>1, <2>2 DEF GraphTyped, FlagsTyped
  <1>7. CASE Server \/ ServerGoesOn
    BY <1>1, <1>7 DEF Server, ServerGoesOn, Tick, Begin, AnnounceRestart, GoDown, ComeUp, End, Announce
  <1>8. CASE Stream \/ Page \/ Show \/ Online \/ Banner
    BY <1>1, <1>2, <1>3, <1>4, <1>5, <1>8 DEF Stream, Page, Banner, Error, Retry, Hide, Offline, Show, Lost,
                                              UpdatedShown
  <1>9. CASE Bar
    BY <1>1, <1>6, <1>9 DEF Bar, start, ServePost, PostLands, Poll
  <1>10. CASE UNCHANGED vars
    BY <1>1, <1>10 DEF vars
  <1> QED
    BY <1>7, <1>8, <1>9, <1>10, DataTyped DEF Next

LEMMA BarKept == BarTyped /\ [Next]_vars => BarTyped'
  <1> SUFFICES ASSUME BarTyped, [Next]_vars PROVE BarTyped'
    OBVIOUS
  <1>1. CASE UNCHANGED barVars
    BY <1>1 DEF BarTyped, barVars
  <1>2. CASE handleLiveEvent
    <2>1. UNCHANGED barVars \/ \E r \in BOOLEAN : applyRefreshEvent(r)
      BY <1>2 DEF handleLiveEvent
    <2>2. ASSUME NEW r \in BOOLEAN, applyRefreshEvent(r) PROVE BarTyped'
      <3>1. running' = r /\ post' = post /\ (poll' = poll \/ poll' = Nothing)
        BY <2>2 DEF applyRefreshEvent
      <3> QED
        BY <3>1 DEF BarTyped
    <2> QED
      BY <1>1, <2>1, <2>2
  <1>3. CASE start
    <2>1. running' = TRUE /\ post' = "asked" /\ poll' = poll
      BY <1>3 DEF start
    <2> QED
      BY <2>1 DEF BarTyped
  <1>4. CASE ServePost
    <2>1. UNCHANGED <<running, poll>> /\ post' \in {"busy", "started"}
      BY <1>4 DEF ServePost
    <2> QED
      BY <2>1 DEF BarTyped
  <1>5. CASE PostLands
    <2>1. /\ post' = "none" /\ (poll' = poll \/ poll' = Nothing)
          /\ running' = TRUE \/ running' = FALSE \/ running' = running
      BY <1>5 DEF PostLands
    <2> QED
      BY <2>1 DEF BarTyped
  <1>6. CASE Poll
    <2>1. PICK r \in BOOLEAN : UNCHANGED <<running, post>> /\ poll' = [state |-> "answered", running |-> r]
      BY <1>6 DEF Poll
    <2> QED
      BY <2>1 DEF BarTyped
  <1>7. CASE PollLands
    <2>1. post' = post /\ poll' = Nothing /\ running' = poll.running /\ poll.state = "answered"
      BY <1>7 DEF PollLands
    <2>2. poll.running \in BOOLEAN
      BY <2>1 DEF BarTyped, Nothing
    <2> QED
      BY <2>1, <2>2 DEF BarTyped
  <1>8. CASE Server \/ ServerGoesOn
    BY <1>1, <1>8 DEF Server, ServerGoesOn, Tick, Begin, AnnounceRestart, GoDown, ComeUp, End, Announce
  <1>9. CASE Stream \/ Page \/ Show \/ Online \/ Banner
    BY <1>1, <1>2, <1>9 DEF Stream, Page, Banner, Open, Error, Retry, Hide, Offline, Show, Online, Lost,
                            HealthDone, UpdatedShown
  <1>10. CASE Data \/ Bar
    BY <1>1, <1>3, <1>4, <1>5, <1>6, <1>7, <1>10 DEF Data, Bar, ServeCatchUp, CatchUp, CatchUpFails, Refetch,
                                                   ServeFetch, Fetched
  <1>11. CASE UNCHANGED vars
    BY <1>1, <1>11 DEF vars
  <1> QED
    BY <1>8, <1>9, <1>10, <1>11 DEF Next

LEMMA TypedAtFirst == Init => AllTyped
  <1> SUFFICES ASSUME Init PROVE AllTyped
    OBVIOUS
  <1>0. QueueSize \in Nat \ {0} /\ MaxTicks \in Nat /\ MaxEvents \in Nat /\ [type |-> "unsubscribed"] \in Event
    BY LiveStreamAssumption DEF Event
  <1>1. ServerTyped
    BY <1>0 DEF Init, ServerTyped
  <1>2. JobsTyped
    <2>1. {j \in Jobs : job[j] \in {"announcing", "running"}} = {}
      BY DEF Init
    <2> QED
      BY <2>1, FS_EmptySet DEF Init, JobsTyped, DepthCounts
  <1>3. QueueTyped
    BY <1>0 DEF Init, QueueTyped, Unsubscribed
  <1>4. StreamTyped
    BY DEF Init, StreamTyped
  <1>5. GraphTyped
    <2>1. [state |-> "asked"] \in FetchCall
      BY DEF FetchCall
    <2>2. 0 \in 0 .. MaxTicks
      BY <1>0
    <2>3. /\ lastSeq = 0 /\ lastOf = 0 /\ loaded = FALSE /\ overtaken = FALSE /\ mixed = FALSE /\ catchUps = {} /\ drawn = {}
          /\ fetch = [state |-> "asked"] /\ refetch = FALSE /\ stale = FALSE
      BY DEF Init, NoSeq
    <2> QED
      BY <2>1, <2>2, <2>3 DEF GraphTyped
  <1>6. BarTyped
    BY DEF Init, BarTyped
  <1>7. EventsTyped
    BY <1>0 DEF Init, EventsTyped
  <1> QED
    BY <1>1, <1>2, <1>3, <1>4, <1>5, <1>6, <1>7 DEF AllTyped

LEMMA TypedKept == AllTyped /\ [Next]_vars => AllTyped'
  BY ServerKept, JobsKept, QueueKept, StreamKept, GraphKept, BarKept, EventsKept DEF AllTyped

\* No sample is known before it is taken, which HoleInv holds.
LEMMA TypedSays == AllTyped /\ HoleInv => TypeOK /\ DepthCounts
  <1> SUFFICES ASSUME AllTyped, HoleInv PROVE TypeOK /\ DepthCounts
    OBVIOUS
  <1>1. known \in 0 .. MaxTicks
    BY LiveStreamAssumption DEF AllTyped, ServerTyped, HoleInv
  <1> QED
    BY <1>1 DEF AllTyped, TypeOK, ServerTyped, JobsTyped, QueueTyped, StreamTyped, GraphTyped, BarTyped, EventsTyped

\* Whatever the server, the stream and the tab do, the state has its types: a slow tab's queue
\* never outgrows DEFAULT_QUEUE_SIZE (live_bus.py _put), a tick's sequence number never runs
\* ahead of the samples stored (live_state.py).
THEOREM LiveTypeCorrect == Spec => []TypeOK
  <1>1. HoleInv /\ [Next]_vars => HoleInv'
    BY HoleInvKept, LiveStreamAssumption
  <1> QED
    BY <1>1, HoleInvAtFirst, TypedAtFirst, TypedKept, TypedSays, PTL DEF Spec

\* However refreshes begin, end and are cut off by a restart, and whoever starts them, the depth
\* is the number of those that run (refresh_status.py begin, finish): it never sticks
\* above zero, and the clamp at zero of finish is never needed.
THEOREM DepthIsCount == Spec => []DepthCounts
  <1>1. AllTyped => DepthCounts
    BY DEF AllTyped, JobsTyped
  <1> QED
    BY <1>1, TypedAtFirst, TypedKept, PTL DEF Spec
=============================================================================
