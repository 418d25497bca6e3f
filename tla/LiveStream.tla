----------------------------- MODULE LiveStream -----------------------------
(***************************************************************************)
(* The server's live events and one tab that follows them: the event       *)
(* stream, its reconnects and its catch-up after a gap (frontend/src/lib/  *)
(* live.ts, tickPatch.ts, queries/invalidation.ts), the refresh bar        *)
(* (refresh.ts), and as much of the server as answers them (live_state,    *)
(* live_bus, refresh_status, api/live, api/ops).                           *)
(*                                                                         *)
(* A tick carries the newest sample of the day, numbered 1, 2, ...; `drawn'  *)
(* is the set of samples of the tab's graph and its last one is also the   *)
(* total on screen.  Samples survive a restart of the server in its        *)
(* database, the tick sequence does not.                                   *)
(***************************************************************************)
EXTENDS Naturals, Sequences, FiniteSets, FiniteSetsExt

CONSTANTS
    Jobs,        \* refreshes the server runs
    QueueSize,   \* DEFAULT_QUEUE_SIZE
    MaxTicks,    \* bound: ticks
    MaxEvents    \* bound: announcements, refreshes, taps, restarts, times hidden, offline or cut off

ASSUME LiveStreamAssumption ==
    /\ IsFiniteSet(Jobs) /\ QueueSize \in Nat \ {0}
    /\ MaxTicks \in Nat /\ MaxEvents \in Nat

VARIABLES
    \* the server
    up, boot,      \* it answers; how often it was restarted
    samples,       \* the samples of the database, 1 .. samples
    seq, ticks,    \* _seq, and _points with the newest as _latest: [seq, t] of this process
    job,           \* where each refresh is
    depth,         \* the refreshes running
    queue,         \* the tab's subscription, or Unsubscribed
    \* the tab
    visible, online,
    conn, retry,   \* the EventSource, and whether a reconnect is scheduled
    status,        \* LiveStatus
    opened,        \* openedBefore
    lostTimer, server, health,   \* lostTimer, the server status, and whether the health poll runs
    lastSeq,       \* the newest tick seen
    catchUps,      \* catch-ups in flight
    drawn, fetch, refetch, stale, \* the graph, its fetch, the staggered refetch, isInvalidated
    running, post, poll,         \* the bar, its POST and its status request
    loaded,        \* the graph has been fetched once
    lastOf,        \* history: the process of the server that numbered lastSeq
    known,         \* history: the newest sample the tab was told of
    overtaken,     \* history: the fetch that landed last was older than that, with no other to come
    mixed,         \* history: since then a process answered a catch-up since a tick of another
    events         \* used up of MaxEvents

srvVars == <<up, boot, samples, seq, ticks>>
jobVars == <<job, depth>>
pageVars == <<visible, online>>
connVars == <<conn, retry, status, opened>>
bannerVars == <<lostTimer, server, health>>
dataVars == <<catchUps, drawn, fetch, refetch, stale>>
barVars == <<running, post, poll>>
seenVars == <<lastSeq, lastOf, loaded, known, overtaken, mixed>>
vars == <<srvVars, jobVars, queue, pageVars, connVars, bannerVars, seenVars, dataVars, barVars, events>>

Unsubscribed == <<[type |-> "unsubscribed"]>>
Nothing == [state |-> "none"]
NoSeq == 0      \* lastSeq is null; the sequence starts at 1
Latest(S) == IF S = {} THEN 0 ELSE Max(S)

Init ==
    /\ up = TRUE /\ boot = 0 /\ samples = 0 /\ seq = 0 /\ ticks = {}
    /\ job = [j \in Jobs |-> "idle"] /\ depth = 0 /\ queue = Unsubscribed
    /\ visible = TRUE /\ online = TRUE
    /\ conn = "connecting" /\ retry = FALSE /\ status = "connecting" /\ opened = FALSE
    /\ lostTimer = FALSE /\ server = "idle" /\ health = FALSE
    /\ lastSeq = NoSeq
    /\ catchUps = {} /\ drawn = {} /\ fetch = [state |-> "asked"] /\ refetch = FALSE /\ stale = FALSE
    /\ running = FALSE /\ post = "none" /\ poll = Nothing
    /\ loaded = FALSE /\ lastOf = 0 /\ known = 0 /\ overtaken = FALSE /\ mixed = FALSE
    /\ events = 0

----------------------------------------------------------------------------
(* The server: what it publishes goes into the queue of the tab, whose oldest *)
(* event makes room when it is full.                                          *)
Put(q, e) ==
    IF q = Unsubscribed THEN q
    ELSE Append(IF Len(q) = QueueSize THEN Tail(q) ELSE q, e)

Tick ==
    /\ up /\ samples < MaxTicks
    /\ samples' = samples + 1 /\ seq' = seq + 1
    /\ ticks' = ticks \cup {[seq |-> seq + 1, t |-> samples + 1]}
    /\ queue' = Put(queue, [type |-> "tick", seq |-> seq + 1, t |-> samples + 1])
    /\ UNCHANGED <<up, boot, jobVars, pageVars, connVars, bannerVars, seenVars, dataVars, barVars, events>>

\* One more of the things that may happen at any time.
Happens == events < MaxEvents /\ events' = events + 1

\* The depth changes under a lock, and the event is published after it.
Begin(j) ==
    /\ up /\ job[j] = "idle" /\ Happens
    /\ depth' = depth + 1
    /\ job' = [job EXCEPT ![j] = IF depth = 0 THEN "announcing" ELSE "running"]
    /\ UNCHANGED <<srvVars, queue, pageVars, connVars, bannerVars, seenVars, dataVars, barVars>>

End(j) ==
    /\ up /\ job[j] = "running"
    /\ depth' = depth - 1
    /\ job' = [job EXCEPT ![j] = IF depth = 1 THEN "ending" ELSE "done"]
    /\ UNCHANGED <<srvVars, queue, pageVars, connVars, bannerVars, seenVars, dataVars, barVars, events>>

Announce(j) ==
    /\ up /\ job[j] \in {"announcing", "ending"}
    /\ job' = [job EXCEPT ![j] = IF @ = "announcing" THEN "running" ELSE "done"]
    /\ queue' = Put(queue, [type |-> IF job[j] = "announcing" THEN "refresh_started" ELSE "refresh_finished"])
    /\ UNCHANGED <<srvVars, depth, pageVars, connVars, bannerVars, seenVars, dataVars, barVars, events>>

\* The deploy script announces its restart, or one it plans.
AnnounceRestart ==
    /\ up /\ Happens
    /\ \E s \in {"restarting", "restart_planned"} : queue' = Put(queue, [type |-> s])
    /\ UNCHANGED <<srvVars, jobVars, pageVars, connVars, bannerVars, seenVars, dataVars, barVars>>

GoDown ==
    /\ up /\ Happens
    /\ up' = FALSE /\ boot' = boot + 1
    /\ seq' = 0 /\ ticks' = {} /\ depth' = 0
    /\ job' = [j \in Jobs |-> IF job[j] = "idle" THEN "idle" ELSE "done"]
    /\ queue' = Unsubscribed
    /\ UNCHANGED <<samples, pageVars, connVars, bannerVars, seenVars, dataVars, barVars>>

ComeUp ==
    /\ ~up /\ up' = TRUE
    /\ UNCHANGED <<boot, samples, seq, ticks, jobVars, queue, pageVars, connVars, bannerVars, seenVars, dataVars,
                   barVars, events>>

----------------------------------------------------------------------------
(* The stream of the tab. *)
close == conn' = "none" /\ retry' = FALSE /\ queue' = Unsubscribed

\* MUTANT: the old stream is closed and no new one opened.
reopen_Closes(stat) == retry' = FALSE /\ queue' = Unsubscribed /\ conn' = "none" /\ status' = stat

\* close() and connect() of a handler that reconnects at once.
reopen(stat) ==
    /\ retry' = FALSE /\ queue' = Unsubscribed
    /\ IF ~visible' THEN conn' = "none" /\ status' = stat
       ELSE IF ~online' THEN conn' = "none" /\ status' = "offline"
       ELSE conn' = "connecting" /\ status' = stat

\* onopen: what was missed since the last tick is asked for.
Open ==
    /\ conn = "connecting" /\ up /\ online
    /\ conn' = "open" /\ status' = "connected" /\ opened' = TRUE /\ queue' = <<>>
    /\ lostTimer' = FALSE
    /\ server' = IF server = "lost" THEN "idle" ELSE server
    /\ IF ~opened \/ lastSeq = NoSeq
       THEN /\ UNCHANGED catchUps
            /\ refetch' = (refetch \/ opened) /\ stale' = (stale \/ opened)
       ELSE /\ catchUps' = catchUps \cup {[state |-> "asked", since |-> lastSeq, of |-> lastOf]}
            /\ UNCHANGED <<refetch, stale>>
    /\ UNCHANGED <<srvVars, jobVars, pageVars, retry, health, seenVars, drawn, fetch, barVars, events>>

\* onerror: the connection broke, or none could be made.
Error ==
    /\ conn # "none"
    /\ \/ ~up \/ ~online \/ (queue = Unsubscribed /\ conn = "open")
       \/ events < MaxEvents
    /\ events' = IF up /\ online /\ ~(queue = Unsubscribed /\ conn = "open") THEN events + 1 ELSE events
    /\ conn' = "none" /\ queue' = Unsubscribed
    /\ retry' = visible
    /\ status' = IF ~visible THEN status ELSE IF online THEN "reconnecting" ELSE "offline"
    /\ lostTimer' = (lostTimer \/ (visible /\ online /\ opened /\ server = "idle"))
    /\ UNCHANGED <<srvVars, jobVars, pageVars, opened, server, health, seenVars, dataVars, barVars>>

Retry ==
    /\ retry /\ retry' = FALSE
    /\ IF conn # "none" \/ ~visible THEN UNCHANGED <<conn, status>>
       ELSE IF ~online THEN status' = "offline" /\ UNCHANGED conn
       ELSE conn' = "connecting" /\ UNCHANGED status
    /\ UNCHANGED <<srvVars, jobVars, queue, pageVars, opened, bannerVars, seenVars, dataVars, barVars, events>>

\* The tab is hidden, and shown again.
Hide ==
    /\ visible /\ Happens
    /\ visible' = FALSE
    /\ close /\ status' = "offline"
    /\ UNCHANGED <<srvVars, jobVars, online, opened, bannerVars, seenVars, dataVars, barVars>>
Show ==
    /\ ~visible /\ visible' = TRUE
    /\ conn = "none" /\ UNCHANGED online /\ reopen("connecting")
    /\ UNCHANGED <<srvVars, jobVars, opened, bannerVars, seenVars, dataVars, barVars, events>>

\* The browser's network events.
Offline ==
    /\ online /\ Happens
    /\ online' = FALSE
    /\ close /\ status' = "offline"
    /\ UNCHANGED <<srvVars, jobVars, visible, opened, bannerVars, seenVars, dataVars, barVars>>
\* Stale queries are refetched too, which is the query library's own doing.
Online ==
    /\ ~online /\ online' = TRUE /\ UNCHANGED visible
    /\ IF visible THEN reopen("connecting") ELSE UNCHANGED <<conn, retry, status, queue>>
    /\ fetch' = IF stale /\ fetch = Nothing THEN [state |-> "asked"] ELSE fetch
    /\ UNCHANGED <<srvVars, jobVars, opened, bannerVars, seenVars, catchUps, drawn, refetch, stale, barVars,
                   events>>

\* Ten seconds after a drop, unless something was learned since.
Lost ==
    /\ lostTimer /\ lostTimer' = FALSE
    /\ server' = IF opened /\ server = "idle" /\ status # "connected" THEN "lost" ELSE server
    /\ UNCHANGED <<srvVars, jobVars, queue, pageVars, connVars, health, seenVars, dataVars, barVars, events>>

----------------------------------------------------------------------------
(* The announced restart: the tab polls the server's health.  The poll ends with  *)
(* an answer after a gap, of another version or after half a minute: any answer   *)
(* may be the one.                                                                *)
\* MUTANT: only an answer that follows a drop of the stream ends it.
HealthOver_Dropped == health /\ up /\ online /\ conn # "open"

HealthOver == health /\ up /\ online

HealthDone ==
    /\ HealthOver
    /\ health' = FALSE
    /\ IF server = "restarting"
       THEN /\ server' = "updated"
            /\ UNCHANGED <<visible, online>> /\ reopen(status)
            /\ refetch' = TRUE
       ELSE UNCHANGED <<server, visible, online, conn, retry, status, queue, refetch>>
    /\ UNCHANGED <<srvVars, jobVars, opened, lostTimer, seenVars, catchUps, drawn, fetch, stale, barVars, events>>

UpdatedShown ==
    /\ server = "updated" /\ server' = "idle"
    /\ UNCHANGED <<srvVars, jobVars, queue, pageVars, connVars, lostTimer, health, seenVars, dataVars, barVars,
                   events>>

----------------------------------------------------------------------------
(* What an event does: the graph takes a newer sample, queries go stale and a *)
(* refetch is scheduled, the bar and the banner follow.                       *)
\* A graph that was never fetched is left alone; samples are drawn oldest first.
patchGraphPoints(points, missed) ==
    IF loaded THEN points \cup {t \in missed : t > Latest(points)} ELSE points

\* The number, noted when it is higher, and the process it is of.
noteSeq(n, of) == IF n > lastSeq THEN lastSeq' = n /\ lastOf' = of ELSE UNCHANGED <<lastSeq, lastOf>>

\* MUTANT: a tick is taken as it comes and nothing is refetched.
markStaleAndRefetch_Never == UNCHANGED <<stale, refetch>>

markStaleAndRefetch == stale' = TRUE /\ refetch' = TRUE

applyRefreshEvent(running_) ==
    /\ running' = running_
    /\ poll' = IF running_ THEN poll ELSE Nothing
    /\ UNCHANGED post

handleServerEvent(s) ==
    IF s = "restarting"
    THEN /\ lostTimer' = FALSE /\ server' = "restarting"
         /\ health' = TRUE
    ELSE /\ server' = IF server = "restarting" THEN server ELSE "planned"
         /\ UNCHANGED <<lostTimer, health>>

handleLiveEvent ==
    /\ conn = "open" /\ queue # Unsubscribed /\ queue # <<>>
    /\ queue' = Tail(queue)
    /\ LET e == Head(queue)
       IN \/ /\ e.type = "tick"
             /\ noteSeq(e.seq, boot) /\ known' = IF e.t > known THEN e.t ELSE known
             /\ drawn' = patchGraphPoints(drawn, {e.t}) /\ markStaleAndRefetch
             /\ UNCHANGED <<bannerVars, barVars>>
          \/ /\ e.type \in {"refresh_started", "refresh_finished"}
             /\ applyRefreshEvent(e.type = "refresh_started")
             /\ IF e.type = "refresh_finished" THEN markStaleAndRefetch ELSE UNCHANGED <<stale, refetch>>
             /\ UNCHANGED <<bannerVars, lastSeq, lastOf, known, drawn>>
          \/ /\ e.type \in {"restarting", "restart_planned"}
             /\ handleServerEvent(e.type)
             /\ UNCHANGED <<barVars, lastSeq, lastOf, known, drawn, stale, refetch>>
    /\ UNCHANGED <<srvVars, jobVars, pageVars, connVars, catchUps, fetch, loaded, overtaken, mixed, events>>

----------------------------------------------------------------------------
(* The catch-up: the newest tick and the samples since the last sequence number. *)
ServeCatchUp(c) ==
    /\ c \in catchUps /\ c.state = "asked" /\ up
    /\ catchUps' = (catchUps \ {c})
         \cup {[state |-> "answered", seq |-> seq, of |-> c.of, by |-> boot,
                missed |-> {p.t : p \in {q \in ticks : q.seq > c.since}},
                newest |-> {p.t : p \in {q \in ticks : q.seq = seq}}]}
    /\ UNCHANGED <<srvVars, jobVars, queue, pageVars, connVars, bannerVars, seenVars, drawn, fetch, refetch, stale,
                   barVars, events>>

\* What is set by hand is no longer stale.
CatchUp(c) ==
    /\ c \in catchUps /\ c.state = "answered"
    /\ catchUps' = catchUps \ {c}
    /\ drawn' = patchGraphPoints(patchGraphPoints(drawn, c.missed), c.newest)
    /\ stale' = (stale /\ ~(loaded /\ c.missed \cup c.newest # {}))
    /\ noteSeq(c.seq, c.by) /\ known' = Latest({known} \cup c.newest)
    /\ mixed' = (mixed \/ c.of # c.by)
    /\ UNCHANGED <<srvVars, jobVars, queue, pageVars, connVars, bannerVars, loaded, overtaken, fetch, refetch, barVars,
                   events>>

CatchUpFails(c) ==
    /\ c \in catchUps /\ (~up \/ ~online)
    /\ catchUps' = catchUps \ {c}
    /\ markStaleAndRefetch
    /\ UNCHANGED <<srvVars, jobVars, queue, pageVars, connVars, bannerVars, seenVars, drawn, fetch, barVars, events>>

----------------------------------------------------------------------------
(* The fetch of the queries on screen; a new one replaces the one in flight, and *)
(* without an answer it is asked again.                                          *)
Refetch ==
    /\ refetch /\ refetch' = FALSE
    /\ fetch' = [state |-> "asked"]
    /\ UNCHANGED <<srvVars, jobVars, queue, pageVars, connVars, bannerVars, seenVars, catchUps, drawn, stale, barVars,
                   events>>
ServeFetch ==
    /\ fetch.state = "asked" /\ up /\ online
    /\ fetch' = [state |-> "answered", upTo |-> samples]
    /\ UNCHANGED <<srvVars, jobVars, queue, pageVars, connVars, bannerVars, seenVars, catchUps, drawn, refetch, stale,
                   barVars, events>>
Fetched ==
    /\ fetch.state = "answered"
    /\ fetch' = Nothing /\ drawn' = 1 .. fetch.upTo /\ stale' = FALSE
    /\ loaded' = TRUE /\ overtaken' = (~refetch /\ fetch.upTo < known) /\ mixed' = FALSE
    /\ UNCHANGED <<srvVars, jobVars, queue, pageVars, connVars, bannerVars, lastSeq, lastOf, known, catchUps, refetch,
                   barVars, events>>

----------------------------------------------------------------------------
(* The refresh bar: a tap posts, the answer keeps it running, and while it runs *)
(* the server's status is asked every two seconds.                              *)
start ==
    /\ ~running /\ Happens /\ post = "none"
    /\ running' = TRUE /\ post' = "asked"
    /\ UNCHANGED <<srvVars, jobVars, queue, pageVars, connVars, bannerVars, seenVars, dataVars, poll>>

\* The server starts one of its refreshes unless one is running.
ServePost ==
    /\ post = "asked" /\ up /\ online
    /\ IF depth > 0 \/ (\A j \in Jobs : job[j] # "idle")
       THEN post' = "busy" /\ UNCHANGED jobVars
       ELSE /\ post' = "started"
            /\ \E j \in {i \in Jobs : job[i] = "idle"} :
                 depth' = depth + 1 /\ job' = [job EXCEPT ![j] = "announcing"]
    /\ UNCHANGED <<srvVars, queue, pageVars, connVars, bannerVars, seenVars, dataVars, running, poll, events>>

PostLands ==
    /\ \/ post = "started" /\ running' = TRUE /\ UNCHANGED poll
       \/ post = "busy" /\ UNCHANGED <<running, poll>>
       \/ post = "asked" /\ (~up \/ ~online) /\ running' = FALSE /\ poll' = Nothing
    /\ post' = "none"
    /\ UNCHANGED <<srvVars, jobVars, queue, pageVars, connVars, bannerVars, seenVars, dataVars, events>>

\* MUTANT: the poll is left to the stream.
Poll_Never == FALSE

\* Running is the depth, or the job of the tap that has not quite ended.
Poll ==
    /\ running /\ poll = Nothing /\ up /\ online
    /\ \E held \in BOOLEAN :
         poll' = [state |-> "answered", running |-> depth > 0 \/ (held /\ \E j \in Jobs : job[j] = "ending")]
    /\ UNCHANGED <<srvVars, jobVars, queue, pageVars, connVars, bannerVars, seenVars, dataVars, running, post, events>>

PollLands ==
    /\ poll.state = "answered" /\ poll' = Nothing
    /\ running' = poll.running
    /\ IF poll.running THEN UNCHANGED <<stale, refetch>> ELSE markStaleAndRefetch
    /\ UNCHANGED <<srvVars, jobVars, queue, pageVars, connVars, bannerVars, seenVars, catchUps, drawn, fetch, post,
                   events>>

----------------------------------------------------------------------------
Server == Tick \/ (\E j \in Jobs : Begin(j)) \/ AnnounceRestart \/ GoDown
ServerGoesOn == ComeUp \/ \E j \in Jobs : End(j) \/ Announce(j)
Stream == Open \/ Error \/ Retry \/ handleLiveEvent
Page == Hide \/ Offline
Banner == Lost \/ HealthDone \/ UpdatedShown
Data == (\E c \in catchUps : ServeCatchUp(c) \/ CatchUp(c) \/ CatchUpFails(c)) \/ Refetch \/ ServeFetch \/ Fetched
Bar == start \/ ServePost \/ PostLands \/ Poll \/ PollLands
TabGoesOn == Show \/ Online \/ Open \/ (Error /\ events' = events) \/ Retry \/ handleLiveEvent
             \/ Banner \/ ServePost \/ PostLands \/ Poll \/ PollLands
Next == Server \/ ServerGoesOn \/ Stream \/ Page \/ Show \/ Online \/ Banner \/ Data \/ Bar

Spec == Init /\ [][Next]_vars

\* The server comes back and ends its refreshes, and the tab does not stop while a timer, a
\* listener or an answer of it is due: it is shown and online again at some time, requests are
\* answered or fail.
FairSpec ==
    /\ Spec
    /\ WF_vars(ServerGoesOn) /\ WF_vars(TabGoesOn)

----------------------------------------------------------------------------
Sample == 1 .. MaxTicks
Event ==
    [type : {"tick"}, seq : Sample, t : Sample]
    \cup [type : {"unsubscribed", "refresh_started", "refresh_finished", "restarting", "restart_planned"}]
CatchUpCall ==
    [state : {"asked"}, since : Sample, of : Nat]
    \cup [state : {"answered"}, seq : 0 .. MaxTicks, of : Nat, by : Nat, missed : SUBSET Sample, newest : SUBSET Sample]
FetchCall == {Nothing} \cup [state : {"asked"}] \cup [state : {"answered"}, upTo : 0 .. MaxTicks]

\* The types; the sequence never runs ahead of the samples, and a slow tab's queue is bounded.
TypeOK ==
    /\ up \in BOOLEAN /\ boot \in Nat
    /\ samples \in 0 .. MaxTicks /\ seq \in 0 .. samples
    /\ ticks \subseteq [seq : Sample, t : Sample]
    /\ job \in [Jobs -> {"idle", "announcing", "running", "ending", "done"}] /\ depth \in Nat
    /\ queue \in Seq(Event) /\ Len(queue) <= QueueSize
    /\ visible \in BOOLEAN /\ online \in BOOLEAN
    /\ conn \in {"none", "connecting", "open"} /\ retry \in BOOLEAN
    /\ status \in {"connecting", "connected", "reconnecting", "offline"} /\ opened \in BOOLEAN
    /\ lostTimer \in BOOLEAN /\ server \in {"idle", "planned", "restarting", "updated", "lost"}
    /\ health \in BOOLEAN
    /\ lastSeq \in 0 .. MaxTicks /\ lastOf \in Nat /\ known \in 0 .. MaxTicks
    /\ loaded \in BOOLEAN /\ overtaken \in BOOLEAN /\ mixed \in BOOLEAN
    /\ catchUps \subseteq CatchUpCall /\ drawn \subseteq Sample
    /\ fetch \in FetchCall /\ refetch \in BOOLEAN /\ stale \in BOOLEAN
    /\ running \in BOOLEAN /\ post \in {"none", "asked", "busy", "started"}
    /\ poll \in {Nothing} \cup [state : {"answered"}, running : BOOLEAN]
    /\ events \in 0 .. MaxEvents

\* The depth counts the refreshes that run, announced or not (refresh_status.py): it is
\* never below zero, and the server calls itself idle exactly when none runs.
DepthCounts == depth = Cardinality({j \in Jobs : job[j] \in {"announcing", "running"}})

\* A tab on screen with a network is never left without a stream and without a way to get
\* one: it has a connection or a reconnect is scheduled (live.ts startLive).
StreamHeld == visible /\ online => conn # "none" \/ retry

\* A sample missing below the newest one drawn is being fetched or about to be, after drops,
\* full queues and restarts, announced or not, and whatever order ticks, catch-ups and fetches
\* land in (live.ts catchUpLive, tickPatch.ts).  Two things leave a hole for good, until
\* another fetch lands: a catch-up that landed between the server's answer to the last fetch
\* and its landing, and one that a restarted server answers, whose numbers started over.
NoHole ==
    ~overtaken /\ ~mixed /\ drawn # 1 .. Latest(drawn) => refetch \/ fetch # Nothing

\* "After a gap (tab back, network back) ask the server what was missed and apply it without
\* refetching" (live.ts:94-97): without the two exceptions.  TLC refutes it.
GapFilled == drawn # 1 .. Latest(drawn) => refetch \/ fetch # Nothing \/ catchUps # {} \/ stale

\* The banners "restarting" and "lost" end: the stream opens again, or the health poll
\* finds the server (live.ts startHealthPoll).
BannerEnds == []<>(server \notin {"restarting", "lost"})

\* The bar ends, whichever of the answer, the events and the polls is lost or late
\* (refresh.ts useServerRefresh).
BarEnds == []<>~running
=============================================================================
