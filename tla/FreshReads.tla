---------------------------- MODULE FreshReads ----------------------------
(***************************************************************************)
(* What the cached read endpoints promise, whatever caches, ETags and      *)
(* shared computations sit behind them: an answer is made of committed     *)
(* data, and every dependency in it is at least as new as what had been    *)
(* announced as changed when the request came in.                          *)
(***************************************************************************)
EXTENDS Integers

CONSTANTS Clients, Deps, Keys, ReadsOf

VARIABLES
    committed,   \* committed[d]: version of d in the database
    announced,   \* announced[d]: version of d when a change of d was last announced
    request      \* request[c]: what client c asked, and what it was answered

vars == <<committed, announced, request>>

None == [state |-> "none"]
Asked(k, floor)       == [state |-> "asked", key |-> k, floor |-> floor]
Answered(k, floor, v) == [state |-> "answered", key |-> k, floor |-> floor, ver |-> v]

\* The answers for k a request with this floor may be given.
Acceptable(k, floor) ==
    {v \in [ReadsOf[k] -> UNION {floor[d] .. committed[d] : d \in ReadsOf[k]}] :
        \A d \in ReadsOf[k] : v[d] \in floor[d] .. committed[d]}

Init ==
    /\ committed = [d \in Deps |-> 0]
    /\ announced = [d \in Deps |-> 0]
    /\ request = [c \in Clients |-> None]

Commit(D) ==
    /\ committed' = [d \in Deps |-> IF d \in D THEN committed[d] + 1 ELSE committed[d]]
    /\ UNCHANGED <<announced, request>>

Announce(D) ==
    /\ announced' = [d \in Deps |-> IF d \in D THEN committed[d] ELSE announced[d]]
    /\ UNCHANGED <<committed, request>>

Ask(c, k) ==
    /\ request[c] = None
    /\ request' = [request EXCEPT ![c] = Asked(k, announced)]
    /\ UNCHANGED <<committed, announced>>

Answer(c) ==
    /\ request[c].state = "asked"
    /\ \E v \in Acceptable(request[c].key, request[c].floor) :
          request' = [request EXCEPT ![c] = Answered(request[c].key, request[c].floor, v)]
    /\ UNCHANGED <<committed, announced>>

\* The client is told at once that the copy it holds is still good.
Confirm(c, k) ==
    /\ request[c] = None
    /\ \E v \in Acceptable(k, announced) :
          request' = [request EXCEPT ![c] = Answered(k, announced, v)]
    /\ UNCHANGED <<committed, announced>>

\* The response is delivered, or the request fails.
Leave(c) ==
    /\ request[c] # None
    /\ request' = [request EXCEPT ![c] = None]
    /\ UNCHANGED <<committed, announced>>

\* A new process has announced everything: it starts with nothing to go stale.
Restart ==
    /\ announced' = committed
    /\ request' = [c \in Clients |-> None]
    /\ UNCHANGED committed

Next ==
    \/ \E D \in SUBSET Deps : Commit(D) \/ Announce(D)
    \/ \E c \in Clients : Answer(c) \/ Leave(c) \/ \E k \in Keys : Ask(c, k) \/ Confirm(c, k)
    \/ Restart

Spec == Init /\ [][Next]_vars
=============================================================================
