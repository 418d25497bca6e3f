--------------------------- MODULE DeferredQueue ---------------------------
(***************************************************************************)
(* The companion's queue of symbols a round could not pay for              *)
(* (web/src/deferred-queue.ts, kept in localStorage by cache.ts), as pure  *)
(* operators: oldest first, bounded, each symbol with the rounds it has    *)
(* been tried in and whether the user asked for it.                        *)
(***************************************************************************)
EXTENDS Naturals, SequencesExt

CONSTANTS
    QueueMax,   \* DEFERRED_QUEUE_MAX
    MaxAttempts \* DEFERRED_MAX_ATTEMPTS

ASSUME QueueAssumption == QueueMax \in Nat \ {0} /\ MaxAttempts \in Nat

Parked(q) == {q[i].symbol : i \in DOMAIN q}
hasForced(q) == \E i \in DOMAIN q : q[i].force

\* The oldest leave first.
Bounded(q) == IF Len(q) > QueueMax THEN Tail(q) ELSE q

\* A parked symbol keeps its place and its attempts, and stays forced.
enqueueOne(q, s, force) ==
    IF s \in Parked(q)
    THEN [i \in DOMAIN q |-> IF q[i].symbol = s THEN [q[i] EXCEPT !.force = @ \/ force] ELSE q[i]]
    ELSE Bounded(Append(q, [symbol |-> s, attempts |-> 0, force |-> force]))

enqueue(q, symbols, force) ==
    LET after[i \in 0 .. Len(symbols)] ==
          IF i = 0 THEN q ELSE enqueueOne(after[i - 1], symbols[i], force)
    IN after[Len(symbols)]

\* What stands at the given places of q, in its order.
At(q, places) ==
    LET upTo[i \in 0 .. Len(q)] ==
          IF i = 0 THEN <<>>
          ELSE IF i \in places THEN Append(upTo[i - 1], q[i]) ELSE upTo[i - 1]
    IN upTo[Len(q)]

clear(q, done) == At(q, {i \in DOMAIN q : q[i].symbol \notin done})

\* MUTANT: a fresh price clears what the user asked to pull again.
Stays_Unforced(e, fresh) == e.symbol \notin fresh /\ e.attempts < MaxAttempts

\* An entry outlives a drain unless the caches hold a fresh price of it, which
\* does not count for a forced one, or its attempts are used up.
Stays(e, fresh) == (e.force \/ e.symbol \notin fresh) /\ e.attempts < MaxAttempts

\* The queue a drain leaves: what is still missing, tried once more.
drained(q, fresh) ==
    LET left == At(q, {i \in DOMAIN q : Stays(q[i], fresh)})
    IN [i \in DOMAIN left |-> [left[i] EXCEPT !.attempts = @ + 1]]

\* Only an empty queue takes what a snapshot holds.
restore(q, entries) ==
    LET after[i \in 0 .. Len(entries)] ==
          IF i = 0 THEN q
          ELSE IF entries[i].symbol \in Parked(after[i - 1]) THEN after[i - 1]
          ELSE Bounded(Append(after[i - 1], entries[i]))
    IN IF q # <<>> THEN q ELSE after[Len(entries)]
=============================================================================
