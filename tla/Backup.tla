---------------------------- MODULE Backup ----------------------------
(***************************************************************************)
(* Sealed backups (services/backup_service.py) and the dirty flag that     *)
(* asks for one (db.py), beside the database sessions whose writes must    *)
(* get into a backup.                                                      *)
(*                                                                         *)
(* A session is one request.  It flushes writes into its transaction and   *)
(* commits at its end; a ledger row is inserted under a SAVEPOINT of its   *)
(* own.  SQLAlchemy's hooks see the flushes, the commits and rollbacks,    *)
(* those of savepoints too, and keep the flag.  The driver opens a         *)
(* transaction at the first INSERT, UPDATE or DELETE and not at a          *)
(* SAVEPOINT, so that releasing one outside a transaction commits it.      *)
(*                                                                         *)
(* A backup thread names its file after the second it starts in, copies    *)
(* the database, writes the file and prunes the directory.  Time is in     *)
(* seconds, and a write stands for what it changes in the database.        *)
(***************************************************************************)
EXTENDS Integers, Sequences, FiniteSets

CONSTANTS
    Sessions,     \* requests that write
    Offered,      \* the kinds of request they may be
    Scheduled,    \* the backup thread of the scheduler
    Direct,       \* the threads of jobs that take a backup first
    Retention,    \* [every, keep]: the newest of each of the last periods is kept
    Debounce, Nightly,    \* the settings
    Never,        \* None, where an instant is expected
    MaxTime, MaxFails, MaxBoot   \* bounds

Time == 0 .. MaxTime
Backups == {Scheduled} \cup Direct

\* What each kind of request sends to the database.
Script ==
    [edit      |-> <<"flush">>,                        \* update or delete a row
     forget    |-> <<"bulk">>,                         \* a bulk statement
     create    |-> <<"insert">>,                       \* a manual transaction
     newSymbol |-> <<"flush", "insert">>,              \* of an unknown instrument
     routed    |-> <<"insert", "flush", "insert">>,    \* with its money-market leg
     import    |-> <<"flush", "row", "flush">>]        \* batch, row, batch totals

Writes == Sessions \X (1 .. 3)

ASSUME SettingsAssumption ==
    /\ {MaxTime, MaxFails, MaxBoot, Debounce, Nightly} \subseteq Nat
    /\ Never \notin Int
    /\ Scheduled \notin Direct
    /\ Offered \subseteq DOMAIN Script
ASSUME RetentionAssumption ==
    /\ \A p \in Retention : p.every \in Nat \ {0} /\ p.keep \in Nat
    /\ \E p \in Retention : p.keep > 0    \* settings_registry._retention_sum

VARIABLES
    stage,      \* stage[s]: idle, open, releasing, committing, ended or failed
    todo,       \* todo[s]: what s still sends
    pending,    \* pending[s]: what s flushed since its last commit
    flagged,    \* session.info["backup_dirty"] of s
    committed,  \* the writes in the database
    since,      \* _dirty_state["since"]
    phase, name, copy,    \* of each backup thread
    files, content,       \* the sealed files, by the second in their names
    clock,
    unhooked,   \* history: the writes the flag does not vouch for
    fails, boot \* how often each happened (bounds)

sessionVars == <<stage, todo, pending, flagged>>
backupVars  == <<phase, name, copy, files, content>>
vars == <<sessionVars, committed, since, backupVars, clock, unhooked, fails, boot>>

Init ==
    /\ stage = [s \in Sessions |-> "idle"]
    /\ todo = [s \in Sessions |-> <<>>]
    /\ pending = [s \in Sessions |-> {}]
    /\ flagged = [s \in Sessions |-> FALSE]
    /\ committed = {}
    /\ since = Never
    /\ phase = [b \in Backups |-> "idle"]
    /\ name = [b \in Backups |-> 0]
    /\ copy = [b \in Backups |-> {}]
    /\ files = {} /\ content = [t \in Time |-> {}]
    /\ clock = 0
    /\ unhooked = {}
    /\ fails = 0 /\ boot = 0

\* MUTANT: the time the backup is due, not the time of the write.
Marked_Deadline == IF since = Never THEN clock + Debounce ELSE since

\* mark_dirty() keeps the earliest time.
Marked == IF since = Never THEN clock ELSE since

(***************************************************************************)
(* Sessions.                                                               *)
(***************************************************************************)
Begin(s, k) ==
    /\ stage[s] = "idle"
    /\ stage' = [stage EXCEPT ![s] = "open"]
    /\ todo' = [todo EXCEPT ![s] = Script[k]]
    /\ UNCHANGED <<pending, flagged, committed, since, backupVars, clock, unhooked, fails, boot>>

\* A transaction that wrote holds the database's write lock.
InTransaction(s) == stage[s] = "open" /\ pending[s] # {}

\* s sends its next statement.
Sends(s, Xs) ==
    /\ stage[s] = "open"
    /\ todo[s] # <<>> /\ Head(todo[s]) \in Xs
    /\ todo' = [todo EXCEPT ![s] = Tail(@)]

Write(s) == <<s, Len(todo[s])>>

LockFree(s) == \A o \in Sessions \ {s} : ~ InTransaction(o)

Flush(s) ==
    /\ Sends(s, {"flush"}) /\ LockFree(s)
    /\ pending' = [pending EXCEPT ![s] = @ \cup {Write(s)}]
    /\ flagged' = [flagged EXCEPT ![s] = TRUE]
    /\ UNCHANGED <<stage, committed, since, backupVars, clock, unhooked, fails, boot>>

\* "the nightly snapshot covers anything the hook cannot see"
Bulk(s) ==
    /\ Sends(s, {"bulk"}) /\ LockFree(s)
    /\ pending' = [pending EXCEPT ![s] = @ \cup {Write(s)}]
    /\ unhooked' = unhooked \cup {Write(s)}
    /\ UNCHANGED <<stage, flagged, committed, since, backupVars, clock, fails, boot>>

\* The savepoint ends inside the transaction, and the commit hook runs all the same.
InsertNested(s) ==
    /\ Sends(s, {"insert", "row"}) /\ pending[s] # {}
    /\ pending' = [pending EXCEPT ![s] = @ \cup {Write(s)}]
    /\ flagged' = [flagged EXCEPT ![s] = FALSE]
    /\ since' = Marked
    /\ UNCHANGED <<stage, committed, backupVars, clock, unhooked, fails, boot>>

\* The savepoint is the transaction: releasing it commits the row.
InsertAlone(s) ==
    /\ Sends(s, {"insert"}) /\ pending[s] = {} /\ LockFree(s)
    /\ pending' = [pending EXCEPT ![s] = {Write(s)}]
    /\ flagged' = [flagged EXCEPT ![s] = TRUE]
    /\ committed' = committed \cup {Write(s)}
    /\ stage' = [stage EXCEPT ![s] = "releasing"]
    /\ UNCHANGED <<since, backupVars, clock, unhooked, fails, boot>>

\* An imported row that is in the ledger already: the savepoint is rolled back, and the
\* rollback hook forgets what was flushed before it.
Duplicate(s) ==
    /\ Sends(s, {"row"})
    /\ flagged' = [flagged EXCEPT ![s] = FALSE]
    /\ UNCHANGED <<stage, pending, committed, since, backupVars, clock, unhooked, fails, boot>>

Commit(s) ==
    /\ stage[s] = "open" /\ todo[s] = <<>>
    /\ committed' = committed \cup pending[s]
    /\ stage' = [stage EXCEPT ![s] = "committing"]
    /\ UNCHANGED <<todo, pending, flagged, since, backupVars, clock, unhooked, fails, boot>>

\* The commit hook, after the commit.  A flag it finds vouches for all the session wrote.
Announce(s) ==
    /\ stage[s] \in {"releasing", "committing"}
    /\ stage' = [stage EXCEPT ![s] = IF @ = "releasing" THEN "open" ELSE "ended"]
    /\ since' = IF flagged[s] THEN Marked ELSE since
    /\ flagged' = [flagged EXCEPT ![s] = FALSE]
    /\ pending' = [pending EXCEPT ![s] = {}]
    /\ unhooked' = IF flagged[s] THEN unhooked \ pending[s] ELSE unhooked
    /\ UNCHANGED <<todo, committed, backupVars, clock, fails, boot>>

\* Anything the request does may raise: it answers with an error and is rolled back.
Fail(s) ==
    /\ stage[s] = "open"
    /\ stage' = [stage EXCEPT ![s] = "failed"]
    /\ todo' = [todo EXCEPT ![s] = <<>>]
    /\ pending' = [pending EXCEPT ![s] = {}]
    /\ flagged' = [flagged EXCEPT ![s] = FALSE]
    /\ UNCHANGED <<committed, since, backupVars, clock, unhooked, fails, boot>>

(***************************************************************************)
(* Backups.                                                                *)
(***************************************************************************)
\* MUTANT: a backup is only taken of a dirty database.
IsDue_Dirty == since # Never /\ clock - since >= Debounce

IsDue ==
    \/ since # Never /\ clock - since >= Debounce
    \/ \A n \in files : clock - n >= Nightly

\* create_snapshot() takes its time, and with it the name of its file.
Name(b) ==
    /\ phase[b] = "idle"
    /\ phase' = [phase EXCEPT ![b] = "named"]
    /\ name' = [name EXCEPT ![b] = clock]
    /\ UNCHANGED <<sessionVars, committed, copy, files, content, clock, fails, boot>>

\* What sessions have written that their commit will not announce any more.
Unannounced ==
    UNION {pending[s] : s \in {o \in Sessions : stage[o] = "open" /\ ~ flagged[o]}}

\* run_scheduled() clears the flag before it copies anything, also where it was raised for
\* a transaction that is still open.
RunScheduled ==
    /\ Name(Scheduled)
    /\ since' = Never
    /\ unhooked' = unhooked \cup Unannounced

RunDirect(b) == b \in Direct /\ Name(b) /\ UNCHANGED <<since, unhooked>>

\* The copy is consistent: it has what was committed.
Copy(b) ==
    /\ phase[b] = "named"
    /\ phase' = [phase EXCEPT ![b] = "copied"]
    /\ copy' = [copy EXCEPT ![b] = committed]
    /\ UNCHANGED <<sessionVars, committed, since, name, files, content, clock, unhooked, fails, boot>>

\* MUTANT: whoever writes a file clears the flag.
Seal_Clears(b) ==
    /\ phase[b] = "copied"
    /\ phase' = [phase EXCEPT ![b] = "written"]
    /\ files' = files \cup {name[b]}
    /\ content' = [content EXCEPT ![name[b]] = copy[b]]
    /\ unhooked' = unhooked \cup (content[name[b]] \ copy[b])
    /\ since' = Never
    /\ UNCHANGED <<sessionVars, committed, name, copy, clock, fails, boot>>

\* The file replaces one of the same second, whatever that one had.
Seal(b) ==
    /\ phase[b] = "copied"
    /\ phase' = [phase EXCEPT ![b] = "written"]
    /\ files' = files \cup {name[b]}
    /\ content' = [content EXCEPT ![name[b]] = copy[b]]
    /\ unhooked' = unhooked \cup (content[name[b]] \ copy[b])
    /\ UNCHANGED <<sessionVars, committed, since, name, copy, clock, fails, boot>>

\* The newest file of each of the newest periods that have any.
Kept(S) ==
    {n \in S : \E p \in Retention :
        /\ \A m \in S : m \div p.every = n \div p.every => m <= n
        /\ Cardinality({m \div p.every : m \in {k \in S : k > n}}) < p.keep}

Prune(b) ==
    /\ phase[b] = "written"
    /\ phase' = [phase EXCEPT ![b] = "idle"]
    /\ files' = Kept(files)
    /\ content' = [n \in Time |-> IF n \in files' THEN content[n] ELSE {}]
    /\ name' = [name EXCEPT ![b] = 0]
    /\ copy' = [copy EXCEPT ![b] = {}]
    /\ UNCHANGED <<sessionVars, committed, since, clock, unhooked, fails, boot>>

\* A failure of the scheduled backup marks the database dirty again.
FailBackup(b) ==
    /\ phase[b] # "idle"
    /\ fails < MaxFails /\ fails' = fails + 1
    /\ phase' = [phase EXCEPT ![b] = "idle"]
    /\ name' = [name EXCEPT ![b] = 0]
    /\ copy' = [copy EXCEPT ![b] = {}]
    /\ since' = IF b = Scheduled THEN Marked ELSE since
    /\ UNCHANGED <<sessionVars, committed, files, content, clock, unhooked, boot>>

(***************************************************************************)
(* The rest.                                                               *)
(***************************************************************************)
PassTime ==
    /\ clock < MaxTime
    /\ clock' = clock + 1
    /\ UNCHANGED <<sessionVars, committed, since, backupVars, unhooked, fails, boot>>

\* What the newest file holds: the one a restore takes.
Newest == {n \in files : \A m \in files : m <= n}
Backed == UNION {content[n] : n \in Newest}

\* The flag is in memory only; the files and the database last.
Restart ==
    /\ boot < MaxBoot /\ boot' = boot + 1
    /\ stage' = [s \in Sessions |-> IF stage[s] = "idle" THEN "idle" ELSE "ended"]
    /\ todo' = [s \in Sessions |-> <<>>]
    /\ pending' = [s \in Sessions |-> {}]
    /\ flagged' = [s \in Sessions |-> FALSE]
    /\ since' = Never
    /\ phase' = [b \in Backups |-> "idle"]
    /\ name' = [b \in Backups |-> 0]
    /\ copy' = [b \in Backups |-> {}]
    /\ unhooked' = unhooked \cup (committed \ Backed)
    /\ UNCHANGED <<committed, files, content, clock, fails>>

Session(s) ==
    \/ \E k \in Offered : Begin(s, k)
    \/ Flush(s) \/ Bulk(s)
    \/ InsertNested(s) \/ InsertAlone(s) \/ Duplicate(s)
    \/ Commit(s) \/ Announce(s) \/ Fail(s)

Work(b) == Copy(b) \/ Seal(b) \/ Prune(b)

Next ==
    \/ \E s \in Sessions : Session(s)
    \/ RunScheduled
    \/ \E b \in Backups : RunDirect(b) \/ Work(b) \/ FailBackup(b)
    \/ PassTime
    \/ Restart

Spec == Init /\ [][Next]_vars

\* The scheduler polls, a backup goes on until it ends or fails, and time passes.
FairSpec ==
    /\ Spec
    /\ WF_vars(IsDue /\ RunScheduled)
    /\ \A b \in Backups : WF_vars(Work(b))
    /\ WF_vars(PassTime)

----------------------------------------------------------------------------
SessionTypeOK ==
    /\ stage \in [Sessions -> {"idle", "open", "releasing", "committing", "ended", "failed"}]
    /\ todo \in [Sessions -> Seq({"flush", "bulk", "insert", "row"})]
    /\ \A s \in Sessions : Len(todo[s]) <= 3
    /\ pending \in [Sessions -> SUBSET Writes]
    /\ flagged \in [Sessions -> BOOLEAN]
    /\ committed \subseteq Writes /\ unhooked \subseteq Writes

BackupTypeOK ==
    /\ since \in Time \cup {Never} /\ clock \in Time
    /\ phase \in [Backups -> {"idle", "named", "copied", "written"}]
    /\ name \in [Backups -> Time]
    /\ copy \in [Backups -> SUBSET Writes]
    /\ files \subseteq Time
    /\ content \in [Time -> SUBSET Writes]
    /\ fails \in Nat /\ boot \in Nat

TypeOK == SessionTypeOK /\ BackupTypeOK

\* The commit of w is about to be announced.
Announced(w) ==
    \E s \in Sessions :
        stage[s] \in {"releasing", "committing"} /\ flagged[s] /\ w \in pending[s]

\* The scheduled backup under way has w, or will have it.
UnderWay(w) ==
    \/ phase[Scheduled] = "named"
    \/ phase[Scheduled] \in {"copied", "written"} /\ w \in copy[Scheduled]

\* The flag, or what it set going, answers for w.
Remembered(w) == w \in Backed \/ since # Never \/ Announced(w) \/ UnderWay(w)

\* A committed write is in the newest backup, or the flag is up or about to be, or a backup
\* under way has it: it is never forgotten until tomorrow's backup (db.py:402-431,
\* backup_service.py:397-405).  There are four exceptions and no others: bulk statements,
\* which no hook sees; a crash; a scheduled backup that starts between a savepoint's release,
\* which used the session's flag up, and the commit it stood for; and a file of the same
\* second that is replaced by an older copy.
Covered == \A w \in committed \ unhooked : Remembered(w)

\* "triggered by the scheduler within ~2 min after any ledger/config write (dirty flag via
\* SQLAlchemy commit hook)" (docs/v6_progress.md:75), without the exceptions.
WritesRemembered == \A w \in committed : Remembered(w)

\* "at least nightly" (backup_service.py:21): whatever the flag missed, bulk statements and
\* crashes included, every write gets into the newest backup.
BackedUp ==
    \A w \in Writes : w \in committed /\ clock <= MaxTime - Nightly ~> w \in Backed

\* "one ledger-tier session per request (commit on success, rollback on error)"
\* (api/deps.py:3): a request that failed left nothing in the database.
RolledBack == \A s \in Sessions, w \in committed : stage[s] = "failed" => w[1] # s
=============================================================================
