-------------------------- MODULE BackupProofs --------------------------
(***************************************************************************)
(* Proofs about Backup: types, and that the dirty flag forgets nothing     *)
(* but the writes whose ways past it are named.                            *)
(***************************************************************************)
EXTENDS Backup, FiniteSetTheorems, SequenceTheorems, TLAPS

Statements == {"flush", "bulk", "insert", "row"}

\* A script is at most three statements long.
LEMMA ScriptType ==
    \A k \in Offered : Script[k] \in Seq(Statements) /\ Len(Script[k]) <= 3
  <1> SUFFICES ASSUME NEW k \in Offered
               PROVE  Script[k] \in Seq(Statements) /\ Len(Script[k]) <= 3
    OBVIOUS
  <1>1. k \in {"edit", "forget", "create", "newSymbol", "routed", "import"}
    BY SettingsAssumption DEF Script
  <1>2. /\ Script["edit"] = <<"flush">> /\ Script["forget"] = <<"bulk">>
        /\ Script["create"] = <<"insert">> /\ Script["newSymbol"] = <<"flush", "insert">>
        /\ Script["routed"] = <<"insert", "flush", "insert">>
        /\ Script["import"] = <<"flush", "row", "flush">>
    BY DEF Script
  <1>3. ASSUME NEW x \in Statements, NEW y \in Statements, NEW z \in Statements
        PROVE  /\ <<x>> \in Seq(Statements) /\ Len(<<x>>) <= 3
               /\ <<x, y>> \in Seq(Statements) /\ Len(<<x, y>>) <= 3
               /\ <<x, y, z>> \in Seq(Statements) /\ Len(<<x, y, z>>) <= 3
    OBVIOUS
  <1>4. {"flush", "bulk", "insert", "row"} = Statements
    BY DEF Statements
  <1> QED
    BY <1>1, <1>2, <1>3, <1>4

\* What a session writes next is a write.
LEMMA WriteType ==
    ASSUME SessionTypeOK, NEW s \in Sessions, NEW Xs, Sends(s, Xs)
    PROVE  /\ Write(s) \in Writes
           /\ todo' \in [Sessions -> Seq(Statements)]
           /\ \A o \in Sessions : Len(todo'[o]) <= 3
  <1>1. todo[s] \in Seq(Statements) /\ Len(todo[s]) <= 3 /\ todo[s] # <<>>
    BY DEF SessionTypeOK, Sends, Statements
  <1>2. Len(todo[s]) \in 1 .. 3
    <2>1. Len(todo[s]) \in Nat /\ Len(todo[s]) # 0
      BY <1>1, EmptySeq
    <2>2. Len(todo[s]) <= 3
      BY DEF SessionTypeOK
    <2>3. \A n \in Nat : n # 0 /\ n <= 3 => n \in 1 .. 3
      OBVIOUS
    <2> HIDE DEF Statements
    <2> QED
      BY <2>1, <2>2, <2>3
  <1>3. Tail(todo[s]) \in Seq(Statements) /\ Len(Tail(todo[s])) <= 3
    BY <1>1
  <1> QED
    BY <1>2, <1>3 DEF SessionTypeOK, Sends, Statements, Write, Writes

LEMMA MarkedType == BackupTypeOK => Marked \in Time /\ Marked # Never
  BY SettingsAssumption DEF BackupTypeOK, Marked, Time

\* Everything starts with its type.
LEMMA TypeInit == Init => TypeOK
  <1> SUFFICES ASSUME Init PROVE TypeOK
    OBVIOUS
  <1>1. 0 \in Time
    BY SettingsAssumption DEF Time
  <1>2. <<>> \in Seq(Statements) /\ Len(<<>>) <= 3
    OBVIOUS
  <1>3. SessionTypeOK
    BY <1>2 DEF Init, SessionTypeOK, Statements
  <1>4. BackupTypeOK
    BY <1>1 DEF Init, BackupTypeOK
  <1> QED
    BY <1>3, <1>4 DEF TypeOK

\* The sessions' variables keep their types.
LEMMA SessionTypeStep == TypeOK /\ [Next]_vars => SessionTypeOK'
  <1> SUFFICES ASSUME SessionTypeOK, BackupTypeOK, [Next]_vars PROVE SessionTypeOK'
    BY DEF TypeOK
  <1>1. ASSUME NEW s \in Sessions, NEW k \in Offered, Begin(s, k) PROVE SessionTypeOK'
    BY <1>1, ScriptType DEF Begin, SessionTypeOK, Statements
  <1>2. ASSUME NEW s \in Sessions, Flush(s) \/ Bulk(s) \/ InsertNested(s) \/ InsertAlone(s) \/ Duplicate(s)
        PROVE  SessionTypeOK'
    <2>1. PICK Xs : Sends(s, Xs)
      BY <1>2 DEF Flush, Bulk, InsertNested, InsertAlone, Duplicate
    <2>2. Write(s) \in Writes /\ todo' \in [Sessions -> Seq(Statements)]
          /\ \A o \in Sessions : Len(todo'[o]) <= 3
      BY <2>1, WriteType
    <2>3. stage' \in [Sessions -> {"idle", "open", "releasing", "committing", "ended", "failed"}]
          /\ flagged' \in [Sessions -> BOOLEAN]
      BY <1>2 DEF Flush, Bulk, InsertNested, InsertAlone, Duplicate, SessionTypeOK
    <2>4. pending' \in [Sessions -> SUBSET Writes]
      BY <1>2, <2>2 DEF Flush, Bulk, InsertNested, InsertAlone, Duplicate, SessionTypeOK
    <2>5. committed' \subseteq Writes /\ unhooked' \subseteq Writes
      BY <1>2, <2>2 DEF Flush, Bulk, InsertNested, InsertAlone, Duplicate, SessionTypeOK
    <2> QED
      BY <2>2, <2>3, <2>4, <2>5 DEF SessionTypeOK, Statements
  <1>3. ASSUME NEW s \in Sessions, Commit(s) \/ Announce(s) \/ Fail(s) PROVE SessionTypeOK'
    <2>1. <<>> \in Seq(Statements) /\ Len(<<>>) <= 3
      OBVIOUS
    <2> QED
      BY <1>3, <2>1 DEF Commit, Announce, Fail, SessionTypeOK, Statements
  <1>4. ASSUME Restart PROVE SessionTypeOK'
    <2>1. <<>> \in Seq(Statements) /\ Len(<<>>) <= 3
      OBVIOUS
    <2> QED
      BY <1>4, <2>1 DEF Restart, SessionTypeOK, Statements
  <1>5. ASSUME UNCHANGED <<sessionVars, committed>>, unhooked' \subseteq Writes PROVE SessionTypeOK'
    BY <1>5 DEF sessionVars, SessionTypeOK
  <1>6. PassTime \/ UNCHANGED vars => UNCHANGED <<sessionVars, committed>> /\ unhooked' \subseteq Writes
    BY DEF PassTime, vars, SessionTypeOK
  <1>7. ASSUME NEW b \in Backups, RunDirect(b) \/ Work(b) \/ FailBackup(b)
        PROVE  UNCHANGED <<sessionVars, committed>> /\ unhooked' \subseteq Writes
    BY <1>7 DEF RunDirect, Name, Work, Copy, Seal, Prune, FailBackup, BackupTypeOK, SessionTypeOK
  <1>8. CASE RunScheduled
    <2>1. UNCHANGED <<sessionVars, committed>> /\ unhooked' \subseteq Writes
      BY <1>8 DEF RunScheduled, Name, Unannounced, SessionTypeOK
    <2> QED
      BY <2>1, <1>5
  <1> QED
    BY <1>1, <1>2, <1>3, <1>4, <1>5, <1>6, <1>7, <1>8 DEF Next, Session

\* The flag, the clock, the threads and the files keep their types.
LEMMA BackupTypeStep == TypeOK /\ [Next]_vars => BackupTypeOK'
  <1> SUFFICES ASSUME SessionTypeOK, BackupTypeOK, [Next]_vars PROVE BackupTypeOK'
    BY DEF TypeOK
  <1>1. ASSUME NEW s \in Sessions, Session(s) PROVE BackupTypeOK'
    <2>1. since' \in {since, Marked}
      BY <1>1 DEF Session, Begin, Flush, Bulk, InsertNested, InsertAlone, Duplicate, Commit,
         Announce, Fail
    <2>2. UNCHANGED <<backupVars, clock, fails, boot>>
      BY <1>1 DEF Session, Begin, Flush, Bulk, InsertNested, InsertAlone, Duplicate, Commit,
         Announce, Fail
    <2> QED
      BY <2>1, <2>2, MarkedType DEF BackupTypeOK, backupVars
  <1>2. ASSUME NEW b \in Backups, Name(b), since' \in {since, Never} PROVE BackupTypeOK'
    BY <1>2 DEF Name, BackupTypeOK
  <1>3. ASSUME NEW b \in Backups, Copy(b) PROVE BackupTypeOK'
    BY <1>3 DEF Copy, BackupTypeOK, SessionTypeOK
  <1>4. ASSUME NEW b \in Backups, Seal(b) PROVE BackupTypeOK'
    BY <1>4 DEF Seal, BackupTypeOK
  <1>5. ASSUME NEW b \in Backups, Prune(b) PROVE BackupTypeOK'
    <2>1. files' \subseteq files
      BY <1>5 DEF Prune, Kept
    <2>2. 0 \in Time
      BY SettingsAssumption DEF Time
    <2> QED
      BY <1>5, <2>1, <2>2 DEF Prune, BackupTypeOK
  <1>6. ASSUME NEW b \in Backups, FailBackup(b) PROVE BackupTypeOK'
    <2>1. 0 \in Time
      BY SettingsAssumption DEF Time
    <2> QED
      BY <1>6, <2>1, MarkedType DEF FailBackup, BackupTypeOK
  <1>7. ASSUME PassTime PROVE BackupTypeOK'
    BY <1>7, SettingsAssumption DEF PassTime, BackupTypeOK, Time, backupVars
  <1>8. ASSUME Restart PROVE BackupTypeOK'
    <2>1. 0 \in Time
      BY SettingsAssumption DEF Time
    <2> QED
      BY <1>8, <2>1 DEF Restart, BackupTypeOK
  <1>9. CASE UNCHANGED vars
    BY <1>9 DEF vars, backupVars, BackupTypeOK
  <1>10. CASE RunScheduled
    BY <1>10, <1>2 DEF RunScheduled, Backups
  <1>11. ASSUME NEW b \in Backups, RunDirect(b) PROVE BackupTypeOK'
    BY <1>11, <1>2 DEF RunDirect
  <1> QED
    BY <1>1, <1>3, <1>4, <1>5, <1>6, <1>7, <1>8, <1>9, <1>10, <1>11 DEF Next, Work

\* Every variable keeps its type (backup_service.py, db.py's dirty flag).
THEOREM BackupTypes == Spec => []TypeOK
  <1>1. TypeOK /\ [Next]_vars => TypeOK'
    BY SessionTypeStep, BackupTypeStep DEF TypeOK
  <1> QED
    BY <1>1, TypeInit, PTL DEF Spec

----------------------------------------------------------------------------
(***************************************************************************)
(* The flag.                                                               *)
(***************************************************************************)
\* What may be left of a script.
Rest == {<<>>, <<"flush">>, <<"row", "flush">>, <<"flush", "row", "flush">>, <<"bulk">>, <<"insert">>,
         <<"flush", "insert">>, <<"insert", "flush", "insert">>}

\* What an open session wrote is flagged, or the mark is up that its savepoint left, or a
\* flush it still sends will flag it; or it is among the exceptions.
Vouched(s) ==
    /\ todo[s] \in Rest
    /\ stage[s] = "idle" => pending[s] = {}
    /\ stage[s] = "open" => \/ pending[s] \subseteq unhooked
                            \/ flagged[s]
                            \/ since # Never
                            \/ todo[s] \in {<<"flush">>, <<"row", "flush">>}
    /\ stage[s] = "open" /\ todo[s] = <<"bulk">> => pending[s] = {}

\* Names are of the past, and a directory that has files has a newest one.
Dated ==
    /\ \A n \in files : n <= clock
    /\ \A b \in Backups : name[b] <= clock
    /\ files # {} => Newest # {}

\* n is the name of a file that has w, or of the scheduled backup under way that will:
\* and so has everything that will replace it as the newest.
Carries(n, w) ==
    /\ \/ n \in files /\ w \in content[n]
       \/ phase[Scheduled] = "named" /\ name[Scheduled] = n
       \/ phase[Scheduled] = "copied" /\ name[Scheduled] = n /\ w \in copy[Scheduled]
    /\ \A m \in files : m > n => w \in content[m]
    /\ \A b \in Backups : phase[b] = "copied" /\ name[b] > n => w \in copy[b]

Carried(w) == \E n \in Time : Carries(n, w)

NotForgotten == \A w \in committed \ unhooked : since # Never \/ Announced(w) \/ Carried(w)

FlagInv ==
    /\ TypeOK
    /\ \A s \in Sessions : Vouched(s)
    /\ Dated
    /\ NotForgotten
\* What is left of a script after its next statement.
LEMMA Rests ==
    /\ Head(<<"flush">>) = "flush" /\ Tail(<<"flush">>) = <<>>
    /\ Head(<<"row", "flush">>) = "row" /\ Tail(<<"row", "flush">>) = <<"flush">>
    /\ Head(<<"flush", "row", "flush">>) = "flush"
    /\ Tail(<<"flush", "row", "flush">>) = <<"row", "flush">>
    /\ Head(<<"bulk">>) = "bulk" /\ Tail(<<"bulk">>) = <<>>
    /\ Head(<<"insert">>) = "insert" /\ Tail(<<"insert">>) = <<>>
    /\ Head(<<"flush", "insert">>) = "flush" /\ Tail(<<"flush", "insert">>) = <<"insert">>
    /\ Head(<<"insert", "flush", "insert">>) = "insert"
    /\ Tail(<<"insert", "flush", "insert">>) = <<"flush", "insert">>
  OBVIOUS

\* The bulk statement and an ended script are unlike what the others leave.
LEMMA RestsDiffer ==
    /\ <<>> # <<"flush">> /\ <<>> # <<"row", "flush">> /\ <<>> # <<"bulk">>
    /\ <<"bulk">> # <<"flush">> /\ <<"bulk">> # <<"row", "flush">> /\ <<"bulk">> # <<"insert">>
    /\ <<"bulk">> # <<"flush", "insert">>
  OBVIOUS

\* The scripts of the requests.
LEMMA Scripts ==
    ASSUME NEW k \in Offered
    PROVE  Script[k] \in Rest
  <1>1. k \in {"edit", "forget", "create", "newSymbol", "routed", "import"}
    BY SettingsAssumption DEF Script
  <1>2. /\ Script["edit"] = <<"flush">> /\ Script["forget"] = <<"bulk">>
        /\ Script["create"] = <<"insert">> /\ Script["newSymbol"] = <<"flush", "insert">>
        /\ Script["routed"] = <<"insert", "flush", "insert">>
        /\ Script["import"] = <<"flush", "row", "flush">>
    BY DEF Script
  <1> QED
    BY <1>1, <1>2 DEF Rest

\* The session that acts keeps what is said of it, and the others are left alone.
LEMMA VouchedStep ==
    ASSUME TypeOK, \A s \in Sessions : Vouched(s), [Next]_vars,
           NEW s \in Sessions
    PROVE  Vouched(s)'
  <1>0. Marked # Never
    BY MarkedType DEF TypeOK
  <1>1. ASSUME NEW o \in Sessions, o # s, Session(o) PROVE Vouched(s)'
    <2>1. /\ stage'[s] = stage[s] /\ todo'[s] = todo[s]
          /\ pending'[s] = pending[s] /\ flagged'[s] = flagged[s]
      BY <1>1 DEF TypeOK, SessionTypeOK, Session, Begin, Sends, Flush, Bulk, InsertNested,
         InsertAlone, Duplicate, Commit, Announce, Fail
    <2>2. since' = since \/ since' # Never
      BY <1>0, <1>1 DEF Session, Begin, Flush, Bulk, InsertNested, InsertAlone, Duplicate, Commit,
         Announce, Fail
    <2>3. unhooked \subseteq unhooked' \/ since' # Never
      BY <1>0, <1>1 DEF Session, Begin, Flush, Bulk, InsertNested, InsertAlone, Duplicate, Commit,
         Announce, Fail
    <2> QED
      BY <2>1, <2>2, <2>3 DEF Vouched
  <1>2. ASSUME NEW k \in Offered, Begin(s, k) PROVE Vouched(s)'
    <2>1. todo'[s] = Script[k] /\ pending'[s] = {} /\ stage'[s] = "open"
      BY <1>2 DEF Begin, TypeOK, SessionTypeOK, Vouched
    <2> QED
      BY <2>1, Scripts DEF Vouched
  <1>3. CASE Flush(s)
    <2>1. /\ stage[s] = "open" /\ todo[s] # <<>> /\ Head(todo[s]) = "flush"
          /\ stage'[s] = "open" /\ todo'[s] = Tail(todo[s]) /\ flagged'[s] = TRUE
      BY <1>3 DEF Flush, Sends, TypeOK, SessionTypeOK
    <2>2. todo'[s] \in {<<>>, <<"row", "flush">>, <<"insert">>}
      BY <2>1, Rests DEF Vouched, Rest
    <2> QED
      BY <2>1, <2>2, RestsDiffer DEF Vouched, Rest
  <1>4. CASE Bulk(s)
    <2>1. /\ stage[s] = "open" /\ todo[s] # <<>> /\ Head(todo[s]) = "bulk"
          /\ stage'[s] = "open" /\ todo'[s] = Tail(todo[s])
          /\ pending'[s] = pending[s] \cup {Write(s)} /\ unhooked' = unhooked \cup {Write(s)}
      BY <1>4 DEF Bulk, Sends, TypeOK, SessionTypeOK
    <2>2. todo[s] = <<"bulk">> /\ todo'[s] = <<>>
      BY <2>1, Rests DEF Vouched, Rest
    <2>3. pending[s] = {}
      BY <2>1, <2>2 DEF Vouched
    <2> QED
      BY <2>1, <2>2, <2>3, RestsDiffer DEF Vouched, Rest
  <1>5. CASE InsertNested(s)
    <2>1. /\ stage[s] = "open" /\ todo[s] # <<>> /\ Head(todo[s]) \in {"insert", "row"}
          /\ stage'[s] = "open" /\ todo'[s] = Tail(todo[s]) /\ since' # Never
      BY <1>0, <1>5 DEF InsertNested, Sends, TypeOK, SessionTypeOK
    <2>2. todo'[s] \in {<<>>, <<"flush">>, <<"flush", "insert">>}
      BY <2>1, Rests DEF Vouched, Rest
    <2> QED
      BY <2>1, <2>2, RestsDiffer DEF Vouched, Rest
  <1>6. CASE InsertAlone(s)
    <2>1. /\ stage[s] = "open" /\ todo[s] # <<>> /\ Head(todo[s]) = "insert"
          /\ stage'[s] = "releasing" /\ todo'[s] = Tail(todo[s])
      BY <1>6 DEF InsertAlone, Sends, TypeOK, SessionTypeOK
    <2>2. todo'[s] \in {<<>>, <<"flush", "insert">>}
      BY <2>1, Rests DEF Vouched, Rest
    <2> QED
      BY <2>1, <2>2 DEF Vouched, Rest
  <1>7. CASE Duplicate(s)
    <2>1. /\ stage[s] = "open" /\ todo[s] # <<>> /\ Head(todo[s]) = "row"
          /\ stage'[s] = "open" /\ todo'[s] = Tail(todo[s])
      BY <1>7 DEF Duplicate, Sends, TypeOK, SessionTypeOK
    <2>2. todo'[s] = <<"flush">>
      BY <2>1, Rests DEF Vouched, Rest
    <2> QED
      BY <2>1, <2>2, RestsDiffer DEF Vouched, Rest
  <1>8. CASE Commit(s)
    <2>1. stage'[s] = "committing" /\ todo'[s] = todo[s]
      BY <1>8 DEF Commit, TypeOK, SessionTypeOK
    <2> QED
      BY <2>1 DEF Vouched
  <1>9. CASE Announce(s)
    <2>1. /\ todo'[s] = todo[s] /\ pending'[s] = {}
          /\ stage'[s] = IF stage[s] = "releasing" THEN "open" ELSE "ended"
      BY <1>9 DEF Announce, TypeOK, SessionTypeOK
    <2> QED
      BY <2>1 DEF Vouched
  <1>10. CASE Fail(s)
    <2>1. todo'[s] = <<>> /\ pending'[s] = {} /\ stage'[s] = "failed"
      BY <1>10 DEF Fail, TypeOK, SessionTypeOK
    <2> QED
      BY <2>1 DEF Vouched, Rest
  <1>11. CASE Restart
    <2>1. todo'[s] = <<>> /\ pending'[s] = {} /\ stage'[s] \in {"idle", "ended"}
      BY <1>11 DEF Restart
    <2> QED
      BY <2>1 DEF Vouched, Rest
  <1>12. ASSUME UNCHANGED sessionVars, unhooked \subseteq unhooked', since' = since \/ since' # Never
         PROVE  Vouched(s)'
    BY <1>12 DEF sessionVars, Vouched
  <1>13. PassTime \/ UNCHANGED vars => UNCHANGED <<sessionVars, unhooked, since>>
    BY DEF PassTime, vars
  <1>14. ASSUME NEW b \in Backups, RunDirect(b) \/ Work(b) \/ FailBackup(b)
         PROVE  UNCHANGED sessionVars /\ unhooked \subseteq unhooked' /\ (since' = since \/ since' # Never)
    BY <1>0, <1>14 DEF RunDirect, Name, Work, Copy, Seal, Prune, FailBackup
  <1>16. CASE RunScheduled
    <2>1. UNCHANGED sessionVars /\ unhooked' = unhooked \cup Unannounced
      BY <1>16 DEF RunScheduled, Name
    <2>2. stage[s] = "open" /\ ~ flagged[s] => pending[s] \subseteq Unannounced
      BY DEF Unannounced
    <2> QED
      BY <2>1, <2>2 DEF Vouched, sessionVars
  <1>15. ASSUME Session(s) PROVE Vouched(s)'
    BY <1>15, <1>2, <1>3, <1>4, <1>5, <1>6, <1>7, <1>8, <1>9, <1>10 DEF Session
  <1> QED
    BY <1>1, <1>11, <1>12, <1>13, <1>14, <1>15, <1>16 DEF Next

\* The newest file outlives a prune: it is the newest of its period, and no newer period
\* has any.
LEMMA NewestKept ==
    ASSUME TypeOK, NEW n \in Newest
    PROVE  n \in Kept(files)
  <1>1. n \in files /\ \A m \in files : m <= n
    BY DEF Newest
  <1>2. PICK p \in Retention : p.keep > 0
    BY RetentionAssumption
  <1>3. {k \in files : k > n} = {}
    <2>1. files \subseteq Int /\ n \in Int
      <3>1. files \subseteq Time
        BY DEF TypeOK, BackupTypeOK
      <3>2. Time \subseteq Int
        BY DEF Time
      <3> QED
        BY <1>1, <3>1, <3>2
    <2>2. \A k \in files : ~ (k > n)
      BY <1>1, <2>1
    <2> QED
      BY <2>2
  <1>4. {m \div p.every : m \in {k \in files : k > n}} = {}
    BY <1>3
  <1>5. Cardinality({m \div p.every : m \in {k \in files : k > n}}) < p.keep
    BY <1>2, <1>4, FS_EmptySet
  <1> QED
    BY <1>1, <1>5 DEF Kept

\* Names stay in the past, and some file stays the newest.
LEMMA DatedStep == TypeOK /\ Dated /\ [Next]_vars => Dated'
  <1> SUFFICES ASSUME TypeOK, Dated, [Next]_vars PROVE Dated'
    OBVIOUS
  <1> USE DEF Time
  <1>1. CASE UNCHANGED <<files, name, clock>>
    BY <1>1 DEF Dated, Newest
  <1>2. ASSUME NEW s \in Sessions, Session(s) PROVE UNCHANGED <<files, name, clock>>
    BY <1>2 DEF Session, Begin, Flush, Bulk, InsertNested, InsertAlone, Duplicate, Commit,
       Announce, Fail, backupVars
  <1>3. ASSUME NEW b \in Backups, Name(b) PROVE Dated'
    BY <1>3 DEF Name, Dated, Newest, TypeOK, BackupTypeOK
  <1>4. ASSUME NEW b \in Backups, Copy(b) PROVE UNCHANGED <<files, name, clock>>
    BY <1>4 DEF Copy
  <1>5. ASSUME NEW b \in Backups, Seal(b) PROVE Dated'
    <2>1. name[b] \in Time /\ name[b] <= clock
      BY DEF TypeOK, BackupTypeOK, Dated
    <2>2. files' = files \cup {name[b]} /\ UNCHANGED <<name, clock>>
      BY <1>5 DEF Seal
    <2>3. CASE files = {}
      <3>1. name[b] \in Newest'
        BY <2>1, <2>2, <2>3 DEF Newest
      <3> QED
        BY <2>1, <2>2, <2>3, <3>1 DEF Dated
    <2>4. CASE files # {}
      <3>1. PICK n \in files : \A m \in files : m <= n
        BY <2>4 DEF Dated, Newest
      <3>2. n \in Time
        BY <3>1 DEF TypeOK, BackupTypeOK
      <3>3. IF name[b] <= n THEN n \in Newest' ELSE name[b] \in Newest'
        BY <2>1, <2>2, <3>1, <3>2, SettingsAssumption DEF Newest, TypeOK, BackupTypeOK
      <3> QED
        BY <2>1, <2>2, <3>3 DEF Dated
    <2> QED
      BY <2>3, <2>4
  <1>6. ASSUME NEW b \in Backups, Prune(b) PROVE Dated'
    <2>1. files' = Kept(files) /\ files' \subseteq files /\ clock' = clock
      BY <1>6 DEF Prune, Kept
    <2>2. \A c \in Backups : name'[c] <= clock
      BY <1>6 DEF Prune, TypeOK, BackupTypeOK, Dated
    <2>3. ASSUME files' # {} PROVE Newest' # {}
      <3>1. PICK n : n \in Newest
        BY <2>1, <2>3 DEF Dated
      <3>2. n \in files'
        BY <2>1, <3>1, NewestKept
      <3> QED
        BY <2>1, <3>1, <3>2 DEF Newest
    <2> QED
      BY <2>1, <2>2, <2>3 DEF Dated
  <1>7. ASSUME NEW b \in Backups, FailBackup(b) PROVE Dated'
    BY <1>7 DEF FailBackup, Dated, Newest, TypeOK, BackupTypeOK
  <1>8. CASE PassTime
    <2>1. clock' = clock + 1 /\ UNCHANGED <<files, name>>
      BY <1>8 DEF PassTime, backupVars
    <2>2. clock \in Int /\ files \subseteq Int /\ name \in [Backups -> Int]
      BY SettingsAssumption DEF TypeOK, BackupTypeOK
    <2> QED
      BY <2>1, <2>2 DEF Dated, Newest
  <1>9. CASE Restart
    BY <1>9 DEF Restart, Dated, Newest, TypeOK, BackupTypeOK
  <1>10. UNCHANGED vars => UNCHANGED <<files, name, clock>>
    BY DEF vars, backupVars
  <1> QED
    BY <1>1, <1>2, <1>3, <1>4, <1>5, <1>6, <1>7, <1>8, <1>9, <1>10, SettingsAssumption
    DEF Next, RunScheduled, RunDirect, Work, Backups
\* A backup thread loses nothing that is carried, unless the scheduled one fails, or an
\* older copy replaces the file.
LEMMA CarriedStep ==
    ASSUME TypeOK, Dated, NEW w \in committed, Carried(w),
           NEW b \in Backups, RunDirect(b) \/ Work(b) \/ (FailBackup(b) /\ b # Scheduled)
    PROVE  Carried(w)' \/ w \in unhooked'
  <1>1. PICK n \in Time : Carries(n, w)
    BY DEF Carried
  <1> USE DEF Backups, TypeOK, BackupTypeOK
  <1>2. CASE RunDirect(b)
    <2>1. b # Scheduled
      BY <1>2, SettingsAssumption DEF RunDirect
    <2>2. Carries(n, w)'
      BY <1>1, <1>2, <2>1 DEF RunDirect, Name, Carries
    <2> QED
      BY <2>2 DEF Carried
  <1>3. CASE Copy(b)
    <2>1. Carries(n, w)'
      BY <1>1, <1>3 DEF Copy, Carries
    <2> QED
      BY <2>1 DEF Carried
  <1>4. CASE Seal(b)
    <2>1. /\ phase[b] = "copied" /\ phase' = [phase EXCEPT ![b] = "written"]
          /\ files' = files \cup {name[b]}
          /\ content' = [content EXCEPT ![name[b]] = copy[b]]
          /\ name' = name /\ copy' = copy /\ unhooked' = unhooked \cup (content[name[b]] \ copy[b])
      BY <1>4 DEF Seal
    <2>2. n \in Int /\ name[b] \in Int /\ name[b] \in Time
      BY SettingsAssumption DEF Time
    <2>3. name[b] > n => w \in copy[b]
      BY <1>1, <2>1 DEF Carries
    <2>4. \A m \in files' : m > n => w \in content'[m]
      BY <1>1, <2>1, <2>2, <2>3 DEF Carries
    <2>5. \A c \in Backups : phase'[c] = "copied" /\ name'[c] > n => w \in copy'[c]
      BY <1>1, <2>1 DEF Carries
    <2>6. CASE n \in files /\ w \in content[n]
      <3>1. CASE name[b] = n /\ w \notin copy[b]
        BY <2>1, <2>6, <3>1
      <3>2. CASE ~ (name[b] = n /\ w \notin copy[b])
        <4>1. n \in files' /\ w \in content'[n]
          BY <2>1, <2>2, <2>6, <3>2
        <4> QED
          BY <2>4, <2>5, <4>1 DEF Carried, Carries
      <3> QED
        BY <3>1, <3>2
    <2>7. CASE phase[Scheduled] = "named" /\ name[Scheduled] = n
      <3>1. phase'[Scheduled] = "named" /\ name'[Scheduled] = n
        BY <2>1, <2>7
      <3> QED
        BY <2>4, <2>5, <3>1 DEF Carried, Carries
    <2>8. CASE phase[Scheduled] = "copied" /\ name[Scheduled] = n /\ w \in copy[Scheduled]
      <3>1. CASE b = Scheduled
        <4>1. n \in files' /\ w \in content'[n]
          BY <2>1, <2>8, <3>1
        <4> QED
          BY <2>4, <2>5, <4>1 DEF Carried, Carries
      <3>2. CASE b # Scheduled
        <4>1. phase'[Scheduled] = "copied" /\ name'[Scheduled] = n /\ w \in copy'[Scheduled]
          BY <2>1, <2>8, <3>2
        <4> QED
          BY <2>4, <2>5, <4>1 DEF Carried, Carries
      <3> QED
        BY <3>1, <3>2
    <2> QED
      BY <1>1, <2>6, <2>7, <2>8 DEF Carries
  <1>5. CASE Prune(b)
    <2>1. /\ phase[b] = "written" /\ phase' = [phase EXCEPT ![b] = "idle"]
          /\ files' = Kept(files) /\ files' \subseteq files
          /\ content' = [m \in Time |-> IF m \in files' THEN content[m] ELSE {}]
          /\ name' = [name EXCEPT ![b] = 0] /\ copy' = [copy EXCEPT ![b] = {}]
      BY <1>5 DEF Prune, Kept
    <2>2. CASE ~ (n \in files /\ w \in content[n])
      <3>1. \A m \in files' : m > n => w \in content'[m]
        BY <1>1, <2>1 DEF Carries
      <3>2. \A c \in Backups : phase'[c] = "copied" /\ name'[c] > n => w \in copy'[c]
        BY <1>1, <2>1 DEF Carries
      <3>3. \/ phase'[Scheduled] = "named" /\ name'[Scheduled] = n
            \/ phase'[Scheduled] = "copied" /\ name'[Scheduled] = n /\ w \in copy'[Scheduled]
        BY <1>1, <2>1, <2>2 DEF Carries
      <3> QED
        BY <3>1, <3>2, <3>3 DEF Carried, Carries
    <2>3. CASE n \in files /\ w \in content[n]
      <3>1. PICK m \in Newest : TRUE
        BY <2>3 DEF Dated
      <3>2. m \in Kept(files)
        BY <3>1, NewestKept
      <3>3. m \in files /\ \A k \in files : k <= m
        BY <3>1 DEF Newest
      <3>4. m \in Int /\ n \in Int /\ name \in [Backups -> Int] /\ files \subseteq Int
        BY <3>3, SettingsAssumption DEF Time
      <3>5. m >= n
        BY <2>3, <3>3, <3>4
      <3>6. w \in content[m]
        BY <1>1, <2>3, <3>3, <3>4, <3>5 DEF Carries
      <3>7. m \in files' /\ w \in content'[m]
        BY <2>1, <3>2, <3>3, <3>6
      <3>8. \A k \in files' : ~ (k > m)
        BY <2>1, <3>3, <3>4
      <3>9. \A c \in Backups : phase'[c] = "copied" /\ name'[c] > m => w \in copy'[c]
        BY <1>1, <2>1, <3>4, <3>5 DEF Carries
      <3> QED
        BY <3>3, <3>7, <3>8, <3>9 DEF Carried, Carries
    <2> QED
      BY <2>2, <2>3
  <1>6. CASE FailBackup(b) /\ b # Scheduled
    <2>1. Carries(n, w)'
      BY <1>1, <1>6 DEF FailBackup, Carries
    <2> QED
      BY <2>1 DEF Carried
  <1> QED
    BY <1>2, <1>3, <1>4, <1>5, <1>6 DEF Work

\* A scheduled backup that starts carries everything: no file and no copy is of a later
\* second.
LEMMA StartCarries ==
    ASSUME TypeOK, Dated, RunScheduled, NEW w
    PROVE  Carried(w)'
  <1> USE DEF TypeOK, BackupTypeOK
  <1>1. /\ phase' = [phase EXCEPT ![Scheduled] = "named"]
        /\ name' = [name EXCEPT ![Scheduled] = clock]
        /\ UNCHANGED <<copy, files, content, clock>>
    BY DEF RunScheduled, Name
  <1>2. Scheduled \in Backups /\ clock \in Time /\ clock \in Int
    BY SettingsAssumption DEF Backups, Time
  <1>3. name \in [Backups -> Int] /\ files \subseteq Int
    BY SettingsAssumption DEF Time
  <1>4. phase'[Scheduled] = "named" /\ name'[Scheduled] = clock
    BY <1>1, <1>2
  <1>5. \A m \in files' : ~ (m > clock)
    BY <1>1, <1>2, <1>3 DEF Dated
  <1>6. \A c \in Backups : phase'[c] = "copied" => phase[c] = "copied" /\ name'[c] = name[c]
    BY <1>1, <1>2
  <1>7. \A c \in Backups : ~ (phase'[c] = "copied" /\ name'[c] > clock)
    BY <1>1, <1>2, <1>3, <1>6 DEF Dated
  <1>8. Carries(clock, w)'
    BY <1>1, <1>4, <1>5, <1>7 DEF Carries
  <1> QED
    BY <1>1, <1>2, <1>8 DEF Carried
\* A session's step forgets nothing: what it commits it is about to announce, and what it
\* stops announcing it has marked.
LEMMA SessionForgetsNothing ==
    ASSUME TypeOK, \A s \in Sessions : Vouched(s), NotForgotten, NEW s \in Sessions, Session(s)
    PROVE  NotForgotten'
  <1> SUFFICES ASSUME NEW w \in committed' \ unhooked'
               PROVE  since' # Never \/ Announced(w)' \/ Carried(w)'
    BY DEF NotForgotten
  <1>1. /\ since' \in {since, Marked} /\ UNCHANGED <<backupVars, clock>>
        /\ unhooked \subseteq unhooked' \/ since' = Marked
    BY DEF Session, Begin, Flush, Bulk, InsertNested, InsertAlone, Duplicate, Commit, Announce, Fail
  <1>2. Carried(w) => Carried(w)'
    BY <1>1 DEF Carried, Carries, backupVars
  <1>3. since # Never => since' # Never
    BY <1>1, MarkedType DEF TypeOK
  <1>4. ASSUME NEW o \in Sessions, o # s
        PROVE  /\ stage'[o] = stage[o] /\ pending'[o] = pending[o] /\ flagged'[o] = flagged[o]
    BY <1>4 DEF TypeOK, SessionTypeOK, Session, Begin, Sends, Flush, Bulk, InsertNested,
       InsertAlone, Duplicate, Commit, Announce, Fail
  <1>7. CASE since' = Marked
    BY <1>7, MarkedType DEF TypeOK
  <1>5. CASE w \in committed /\ since' # Marked
    <2>1. since # Never \/ Announced(w) \/ Carried(w)
      BY <1>1, <1>5 DEF NotForgotten
    <2>2. ASSUME Announced(w) PROVE since' # Never \/ Announced(w)'
      <3>1. PICK o \in Sessions :
                stage[o] \in {"releasing", "committing"} /\ flagged[o] /\ w \in pending[o]
        BY <2>2 DEF Announced
      <3>2. CASE o # s
        BY <1>4, <3>1, <3>2 DEF Announced
      <3>3. CASE o = s
        <4>1. Announce(s)
          BY <3>1, <3>3 DEF Session, Begin, Sends, Flush, Bulk, InsertNested, InsertAlone,
             Duplicate, Commit, Fail
        <4>2. since' = Marked
          BY <3>1, <3>3, <4>1 DEF Announce
        <4> QED
          BY <4>2, MarkedType DEF TypeOK
      <3> QED
        BY <3>2, <3>3
    <2> QED
      BY <1>2, <1>3, <2>1, <2>2
  <1>6. CASE w \notin committed /\ since' # Marked
    <2>1. Commit(s) \/ InsertAlone(s)
      BY <1>6 DEF Session, Begin, Flush, Bulk, InsertNested, Duplicate, Announce, Fail
    <2>2. CASE Commit(s)
      <3>1. /\ stage[s] = "open" /\ todo[s] = <<>> /\ w \in pending[s]
            /\ stage'[s] = "committing" /\ pending' = pending /\ flagged' = flagged
            /\ since' = since /\ w \notin unhooked
        BY <1>6, <2>2 DEF Commit, TypeOK, SessionTypeOK
      <3>2. flagged[s] \/ since' # Never
        BY <3>1, RestsDiffer DEF Vouched
      <3> QED
        BY <3>1, <3>2 DEF Announced
    <2>3. CASE InsertAlone(s)
      <3>1. w = Write(s) /\ stage'[s] = "releasing" /\ flagged'[s] /\ pending'[s] = {Write(s)}
        BY <1>6, <2>3 DEF InsertAlone, TypeOK, SessionTypeOK
      <3> QED
        BY <3>1 DEF Announced
    <2> QED
      BY <2>1, <2>2, <2>3
  <1> QED
    BY <1>5, <1>6, <1>7

\* Nor does any other step.
LEMMA OthersForgetNothing ==
    ASSUME TypeOK, Dated, NotForgotten,
           RunScheduled \/ PassTime \/ Restart \/ UNCHANGED vars
             \/ \E b \in Backups : RunDirect(b) \/ Work(b) \/ FailBackup(b)
    PROVE  NotForgotten'
  <1>1. CASE RunScheduled
    BY <1>1, StartCarries DEF NotForgotten
  <1>2. CASE PassTime \/ UNCHANGED vars
    <2>1. UNCHANGED <<sessionVars, committed, since, backupVars, unhooked>>
      BY <1>2 DEF PassTime, vars
    <2> QED
      BY <2>1 DEF NotForgotten, Announced, Carried, Carries, sessionVars, backupVars
  <1>3. CASE Restart
    <2> SUFFICES ASSUME NEW w \in committed' \ unhooked' PROVE Carried(w)'
      BY DEF NotForgotten
    <2>1. w \in Backed
      BY <1>3 DEF Restart
    <2>2. PICK n \in Newest : w \in content[n]
      BY <2>1 DEF Backed
    <2>3. /\ n \in files /\ n \in Time /\ \A m \in files : m <= n
          /\ UNCHANGED <<files, content>> /\ phase' = [b \in Backups |-> "idle"]
      BY <1>3, <2>2 DEF Newest, Restart, TypeOK, BackupTypeOK
    <2>4. \A m \in files : ~ (m > n)
      <3>1. files \subseteq Int
        BY SettingsAssumption DEF TypeOK, BackupTypeOK, Time
      <3> QED
        BY <2>3, <3>1
    <2> QED
      BY <2>2, <2>3, <2>4 DEF Carried, Carries
  <1>4. ASSUME NEW b \in Backups, RunDirect(b) \/ Work(b) \/ FailBackup(b)
        PROVE  NotForgotten'
    <2>1. /\ UNCHANGED <<sessionVars, committed>> /\ unhooked \subseteq unhooked'
          /\ since' \in {since, Marked}
      BY <1>4 DEF RunDirect, Name, Work, Copy, Seal, Prune, FailBackup
    <2>2. CASE FailBackup(b) /\ b = Scheduled
      <3>1. since' # Never
        BY <2>2, MarkedType DEF FailBackup, TypeOK
      <3> QED
        BY <3>1 DEF NotForgotten
    <2>3. CASE ~ (FailBackup(b) /\ b = Scheduled)
      <3> SUFFICES ASSUME NEW w \in committed \ unhooked'
                   PROVE  since' # Never \/ Announced(w)' \/ Carried(w)'
        BY <2>1 DEF NotForgotten
      <3>0. w \notin unhooked
        BY <2>1
      <3>1. since # Never \/ Announced(w) \/ Carried(w)
        BY <3>0 DEF NotForgotten
      <3>2. since # Never => since' # Never
        BY <2>1, MarkedType DEF TypeOK
      <3>3. Announced(w) => Announced(w)'
        BY <2>1 DEF Announced, sessionVars
      <3>4. Carried(w) => Carried(w)'
        BY <1>4, <2>3, CarriedStep
      <3> QED
        BY <3>1, <3>2, <3>3, <3>4
    <2> QED
      BY <2>2, <2>3
  <1> QED
    BY <1>1, <1>2, <1>3, <1>4

LEMMA FlagInit == Init => FlagInv
  <1> SUFFICES ASSUME Init PROVE FlagInv
    OBVIOUS
  <1>1. \A s \in Sessions : Vouched(s)
    BY DEF Init, Vouched, Rest
  <1>2. Dated
    BY SettingsAssumption DEF Init, Dated
  <1>3. NotForgotten
    BY DEF Init, NotForgotten
  <1> QED
    BY <1>1, <1>2, <1>3, TypeInit DEF FlagInv

\* What is carried is in the newest file, or in the scheduled backup under way.
LEMMA FlagImpliesCovered == FlagInv => Covered
  <1> SUFFICES ASSUME FlagInv, NEW w \in committed \ unhooked, Carried(w)
               PROVE  w \in Backed \/ UnderWay(w)
    BY DEF FlagInv, NotForgotten, Covered, Remembered
  <1>1. PICK n \in Time : Carries(n, w)
    BY DEF Carried
  <1>2. CASE n \in files /\ w \in content[n]
    <2>1. PICK m \in Newest : TRUE
      BY <1>2 DEF FlagInv, Dated
    <2>2. m \in files /\ n \in Int /\ m \in Int /\ n <= m
      BY <1>2, <2>1, SettingsAssumption DEF Newest, FlagInv, TypeOK, BackupTypeOK, Time
    <2>3. w \in content[m]
      BY <1>1, <1>2, <2>2 DEF Carries
    <2> QED
      BY <2>1, <2>3 DEF Backed
  <1>3. CASE ~ (n \in files /\ w \in content[n])
    BY <1>1, <1>3 DEF Carries, UnderWay
  <1> QED
    BY <1>2, <1>3

\* For any number of sessions and backup threads and every kind of request: a committed
\* write is in the newest backup, or the flag or a backup under way answers for it, unless
\* it went past the flag in one of the four ways Covered names (db.py:402-431,
\* backup_service.py:397-405).
THEOREM FlagCoversWrites == Spec => []Covered
  <1>1. FlagInv /\ [Next]_vars => FlagInv'
    <2> SUFFICES ASSUME FlagInv, [Next]_vars PROVE FlagInv'
      OBVIOUS
    <2>1. TypeOK'
      BY SessionTypeStep, BackupTypeStep DEF TypeOK, FlagInv
    <2>2. ASSUME NEW s \in Sessions PROVE Vouched(s)'
      BY VouchedStep DEF FlagInv
    <2>3. Dated'
      BY DatedStep DEF FlagInv
    <2>4. NotForgotten'
      BY SessionForgetsNothing, OthersForgetNothing DEF Next, FlagInv
    <2> QED
      BY <2>1, <2>2, <2>3, <2>4 DEF FlagInv
  <1> QED
    BY <1>1, FlagInit, FlagImpliesCovered, PTL DEF Spec

=============================================================================
