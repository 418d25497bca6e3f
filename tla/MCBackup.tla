---------------------------- MODULE MCBackup ----------------------------
EXTENDS Backup

\* The newest file of the last two seconds, and of the last four.
MCRetention == {[every |-> 2, keep |-> 1], [every |-> 4, keep |-> 1]}
\* Every kind but the routed transaction, which sends what a manual one and one of an
\* unknown instrument send, in a row.
MCOffered == {"edit", "forget", "create", "newSymbol", "import"}
MCNewSymbol == {"newSymbol"}
=============================================================================
