--------------------------- MODULE MCReadCache ---------------------------
(***************************************************************************)
(* Instances of ReadCache for TLC.  The overview reads ledger and prices,  *)
(* the transaction list reads the ledger only; a request writes the        *)
(* ledger, a tick writes prices.                                           *)
(***************************************************************************)
EXTENDS ReadCache, TLC

CONSTANTS r1, r2, q1, j1, overview, transactions

OverviewReads == overview :> {"ledger", "prices"}
BothReads == OverviewReads @@ transactions :> {"ledger"}
LedgerWrites == {{"ledger"}}
PriceWrites == {{"prices"}}
=============================================================================
