------------------------------ MODULE MCPulls ------------------------------
(***************************************************************************)
(* Instances of Pulls for TLC: a round of the dashboard beside the login   *)
(* warm-up, which goes through Tiingo and leaves a credit.                 *)
(***************************************************************************)
EXTENDS Pulls, TLC

CONSTANTS round, warmup, stock, fund

RoundAndWarmUp ==
    (round :> [want |-> Symbols, fx |-> TRUE, via |-> FALSE, keep |-> 0])
    @@ (warmup :> [want |-> {stock}, fx |-> FALSE, via |-> TRUE, keep |-> 1])
=============================================================================
