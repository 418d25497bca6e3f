------------------------------ MODULE MCRounds ------------------------------
(***************************************************************************)
(* Instances of Rounds for TLC: two rounds whose awaits may be pending at  *)
(* the same time, one symbol, stamps of one or two instants.               *)
(***************************************************************************)
EXTENDS Rounds

CONSTANTS r1, r2, fund
=============================================================================
