----------------------------- MODULE MCWrites -----------------------------
(***************************************************************************)
(* Writes for TLC: two edits of rows and a create.                         *)
(***************************************************************************)
EXTENDS Writes, TLC

CONSTANTS edit1, edit2, create1

\* The two edits play the same part.
Symmetry == Permutations(Edits)
=============================================================================
