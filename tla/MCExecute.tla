----------------------------- MODULE MCExecute -----------------------------
(***************************************************************************)
(* Constants for model checking Execute.                                   *)
(***************************************************************************)
EXTENDS Execute, TLC

CONSTANTS p1, p2

Symmetry == Permutations(Proc)

=============================================================================
