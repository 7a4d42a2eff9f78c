------------------------------- MODULE MCBash -------------------------------
(***************************************************************************)
(* Instance of Bash for TLC.                                               *)
(***************************************************************************)
EXTENDS Bash, TLC

MCIntMin == -16
Symmetry == Permutations(Children)
=============================================================================
