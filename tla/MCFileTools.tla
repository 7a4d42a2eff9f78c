----------------------------- MODULE MCFileTools -----------------------------
(***************************************************************************)
(* Instance of FileTools for TLC.                                          *)
(***************************************************************************)
EXTENDS FileTools, TLC

CONSTANTS p1, p2

\* The agents differ in nothing but their name.
Symmetry == Permutations(Procs)
=============================================================================
