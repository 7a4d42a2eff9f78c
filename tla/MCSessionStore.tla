--------------------------- MODULE MCSessionStore ---------------------------
(***************************************************************************)
(* Instances of SessionStore for TLC: two goroutines share one session and *)
(* a third has a session of its own, on the same file.                     *)
(***************************************************************************)
EXTENDS SessionStore

CONSTANTS s1, s2, g1, g2, g3

MCSessionOf == [g \in Goroutines |-> IF g = g3 THEN s2 ELSE s1]
=============================================================================
