---------------------------- MODULE MCToolGroup -----------------------------
(***************************************************************************)
(* Instance of ToolGroup for TLC.                                          *)
(***************************************************************************)
EXTENDS ToolGroup

\* No cap, and caps below, at and above the size of some group.
MCLimits == {-1, 0, 1, 2, 5}
=============================================================================
