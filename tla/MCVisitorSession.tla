--------------------------- MODULE MCVisitorSession ---------------------------
(***************************************************************************)
(* VisitorSession for TLC.                                                 *)
(***************************************************************************)
EXTENDS VisitorSession, TLC

Interchangeable == Permutations(Visitor) \cup Permutations(Board)
=============================================================================
