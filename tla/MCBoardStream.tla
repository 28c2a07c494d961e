--------------------------- MODULE MCBoardStream ---------------------------
(* Instances of BoardStream for TLC. *)
EXTENDS BoardStream, TLC

Symmetry == Permutations(Stream)
=============================================================================
