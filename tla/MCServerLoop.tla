----------------------------- MODULE MCServerLoop -----------------------------
(* Instances of ServerLoop for TLC. *)
EXTENDS ServerLoop

\* Cells and links are interchangeable (safety only).
Symmetry == Permutations(Slots) \cup Permutations(Links)
=============================================================================
