----------------------------- MODULE MCMySocket -----------------------------
(* Small instances of MySocket for TLC. *)
EXTENDS MySocket, TLC

MCFds == 3..5

Symmetry == Permutations(Objects)
=============================================================================
