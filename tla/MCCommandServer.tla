-------------------------- MODULE MCCommandServer --------------------------
(* Small instances of CommandServer for TLC. *)
EXTENDS CommandServerProofs, TLC

\* Requests are interchangeable, and so are workers: neither is ordered or
\* named by any definition.  Used by the runs that check invariants only.
Symmetry == Permutations(Requests) \cup Permutations(Workers)
=============================================================================
