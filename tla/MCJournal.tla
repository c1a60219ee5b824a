----------------------------- MODULE MCJournal -----------------------------
(* Small instances of the journal for TLC. *)
EXTENDS Journal, TLC

Symmetry == Permutations(Writers)
=============================================================================
