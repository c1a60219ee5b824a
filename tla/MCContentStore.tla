--------------------------- MODULE MCContentStore ---------------------------
(* Small instances of ContentStore for TLC. *)
EXTENDS ContentStore, TLC
Symmetry ==
    Permutations(Publishers) \cup Permutations(Putters \ Publishers)
        \cup Permutations(Readers) \cup Permutations(Contents)
=============================================================================
