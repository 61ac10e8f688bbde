--------------------------- MODULE MCSharedConfig ---------------------------
(* SharedConfig on small instances. *)
EXTENDS SharedConfig, TLC

Symmetry == Permutations(Checks) \cup Permutations(LockFiles)

=============================================================================
