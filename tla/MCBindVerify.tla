---------------------------- MODULE MCBindVerify ----------------------------
(* Model-checking instance of BindVerify: certificate s is in another store. *)
EXTENDS BindVerify, TLC

CONSTANTS s, m, n

MCHomeStore == [c \in Certs |-> IF c = s THEN "other" ELSE "MY"]

Symmetry == Permutations(Callers) \cup Permutations({m, n})

=============================================================================
