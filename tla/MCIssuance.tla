------------------------------ MODULE MCIssuance ------------------------------
(* Issuance on small instances.  The key pairs this machine can generate are   *)
(* interchangeable: no definition tells one from another.                      *)
EXTENDS Issuance, TLC

OwnKeySymmetry == Permutations(OwnKeys)

=============================================================================
