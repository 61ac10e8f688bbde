-------------------------- MODULE MCValidationFiles --------------------------
(* ValidationFiles on small instances. *)
EXTENDS ValidationFiles

\* The second certificate shares one of the roots of the first.
MCRoots == [c \in Certs |-> IF c = 1 THEN Sites ELSE {2}]

=============================================================================
