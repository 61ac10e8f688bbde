------------------------------ MODULE MCAutoRun ------------------------------
(* AutoRun on small instances. *)
EXTENDS AutoRun

\* One server; entries 1 and 3 share a token.
MCCred == [c \in Certs |-> IF c = 2 THEN <<"url", "token2">> ELSE <<"url", "token1">>]

\* The file need not be sorted by order number.
MCOrder == [c \in Certs |-> IF c = 1 THEN 20 ELSE IF c = 2 THEN 10 ELSE 30]

\* Entries 1 and 2 contest an endpoint; each entry also has one of its own.
MCClaims == [c \in Certs |-> CASE c = 1 -> {"shared", "own1"}
                               [] c = 2 -> {"shared", "own2"}
                               [] OTHER -> {"own3"}]
=============================================================================
