------------------------------ MODULE MCUpgrade ------------------------------
(* Upgrade on small instances, and the comparison of versions it rests on, on *)
(* the versions of checker_test.go.                                           *)
EXTENDS Upgrade, TLC, Sequences

Symmetry == Permutations(Updaters)

Order == INSTANCE VersionOrder

Main(s) == [i \in DOMAIN s |-> Order!Number(s[i])]

alpha == Order!Word(1)
beta == Order!Word(2)
rc == Order!Word(3)

\* Tags of 1.0.0 from the first to the last.
Tags == << <<Order!Number(1)>>,
           <<alpha>>, <<alpha, Order!Number(1)>>, <<alpha, Order!Number(2)>>,
           <<beta>>, <<beta, Order!Number(2)>>, <<beta, Order!Number(10)>>,
           <<rc, Order!Number(1)>>, <<rc, Order!Number(9)>>, <<rc, Order!Number(10)>> >>

Releases == [i \in DOMAIN Tags |-> [main |-> Main(<<1, 0, 0>>), pre |-> Tags[i]]]
            \o << [main |-> Main(<<1, 0>>), pre |-> <<>>],
                  [main |-> Main(<<1, 0, 1>>), pre |-> <<>>],
                  [main |-> Main(<<1, 1, 0>>), pre |-> <<>>],
                  [main |-> Main(<<1, 9, 9>>), pre |-> <<>>],
                  [main |-> Main(<<2, 0, 0>>), pre |-> <<>>] >>

ASSUME ReleasesInOrder ==
  \A i, j \in DOMAIN Releases :
    Order!CompareVersion(Releases[i], Releases[j])
      = (IF i < j THEN -1 ELSE IF i = j THEN 0 ELSE 1)

ASSUME ShorterIsFilledUp ==
  LET Plain(s) == [main |-> Main(s), pre |-> <<>>]
  IN  /\ Order!CompareVersion(Plain(<<1, 0>>), Plain(<<1, 0, 0>>)) = 0
      /\ Order!CompareVersion(Plain(<<1, 0, 1>>), Plain(<<1, 0>>)) = 1

=============================================================================
