---------------------------- MODULE VersionOrder ----------------------------
(***************************************************************************)
(* The order in which the tool sees its releases: a pure comparison of two *)
(* version numbers.  The upgrade offers a release only if it comes after   *)
(* the running version, so this has to be an order: else the tool could    *)
(* move in circles, or two processes could each offer what the other one   *)
(* has just replaced.  Upgrade takes it for the order of numbers.          *)
(*                                                                         *)
(* Source: src/upgrade/checker.go (CompareVersion, comparePreRelease).     *)
(*                                                                         *)
(* A version is what splitVersion and the splits at "." make of its text:  *)
(* build metadata is gone, a segment is a number, a word or empty.  The    *)
(* value of a word is its place in the order of strings (any finite set of *)
(* words can be numbered so).  A segment of the main number that is no     *)
(* number counts as what Atoi returns with its error (parseVersionParts).  *)
(***************************************************************************)
EXTENDS Integers, Sequences

Number(n) == [kind |-> "number", value |-> n]
Word(n) == [kind |-> "word", value |-> n]
Empty == [kind |-> "empty", value |-> 0]

Segments == {Number(n) : n \in Int} \cup {Word(n) : n \in Int} \cup {Empty}

\* pre = <<>>: no pre-release tag.
Versions == [main : Seq({Number(n) : n \in Int}), pre : Seq(Segments)]

\* Empty before numbers, numbers before words, else by value.
Less(p, q) ==
  \/ p.kind = "empty" /\ q.kind # "empty"
  \/ p.kind = "number" /\ q.kind = "word"
  \/ p.kind = q.kind /\ p.value < q.value

\* Segment i; the shorter of two versions is filled up.
At(s, i, fill) == IF i \in DOMAIN s THEN s[i] ELSE fill

Longer(s, t) == IF Len(s) < Len(t) THEN Len(t) ELSE Len(s)

Differences(s, t, fill) ==
  {i \in 1 .. Longer(s, t) :
     Less(At(s, i, fill), At(t, i, fill)) \/ Less(At(t, i, fill), At(s, i, fill))}

First(S) == CHOOSE i \in S : \A j \in S : i <= j

\* The first segment that differs decides.
CompareSegments(s, t, fill) ==
  LET D == Differences(s, t, fill)
  IN  IF D = {} THEN 0
      ELSE IF Less(At(s, First(D), fill), At(t, First(D), fill)) THEN -1 ELSE 1

CompareMain(v, w) == CompareSegments(v.main, w.main, Number(0))

comparePreRelease(pre1, pre2) == CompareSegments(pre1, pre2, Empty)

\* A version with a pre-release tag comes before the one without.
CompareVersion(v, w) ==
  IF CompareMain(v, w) # 0 THEN CompareMain(v, w)
  ELSE IF v.pre # <<>> /\ w.pre = <<>> THEN -1
  ELSE IF v.pre = <<>> /\ w.pre # <<>> THEN 1
  ELSE comparePreRelease(v.pre, w.pre)

\* What CheckUpdate asks before it offers a release.
IsUpdate(latest, current) == CompareVersion(latest, current) > 0

=============================================================================
