------------------------- MODULE VersionOrderProofs -------------------------
(* Theorems about VersionOrder: the comparison of versions is a total order   *)
(* of what it tells apart, whatever the lengths of the versions.              *)
EXTENDS VersionOrder, WellFoundedInduction, TLAPS

Positions == Nat \ {0}

-----------------------------------------------------------------------------
(* Segments. *)

\* Two segments are in one order or the other, or the same.
LEMMA LessTotal ==
  ASSUME NEW p \in Segments, NEW q \in Segments, ~Less(p, q), ~Less(q, p)
  PROVE  p = q
BY DEF Segments, Number, Word, Empty, Less

\* Nothing comes before what comes before it.
LEMMA LessAsymmetric ==
  ASSUME NEW p \in Segments, NEW q \in Segments, Less(p, q)
  PROVE  ~Less(q, p)
BY DEF Segments, Number, Word, Empty, Less

\* Segments are compared consistently.
LEMMA LessTransitive ==
  ASSUME NEW p \in Segments, NEW q \in Segments, NEW r \in Segments,
         Less(p, q), Less(q, r)
  PROVE  Less(p, r)
BY DEF Segments, Number, Word, Empty, Less

\* Every position holds a segment.
LEMMA AtSegment ==
  ASSUME NEW s \in Seq(Segments), NEW fill \in Segments, NEW i \in Positions
  PROVE  At(s, i, fill) \in Segments
BY DEF At, Positions

\* Beyond its end a sequence has nothing but the filling.
LEMMA AtBeyond ==
  ASSUME NEW s \in Seq(Segments), NEW fill, NEW i \in Positions, i > Len(s)
  PROVE  At(s, i, fill) = fill
BY DEF At, Positions

-----------------------------------------------------------------------------
(* Sequences of segments, filled up. *)

Same(s, t, fill) == \A i \in Positions : At(s, i, fill) = At(t, i, fill)

\* s comes before t at position i.
BeforeAt(s, t, fill, i) ==
  /\ Less(At(s, i, fill), At(t, i, fill))
  /\ \A j \in Positions : j < i => At(s, j, fill) = At(t, j, fill)

Before(s, t, fill) == \E i \in Positions : BeforeAt(s, t, fill, i)

\* The differences the comparison looks at are all there are.
LEMMA DifferencesAll ==
  ASSUME NEW s \in Seq(Segments), NEW t \in Seq(Segments), NEW fill \in Segments,
         NEW i \in Positions
  PROVE  i \in Differences(s, t, fill) <=> At(s, i, fill) # At(t, i, fill)
<1>1. At(s, i, fill) \in Segments /\ At(t, i, fill) \in Segments
  BY AtSegment
<1>2. ASSUME i \in Differences(s, t, fill) PROVE At(s, i, fill) # At(t, i, fill)
  BY <1>1, <1>2, LessAsymmetric DEF Differences
<1>3. ASSUME At(s, i, fill) # At(t, i, fill) PROVE i \in Differences(s, t, fill)
  <2>1. i <= Len(s) \/ i <= Len(t)
    BY <1>3, AtBeyond DEF Positions
  <2>2. i \in 1 .. Longer(s, t)
    BY <2>1 DEF Longer, Positions
  <2> QED
    BY <1>1, <1>3, <2>2, LessTotal DEF Differences
<1> QED
  BY <1>2, <1>3

\* A set of positions has a first one.
LEMMA FirstIsLeast ==
  ASSUME NEW S, S \subseteq Nat, S # {}
  PROVE  First(S) \in S /\ \A j \in S : First(S) <= j
<1>1. \E i \in S : \A j \in S : ~ (<<j, i>> \in OpToRel(<, Nat))
  BY NatLessThanWellFounded, WFMin
<1>2. PICK i \in S : \A j \in S : ~ (j < i)
  BY <1>1 DEF OpToRel
<1>3. \A j \in S : i <= j
  BY <1>2
<1> QED
  BY <1>3 DEF First

\* One sequence is before the other, or they are the same.
LEMMA Trichotomy ==
  ASSUME NEW s \in Seq(Segments), NEW t \in Seq(Segments), NEW fill \in Segments
  PROVE  LET c == CompareSegments(s, t, fill)
         IN  \/ c = 0 /\ Same(s, t, fill)
             \/ c = -1 /\ Before(s, t, fill)
             \/ c = 1 /\ Before(t, s, fill)
<1> DEFINE D == Differences(s, t, fill)
           i == First(D)
<1>1. CASE D = {}
  <2>1. Same(s, t, fill)
    BY <1>1, DifferencesAll DEF Same
  <2>2. CompareSegments(s, t, fill) = 0
    BY <1>1 DEF CompareSegments
  <2> QED
    BY <2>1, <2>2
<1>2. CASE D # {}
  <2>1. D \subseteq Nat /\ D \subseteq Positions
    <3>1. Longer(s, t) \in Nat
      BY DEF Longer
    <3> QED
      BY <3>1 DEF Differences, Positions
  <2>2. i \in D /\ \A j \in D : i <= j
    BY <1>2, <2>1, FirstIsLeast
  <2>3. \A j \in Positions : j < i => At(s, j, fill) = At(t, j, fill)
    <3> SUFFICES ASSUME NEW j \in Positions, j < i PROVE j \notin D
      BY DifferencesAll
    <3> QED
      BY <2>1, <2>2 DEF Positions
  <2>4. Less(At(s, i, fill), At(t, i, fill)) \/ Less(At(t, i, fill), At(s, i, fill))
    BY <2>2 DEF Differences
  <2>5. CompareSegments(s, t, fill)
          = IF Less(At(s, i, fill), At(t, i, fill)) THEN -1 ELSE 1
    BY <1>2 DEF CompareSegments
  <2>6. Less(At(s, i, fill), At(t, i, fill)) => Before(s, t, fill)
    BY <2>1, <2>2, <2>3 DEF Before, BeforeAt
  <2>7. Less(At(t, i, fill), At(s, i, fill)) => Before(t, s, fill)
    BY <2>1, <2>2, <2>3 DEF Before, BeforeAt
  <2> HIDE DEF i
  <2> QED
    BY <2>4, <2>5, <2>6, <2>7
<1> QED
  BY <1>1, <1>2

\* What comes before something does not come after it, and is not the same.
LEMMA BeforeAsymmetric ==
  ASSUME NEW s \in Seq(Segments), NEW t \in Seq(Segments), NEW fill \in Segments,
         Before(s, t, fill)
  PROVE  ~Before(t, s, fill) /\ ~Same(s, t, fill)
<1>1. PICK i \in Positions : BeforeAt(s, t, fill, i)
  BY DEF Before
<1>2. At(s, i, fill) # At(t, i, fill)
  BY <1>1, AtSegment, LessAsymmetric DEF BeforeAt
<1>3. ASSUME NEW j \in Positions, BeforeAt(t, s, fill, j) PROVE FALSE
  <2>1. CASE j = i
    BY <1>1, <1>3, <2>1, AtSegment, LessAsymmetric DEF BeforeAt
  <2>2. CASE i < j
    BY <1>2, <1>3, <2>2 DEF BeforeAt
  <2>3. CASE j < i
    BY <1>1, <1>3, <2>3, AtSegment, LessAsymmetric DEF BeforeAt
  <2> QED
    BY <2>1, <2>2, <2>3 DEF Positions
<1> QED
  BY <1>2, <1>3 DEF Before, Same

\* Sequences are compared consistently.
LEMMA BeforeTransitive ==
  ASSUME NEW r \in Seq(Segments), NEW s \in Seq(Segments), NEW t \in Seq(Segments),
         NEW fill \in Segments, Before(r, s, fill), Before(s, t, fill)
  PROVE  Before(r, t, fill)
<1>1. PICK i \in Positions : BeforeAt(r, s, fill, i)
  BY DEF Before
<1>2. PICK j \in Positions : BeforeAt(s, t, fill, j)
  BY DEF Before
<1>3. CASE i = j
  <2>1. Less(At(r, i, fill), At(t, i, fill))
    BY <1>1, <1>2, <1>3, AtSegment, LessTransitive DEF BeforeAt
  <2> QED
    BY <1>1, <1>2, <1>3, <2>1 DEF Before, BeforeAt
<1>4. CASE i < j
  <2>1. BeforeAt(r, t, fill, i)
    BY <1>1, <1>2, <1>4 DEF BeforeAt, Positions
  <2> QED
    BY <2>1 DEF Before
<1>5. CASE j < i
  <2>1. BeforeAt(r, t, fill, j)
    BY <1>1, <1>2, <1>5 DEF BeforeAt, Positions
  <2> QED
    BY <2>1 DEF Before
<1> QED
  BY <1>3, <1>4, <1>5 DEF Positions

\* What is the same is in the same place.
LEMMA SameReplaces ==
  ASSUME NEW r, NEW s, NEW t, NEW fill, Same(r, s, fill)
  PROVE  /\ Same(s, r, fill)
         /\ Before(r, t, fill) <=> Before(s, t, fill)
         /\ Before(t, r, fill) <=> Before(t, s, fill)
         /\ Same(r, t, fill) <=> Same(s, t, fill)
<1>1. \A i \in Positions : At(r, i, fill) = At(s, i, fill)
  BY DEF Same
<1>2. \A i \in Positions : /\ BeforeAt(r, t, fill, i) <=> BeforeAt(s, t, fill, i)
                           /\ BeforeAt(t, r, fill, i) <=> BeforeAt(t, s, fill, i)
  BY <1>1 DEF BeforeAt
<1> QED
  BY <1>1, <1>2 DEF Before, Same

-----------------------------------------------------------------------------
(* Versions. *)

Zero == Number(0)

SameMain(v, w) == Same(v.main, w.main, Zero)
BeforeMain(v, w) == Before(v.main, w.main, Zero)

\* The two ways for one tag to come before another, and for two to count as one.
BeforePre(v, w) ==
  \/ v.pre # <<>> /\ w.pre = <<>>
  \/ (v.pre = <<>> <=> w.pre = <<>>) /\ Before(v.pre, w.pre, Empty)
SamePre(v, w) == (v.pre = <<>> <=> w.pre = <<>>) /\ Same(v.pre, w.pre, Empty)

Precedes(v, w) == BeforeMain(v, w) \/ (SameMain(v, w) /\ BeforePre(v, w))
Equal(v, w) == SameMain(v, w) /\ SamePre(v, w)

\* Main numbers and tags are sequences of segments.
LEMMA VersionParts ==
  ASSUME NEW v \in Versions
  PROVE  v.main \in Seq(Segments) /\ v.pre \in Seq(Segments)
<1>1. v.main \in Seq({Number(n) : n \in Int})
  BY DEF Versions
<1>2. \A i \in 1 .. Len(v.main) : v.main[i] \in Segments
  BY <1>1 DEF Segments
<1> QED
  BY <1>1, <1>2 DEF Versions

\* What sequences are filled up with are segments.
LEMMA Fillings == Zero \in Segments /\ Empty \in Segments
BY DEF Zero, Segments

\* CompareVersion says which of two versions comes first, and only that.
LEMMA CompareIsOrder ==
  ASSUME NEW v \in Versions, NEW w \in Versions
  PROVE  LET c == CompareVersion(v, w)
         IN  \/ c = 0 /\ Equal(v, w)
             \/ c = -1 /\ Precedes(v, w)
             \/ c = 1 /\ Precedes(w, v)
<1>1. /\ v.main \in Seq(Segments) /\ v.pre \in Seq(Segments)
      /\ w.main \in Seq(Segments) /\ w.pre \in Seq(Segments)
  BY VersionParts
<1>2. \/ CompareMain(v, w) = 0 /\ SameMain(v, w)
      \/ CompareMain(v, w) = -1 /\ BeforeMain(v, w)
      \/ CompareMain(v, w) = 1 /\ BeforeMain(w, v)
  BY <1>1, Fillings, Trichotomy DEF CompareMain, SameMain, BeforeMain, Zero
<1>3. \/ comparePreRelease(v.pre, w.pre) = 0 /\ Same(v.pre, w.pre, Empty)
      \/ comparePreRelease(v.pre, w.pre) = -1 /\ Before(v.pre, w.pre, Empty)
      \/ comparePreRelease(v.pre, w.pre) = 1 /\ Before(w.pre, v.pre, Empty)
  BY <1>1, Fillings, Trichotomy DEF comparePreRelease
<1>4. SameMain(v, w) => SameMain(w, v)
  BY SameReplaces DEF SameMain
<1> QED
  BY <1>2, <1>3, <1>4 DEF CompareVersion, Precedes, Equal, BeforePre, SamePre

\* Nothing both precedes and follows a version, or equals one it precedes.
LEMMA PrecedesAsymmetric ==
  ASSUME NEW v \in Versions, NEW w \in Versions, Precedes(v, w)
  PROVE  ~Precedes(w, v) /\ ~Equal(v, w) /\ ~Equal(w, v)
<1>1. /\ v.main \in Seq(Segments) /\ v.pre \in Seq(Segments)
      /\ w.main \in Seq(Segments) /\ w.pre \in Seq(Segments)
  BY VersionParts
<1>2. SameMain(v, w) <=> SameMain(w, v)
  BY SameReplaces DEF SameMain
<1>3. Same(v.pre, w.pre, Empty) <=> Same(w.pre, v.pre, Empty)
  BY SameReplaces
<1>4. CASE BeforeMain(v, w)
  <2>1. ~BeforeMain(w, v) /\ ~SameMain(v, w)
    BY <1>1, <1>4, Fillings, BeforeAsymmetric DEF BeforeMain, SameMain
  <2> QED
    BY <1>2, <2>1 DEF Precedes, Equal
<1>5. CASE SameMain(v, w) /\ BeforePre(v, w)
  <2>1. ~BeforeMain(w, v)
    BY <1>1, <1>2, <1>5, Fillings, BeforeAsymmetric DEF BeforeMain, SameMain
  <2>2. ~BeforePre(w, v) /\ ~SamePre(v, w) /\ ~SamePre(w, v)
    <3>1. CASE v.pre # <<>> /\ w.pre = <<>>
      BY <3>1 DEF BeforePre, SamePre
    <3>2. CASE (v.pre = <<>> <=> w.pre = <<>>) /\ Before(v.pre, w.pre, Empty)
      <4>1. ~Before(w.pre, v.pre, Empty) /\ ~Same(v.pre, w.pre, Empty)
        BY <1>1, <3>2, Fillings, BeforeAsymmetric
      <4> QED
        BY <1>3, <3>2, <4>1 DEF BeforePre, SamePre
    <3> QED
      BY <1>5, <3>1, <3>2 DEF BeforePre
  <2> QED
    BY <2>1, <2>2 DEF Precedes, Equal
<1> QED
  BY <1>4, <1>5 DEF Precedes

\* Versions are compared consistently.
LEMMA PrecedesTransitive ==
  ASSUME NEW u \in Versions, NEW v \in Versions, NEW w \in Versions,
         Precedes(u, v) \/ Equal(u, v), Precedes(v, w) \/ Equal(v, w)
  PROVE  /\ Precedes(u, w) \/ Equal(u, w)
         /\ Precedes(u, v) \/ Precedes(v, w) => Precedes(u, w)
<1>1. /\ u.main \in Seq(Segments) /\ u.pre \in Seq(Segments)
      /\ v.main \in Seq(Segments) /\ v.pre \in Seq(Segments)
      /\ w.main \in Seq(Segments) /\ w.pre \in Seq(Segments)
  BY VersionParts
<1>2. /\ BeforeMain(u, v) /\ BeforeMain(v, w) => BeforeMain(u, w)
      /\ SameMain(u, v) /\ BeforeMain(v, w) => BeforeMain(u, w)
      /\ BeforeMain(u, v) /\ SameMain(v, w) => BeforeMain(u, w)
      /\ SameMain(u, v) /\ SameMain(v, w) => SameMain(u, w)
  BY <1>1, Fillings, BeforeTransitive, SameReplaces DEF BeforeMain, SameMain
<1>3. /\ Before(u.pre, v.pre, Empty) /\ Before(v.pre, w.pre, Empty) => Before(u.pre, w.pre, Empty)
      /\ Same(u.pre, v.pre, Empty) /\ Before(v.pre, w.pre, Empty) => Before(u.pre, w.pre, Empty)
      /\ Before(u.pre, v.pre, Empty) /\ Same(v.pre, w.pre, Empty) => Before(u.pre, w.pre, Empty)
      /\ Same(u.pre, v.pre, Empty) /\ Same(v.pre, w.pre, Empty) => Same(u.pre, w.pre, Empty)
  BY <1>1, Fillings, BeforeTransitive, SameReplaces
<1>4. /\ BeforePre(u, v) /\ BeforePre(v, w) => BeforePre(u, w)
      /\ SamePre(u, v) /\ BeforePre(v, w) => BeforePre(u, w)
      /\ BeforePre(u, v) /\ SamePre(v, w) => BeforePre(u, w)
      /\ SamePre(u, v) /\ SamePre(v, w) => SamePre(u, w)
  BY <1>3 DEF BeforePre, SamePre
<1> QED
  BY <1>2, <1>4 DEF Precedes, Equal

-----------------------------------------------------------------------------
(* The theorems. *)

\* Compared the other way round, two versions give the opposite answer
\* (checker.go:148).
THEOREM Antisymmetric ==
  ASSUME NEW v \in Versions, NEW w \in Versions
  PROVE  /\ CompareVersion(v, w) \in {-1, 0, 1}
         /\ CompareVersion(w, v) = 0 - CompareVersion(v, w)
<1>1. \/ CompareVersion(v, w) = 0 /\ Equal(v, w)
      \/ CompareVersion(v, w) = -1 /\ Precedes(v, w)
      \/ CompareVersion(v, w) = 1 /\ Precedes(w, v)
  BY CompareIsOrder
<1>2. \/ CompareVersion(w, v) = 0 /\ Equal(w, v)
      \/ CompareVersion(w, v) = -1 /\ Precedes(w, v)
      \/ CompareVersion(w, v) = 1 /\ Precedes(v, w)
  BY CompareIsOrder
<1> QED
  BY <1>1, <1>2, PrecedesAsymmetric

\* Comparisons agree with each other: versions of any lengths, with and without
\* tags, can be numbered in their order (checker.go:148, :197).
THEOREM Transitive ==
  ASSUME NEW u \in Versions, NEW v \in Versions, NEW w \in Versions,
         CompareVersion(u, v) <= 0, CompareVersion(v, w) <= 0
  PROVE  /\ CompareVersion(u, w) <= 0
         /\ CompareVersion(u, v) < 0 \/ CompareVersion(v, w) < 0
              => CompareVersion(u, w) < 0
<1>1. /\ \/ CompareVersion(u, v) = -1 /\ Precedes(u, v)
         \/ CompareVersion(u, v) = 0 /\ Equal(u, v)
      /\ \/ CompareVersion(v, w) = -1 /\ Precedes(v, w)
         \/ CompareVersion(v, w) = 0 /\ Equal(v, w)
  BY CompareIsOrder
<1>2. /\ Precedes(u, w) \/ Equal(u, w)
      /\ Precedes(u, v) \/ Precedes(v, w) => Precedes(u, w)
  BY <1>1, PrecedesTransitive
<1>3. \/ CompareVersion(u, w) = 0 /\ Equal(u, w)
      \/ CompareVersion(u, w) = -1 /\ Precedes(u, w)
      \/ CompareVersion(u, w) = 1 /\ Precedes(w, u)
  BY CompareIsOrder
<1>4. ~(CompareVersion(u, w) = 1 /\ Precedes(w, u))
  BY <1>2, PrecedesAsymmetric
<1>5. Precedes(u, w) => CompareVersion(u, w) = -1
  BY <1>3, <1>4, PrecedesAsymmetric
<1> QED
  BY <1>1, <1>2, <1>3, <1>4, <1>5

\* Updating never leads back: after two updates the first version is not offered,
\* and no version is offered to itself (checker.go:110).
THEOREM NoWayBack ==
  ASSUME NEW u \in Versions, NEW v \in Versions, NEW w \in Versions,
         IsUpdate(v, u), IsUpdate(w, v)
  PROVE  IsUpdate(w, u) /\ ~IsUpdate(u, w) /\ ~IsUpdate(u, u)
<1>1. CompareVersion(u, v) = -1 /\ CompareVersion(v, w) = -1
  BY Antisymmetric DEF IsUpdate
<1>2. CompareVersion(u, w) < 0
  BY <1>1, Transitive
<1>3. CompareVersion(w, u) = 0 - CompareVersion(u, w) /\ CompareVersion(u, w) \in {-1, 0, 1}
  BY Antisymmetric
<1>4. CompareVersion(u, u) = 0 - CompareVersion(u, u) /\ CompareVersion(u, u) \in {-1, 0, 1}
  BY Antisymmetric
<1> QED
  BY <1>2, <1>3, <1>4 DEF IsUpdate

=============================================================================
