-------------------------------- MODULE RangeSet --------------------------------
(***************************************************************************)
(* A set of code points (src/include/rangeset.h): the bounds of disjoint   *)
(* ranges, each from its first up to, not including, its second.           *)
(***************************************************************************)
EXTENDS Integers, Sequences, FiniteSets, SequencesExt

CodePointEnd == 1114112   \* 0x110000

\* The bounds of disjoint ranges that do not touch, which is what RangeSet compares, and
\* counts members, by.
IsRangeSet(points) ==
  /\ points \in Seq(0..CodePointEnd) /\ Len(points) % 2 = 0
  /\ \A k \in 2..Len(points) : points[k - 1] < points[k]

\* std::lower_bound and std::upper_bound, as numbers of bounds passed over.
BoundsBelow(points, c) == Cardinality({k \in DOMAIN points : points[k] < c})
BoundsUpTo(points, c)  == Cardinality({k \in DOMAIN points : points[k] <= c})

\* The bounds from place l up to place u go; those of the new range stay where they are
\* not inside, or at the edge of, a range of the set.
InsertBounds(points, first, last, l, u) ==
  LET Kept(place, bound) == IF place % 2 = 0 THEN <<bound>> ELSE <<>>
  IN IF first = last THEN points
     ELSE SubSeq(points, 1, l) \o Kept(l, first) \o Kept(u, last)
          \o SubSeq(points, u + 1, Len(points))

\* Faulty variant: a range that begins where the new one ends is kept apart.
InsertApart(points, first, last) ==
  InsertBounds(points, first, last, BoundsBelow(points, first), BoundsBelow(points, last))

\* RangeSet::insert
Insert(points, first, last) ==
  InsertBounds(points, first, last, BoundsBelow(points, first), BoundsUpTo(points, last))

\* RangeSet::flip
Flip(points) ==
  LET front == IF Head(points) = 0 THEN Tail(points) ELSE <<0>> \o points
      whole == IF Last(points) = CodePointEnd THEN Front(front) ELSE Append(front, CodePointEnd)
  IN IF points = <<>> THEN <<0, CodePointEnd>> ELSE whole

SetPoint(points, c) == Insert(points, c, c + 1)

\* The ranges that bounds are of, and their insertion one by one.
RangesOf(points) == [k \in 1..Len(points) \div 2 |-> <<points[2*k - 1], points[2*k]>>]

InsertRanges(points, ranges) ==
  LET Inserted[k \in 0..Len(ranges)] ==
        IF k = 0 THEN points ELSE Insert(Inserted[k - 1], ranges[k][1], ranges[k][2])
  IN Inserted[Len(ranges)]

\* The operators of RangeSet.
OrPoints(p, q)    == InsertRanges(p, RangesOf(q))
AndPoints(p, q)   == Flip(OrPoints(Flip(p), Flip(q)))
MinusPoints(p, q) == AndPoints(p, Flip(q))
XorPoints(p, q)   == OrPoints(MinusPoints(p, q), AndPoints(Flip(p), q))

\* RangeSet::test
HasPoint(points, c) ==
  LET l == BoundsBelow(points, c)
  IN l < Len(points) /\ (IF l % 2 = 1 THEN c < points[l + 1] ELSE c = points[l + 1])

\* RangeSet::count
CountPoints(points) ==
  LET Counted[k \in 0..Len(points) \div 2] ==
        IF k = 0 THEN 0 ELSE Counted[k - 1] + (points[2*k] - points[2*k - 1])
  IN Counted[Len(points) \div 2]

\* The code points of W in the set.
PointsWithin(points, W) == {c \in W : HasPoint(points, c)}
=============================================================================
