--------------------------- MODULE TranscodingProofs ---------------------------
(***************************************************************************)
(* RangeSet keeps its bounds in order and is a set with the operators of   *)
(* sets (src/include/rangeset.h); hence what the parser makes of any items *)
(* of a bracket expression is a set, whatever is in the brackets.          *)
(*                                                                         *)
(* Decoding a range of a buffer gives items in the order of their bytes,   *)
(* and decoding from an item the rest of them; hence the hit of a window   *)
(* is the items that start in it, and the bad items of a window are        *)
(* counted, wherever decoding began (src/src/lib/lightgrep_c_util.cpp).    *)
(*                                                                         *)
(* A decoder gives a character for the bytes that the encoder of its chain *)
(* writes for it (src/include/encoders, src/include/decoders); hence the   *)
(* items of a window lie side by side over the bytes of the buffer.        *)
(***************************************************************************)
EXTENDS Transcoding, DataLemmas, FiniteSetTheorems


Ascends(v) == \A i, j \in 1..Len(v) : i < j => v[i] < v[j]

\* 0x110000 is a number, ...
LEMMA EndIsNumber == CodePointEnd \in Nat /\ CodePointEnd > 0
  BY SMT DEF CodePointEnd

\* ... above those of the named classes: the proofs use no more of it.
LEMMA EndIsLarge == CodePointEnd \in Nat /\ CodePointEnd > 20000
  BY SMT DEF CodePointEnd

\* Bounds that ascend from each to the next ascend.
LEMMA BoundsAscend ==
  ASSUME NEW v, IsRangeSet(v)
  PROVE  /\ Len(v) \in Nat /\ DOMAIN v = 1..Len(v) /\ \A k \in 1..Len(v) : v[k] \in 0..CodePointEnd
         /\ Ascends(v)
<1>0. v \in Seq(0..CodePointEnd)
  BY DEF IsRangeSet
<1>1. Len(v) \in Nat /\ DOMAIN v = 1..Len(v) /\ \A k \in 1..Len(v) : v[k] \in 0..CodePointEnd
  BY <1>0, LenProperties, ElementOfSeq
<1>2. \A k \in 2..Len(v) : v[k - 1] < v[k]
  BY DEF IsRangeSet
<1> DEFINE T == {j \in Nat : j \in 1..Len(v) => \A i \in 1..j - 1 : v[i] < v[j]}
<1>3. 0 \in T
  BY <1>1
<1>4. ASSUME NEW j \in Nat, j \in T PROVE j + 1 \in T
  <2> SUFFICES ASSUME j + 1 \in 1..Len(v), NEW i \in 1..j PROVE v[i] < v[j + 1]
    OBVIOUS
  <2>1. j \in 1..Len(v) /\ j + 1 \in 2..Len(v) /\ (j + 1) - 1 = j
    BY <1>1
  <2>2. v[j] < v[j + 1]
    BY <1>2, <2>1
  <2>3. i = j \/ v[i] < v[j]
    BY <1>4, <2>1
  <2>4. v[i] \in Int /\ v[j] \in Int /\ v[j + 1] \in Int
    BY <1>1, <2>1
  <2> QED
    BY <2>2, <2>3, <2>4
<1>5. T \subseteq Nat
  OBVIOUS
<1> HIDE DEF T
<1>6. \A j \in Nat : j \in T
  BY <1>3, <1>4, <1>5, InductionOnNat
<1>7. \A j \in 1..Len(v) : \A i \in 1..j - 1 : v[i] < v[j]
  BY <1>1, <1>6 DEF T
<1> QED
  BY <1>1, <1>7 DEF Ascends

\* A set of the numbers up to n that holds all that are less than a member is an interval.
LEMMA InitialPart ==
  ASSUME NEW n \in Nat, NEW D, D \subseteq 1..n, \A k \in D : \A i \in 1..k : i \in D
  PROVE  Cardinality(D) \in 0..n /\ D = 1..Cardinality(D)
<1> DEFINE T == {m \in Nat : m + 1 \notin D}
<1>1. n \in T
  OBVIOUS
<1>2. PICK m \in T : \A i \in T : m <= i
  BY <1>1, LeastNatural
<1>3. m \in Nat /\ m <= n /\ m + 1 \notin D
  BY <1>1, <1>2
<1>4. \A i \in 1..m : i \in D
  <2> SUFFICES ASSUME NEW i \in 1..m PROVE i \in D
    OBVIOUS
  <2>1. i - 1 \in Nat /\ i - 1 < m /\ (i - 1) + 1 = i
    BY <1>3
  <2> QED
    BY <1>2, <1>3, <2>1
<1>5. \A k \in D : k \in 1..m
  <2> SUFFICES ASSUME NEW k \in D, k > m PROVE FALSE
    BY <1>3
  <2>1. m + 1 \in 1..k
    BY <1>3
  <2> QED
    BY <1>3, <2>1
<1>6. D = 1..m
  BY <1>4, <1>5
<1>7. Cardinality(1..m) = m
  BY <1>3, FS_Interval
<1> QED
  BY <1>3, <1>6, <1>7

\* lower_bound and upper_bound on bounds: the bounds passed over are the first ones.
LEMMA BoundsPassed ==
  ASSUME NEW v, IsRangeSet(v), NEW c \in Int
  PROVE  /\ BoundsBelow(v, c) \in 0..Len(v) /\ BoundsUpTo(v, c) \in 0..Len(v)
         /\ \A k \in 1..Len(v) : v[k] < c <=> k <= BoundsBelow(v, c)
         /\ \A k \in 1..Len(v) : v[k] <= c <=> k <= BoundsUpTo(v, c)
<1>1. /\ Len(v) \in Nat /\ DOMAIN v = 1..Len(v) /\ \A k \in 1..Len(v) : v[k] \in Int
      /\ \A i, j \in 1..Len(v) : i < j => v[i] < v[j]
  BY BoundsAscend DEF Ascends
<1> DEFINE D == {k \in DOMAIN v : v[k] < c}
           E == {k \in DOMAIN v : v[k] <= c}
<1>2. /\ D \subseteq 1..Len(v) /\ \A k \in D : \A i \in 1..k : i \in D
      /\ E \subseteq 1..Len(v) /\ \A k \in E : \A i \in 1..k : i \in E
  BY <1>1, SMTT(60)
<1>3. /\ \A k \in 1..Len(v) : k \in D <=> v[k] < c
      /\ \A k \in 1..Len(v) : k \in E <=> v[k] <= c
      /\ Cardinality(D) = BoundsBelow(v, c) /\ Cardinality(E) = BoundsUpTo(v, c)
  BY <1>1 DEF BoundsBelow, BoundsUpTo
<1> HIDE DEF D, E
<1>4. Cardinality(D) \in 0..Len(v) /\ D = 1..Cardinality(D)
  BY <1>1, <1>2, InitialPart
<1>5. Cardinality(E) \in 0..Len(v) /\ E = 1..Cardinality(E)
  BY <1>1, <1>2, InitialPart
<1>6. \A k \in 1..Len(v) : v[k] < c <=> k <= Cardinality(D)
  BY <1>3, <1>4
<1>7. \A k \in 1..Len(v) : v[k] <= c <=> k <= Cardinality(E)
  BY <1>3, <1>5
<1> QED
  BY <1>3, <1>4, <1>5, <1>6, <1>7

\* It is found by the two bounds around it.
LEMMA UpToIs ==
  ASSUME NEW v, IsRangeSet(v), NEW c \in Int, NEW m \in 0..Len(v),
         m > 0 => v[m] <= c, m < Len(v) => c < v[m + 1]
  PROVE  BoundsUpTo(v, c) = m
<1>1. Len(v) \in Nat /\ \A k \in 1..Len(v) : v[k] \in Int
  BY BoundsAscend
<1> DEFINE u == BoundsUpTo(v, c)
<1>2. u \in 0..Len(v) /\ \A k \in 1..Len(v) : v[k] <= c <=> k <= u
  BY BoundsPassed
<1> HIDE DEF u
<1>3. m <= u
  <2> SUFFICES ASSUME m > 0 PROVE m <= u
    BY <1>1, <1>2
  <2>1. m \in 1..Len(v)
    BY <1>1
  <2> QED
    BY <1>2, <2>1
<1>4. u <= m
  <2> SUFFICES ASSUME m < Len(v) PROVE u <= m
    BY <1>1, <1>2
  <2>1. m + 1 \in 1..Len(v) /\ v[m + 1] \in Int
    BY <1>1
  <2>2. ~(m + 1 <= u)
    BY <1>2, <2>1
  <2> QED
    BY <1>1, <1>2, <2>2
<1> QED
  BY <1>1, <1>2, <1>3, <1>4 DEF u

\* test: c is in the set when the bounds up to it are an odd number.
LEMMA HasMeans ==
  ASSUME NEW v, IsRangeSet(v), NEW c \in Int
  PROVE  HasPoint(v, c) <=> BoundsUpTo(v, c) % 2 = 1
<1>1. /\ Len(v) \in Nat /\ \A k \in 1..Len(v) : v[k] \in Int
      /\ \A i, j \in 1..Len(v) : i < j => v[i] < v[j]
  BY BoundsAscend DEF Ascends
<1>2. Len(v) % 2 = 0
  BY DEF IsRangeSet
<1> DEFINE l == BoundsBelow(v, c)
<1>3. l \in 0..Len(v) /\ \A k \in 1..Len(v) : v[k] < c <=> k <= l
  BY BoundsPassed
<1>4. HasPoint(v, c) <=> l < Len(v) /\ (IF l % 2 = 1 THEN c < v[l + 1] ELSE c = v[l + 1])
  BY DEF HasPoint
<1> HIDE DEF l
<1>5. CASE l = Len(v)
  <2>1. l > 0 => v[l] <= c
    BY <1>1, <1>3, <1>5
  <2>0. l \in 0..Len(v) /\ (l < Len(v) => c < v[l + 1])
    BY <1>1, <1>3, <1>5
  <2>2. BoundsUpTo(v, c) = l
    BY <2>0, <2>1, UpToIs
  <2> QED
    BY <1>1, <1>2, <1>3, <1>4, <1>5, <2>2
<1>6. CASE l < Len(v)
  <2>1. l + 1 \in 1..Len(v) /\ v[l + 1] \in Int
    BY <1>1, <1>3, <1>6
  <2>2. v[l + 1] >= c
    BY <1>1, <1>3, <2>1
  <2>3. l > 0 => l \in 1..Len(v) /\ v[l] \in Int /\ v[l] <= c
    BY <1>1, <1>3
  <2>4. CASE v[l + 1] = c
    <3>1. l + 1 < Len(v) => c < v[(l + 1) + 1]
      BY <1>1, <1>3, <2>1, <2>4
    <3>2. BoundsUpTo(v, c) = l + 1
      BY <1>1, <1>3, <2>1, <2>4, <3>1, UpToIs
    <3>3. l % 2 \in {0, 1} /\ ((l + 1) % 2 = 1 <=> l % 2 = 0)
      BY <1>3
    <3> QED
      BY <1>3, <1>4, <1>6, <2>4, <3>2, <3>3
  <2>5. CASE c < v[l + 1]
    <3>1. BoundsUpTo(v, c) = l
      BY <1>1, <1>3, <1>6, <2>3, <2>5, UpToIs
    <3>2. l % 2 \in {0, 1}
      BY <1>3
    <3> QED
      BY <1>4, <1>6, <2>1, <2>5, <3>1, <3>2
  <2> QED
    BY <2>1, <2>2, <2>4, <2>5
<1> QED
  BY <1>1, <1>3, <1>5, <1>6

\* What insert makes of the bounds v with w: it keeps the first l and those after u, and
\* puts between them those of the new range that are not inside, or at the edge of, a
\* range: x of its first and y of its last.
Inserted(v, w, first, last, l, u, x, y) ==
  /\ l \in 0..Len(v) /\ u \in 0..Len(v) /\ l <= u
  /\ x \in {0, 1} /\ y \in {0, 1} /\ (l + x) % 2 = 1 /\ (u + y) % 2 = 1
  /\ w \in Seq(0..CodePointEnd) /\ Len(w) = l + x + y + (Len(v) - u)
  /\ \A k \in 1..l : w[k] = v[k] /\ v[k] < first
  /\ x = 1 => w[l + 1] = first
  /\ y = 1 => w[l + x + 1] = last
  /\ \A k \in u + 1..Len(v) : last < v[k] /\ w[l + x + y + (k - u)] = v[k]
  /\ \A k \in l + 1..u : first <= v[k] /\ v[k] <= last

\* Insert does so, wherever the new range lies.
LEMMA InsertShape ==
  ASSUME NEW v, IsRangeSet(v), NEW first \in 0..CodePointEnd, NEW last \in 0..CodePointEnd,
         first < last
  PROVE  \E l, u \in 0..Len(v), x, y \in {0, 1} :
           Inserted(v, Insert(v, first, last), first, last, l, u, x, y)
<1> DEFINE S == 0..CodePointEnd
           l == BoundsBelow(v, first)
           u == BoundsUpTo(v, last)
           A == SubSeq(v, 1, l)
           F == IF l % 2 = 0 THEN <<first>> ELSE <<>>
           G == IF u % 2 = 0 THEN <<last>> ELSE <<>>
           B == SubSeq(v, u + 1, Len(v))
           w == Insert(v, first, last)
           x == Len(F)
           y == Len(G)
<1>1. /\ Len(v) \in Nat /\ \A k \in 1..Len(v) : v[k] \in S
      /\ \A i, j \in 1..Len(v) : i < j => v[i] < v[j]
      /\ v \in Seq(S)
  BY BoundsAscend DEF Ascends, IsRangeSet
<1>0. /\ first \in Int /\ last \in Int /\ first # last /\ \A k \in 1..Len(v) : v[k] \in Int
  BY <1>1
<1>2. /\ l \in 0..Len(v) /\ \A k \in 1..Len(v) : v[k] < first <=> k <= l
      /\ u \in 0..Len(v) /\ \A k \in 1..Len(v) : v[k] <= last <=> k <= u
  BY <1>0, BoundsPassed
<1>3. w = ((A \o F) \o G) \o B
  BY <1>0 DEF Insert, InsertBounds
<1>4. first \in S /\ last \in S
  OBVIOUS
<1> HIDE DEF S, l, u, w
<1>5. A \in Seq(S) /\ Len(A) = l /\ \A k \in 1..l : A[k] = v[k]
  BY <1>1, <1>2, SubSeqProperties
<1>6. B \in Seq(S) /\ Len(B) = Len(v) - u /\ \A k \in 1..Len(v) - u : B[k] = v[u + k]
  BY <1>1, <1>2, SubSeqProperties
<1>7. /\ F \in Seq(S) /\ x \in {0, 1} /\ (x = 1 => F[1] = first)
      /\ x = IF l % 2 = 0 THEN 1 ELSE 0
  BY <1>4
<1>8. /\ G \in Seq(S) /\ y \in {0, 1} /\ (y = 1 => G[1] = last)
      /\ y = IF u % 2 = 0 THEN 1 ELSE 0
  BY <1>4
<1> HIDE DEF A, B, F, G
<1> DEFINE AF == A \o F
           AFG == AF \o G
<1>9. AF \in Seq(S) /\ Len(AF) = l + x /\ (\A k \in 1..l : AF[k] = v[k]) /\ (x = 1 => AF[l + 1] = first)
  <2>1. /\ AF \in Seq(S) /\ Len(AF) = Len(A) + x
        /\ \A k \in 1..Len(A) + x : AF[k] = IF k <= Len(A) THEN A[k] ELSE F[k - Len(A)]
    BY <1>5, <1>7, ConcatProperties
  <2>2. x = 1 => l + 1 \in 1..l + x /\ (l + 1) - l = 1 /\ ~(l + 1 <= l)
    BY <1>2
  <2>3. \A k \in 1..l : k \in 1..l + x
    BY <1>2, <1>7
  <2> QED
    BY <1>5, <1>7, <2>1, <2>2, <2>3, SMTT(60)
<1>10. /\ AFG \in Seq(S) /\ Len(AFG) = l + x + y /\ (\A k \in 1..l : AFG[k] = v[k])
       /\ (x = 1 => AFG[l + 1] = first) /\ (y = 1 => AFG[l + x + 1] = last)
  <2> HIDE DEF AF
  <2>0. /\ AFG \in Seq(S) /\ Len(AFG) = Len(AF) + Len(G)
        /\ \A k \in 1..Len(AF) + Len(G) : AFG[k] = IF k <= Len(AF) THEN AF[k] ELSE G[k - Len(AF)]
    <3>1. AF \in Seq(S) /\ G \in Seq(S)
      BY <1>8, <1>9
    <3> QED
      BY <3>1, ConcatProperties
  <2>1. /\ AFG \in Seq(S) /\ Len(AFG) = l + x + y
        /\ \A k \in 1..l + x + y : AFG[k] = IF k <= l + x THEN AF[k] ELSE G[k - (l + x)]
    BY <1>9, <2>0
  <2>2. \A k \in 1..l : k \in 1..l + x + y /\ k <= l + x
    BY <1>2, <1>7, <1>8
  <2>3. x = 1 => l + 1 \in 1..l + x + y /\ l + 1 <= l + x
    BY <1>2, <1>8
  <2>4. y = 1 => l + x + 1 \in 1..l + x + y /\ ~(l + x + 1 <= l + x) /\ (l + x + 1) - (l + x) = 1
    BY <1>2, <1>7
  <2> QED
    BY <1>8, <1>9, <2>1, <2>2, <2>3, <2>4, SMTT(60)
<1> HIDE DEF AF, AFG
<1> DEFINE m == l + x + y
<1>11. /\ w \in Seq(S) /\ Len(w) = m + (Len(v) - u)
       /\ \A k \in 1..m + (Len(v) - u) : w[k] = IF k <= m THEN AFG[k] ELSE B[k - m]
  <2>1. w = AFG \o B
    BY <1>3 DEF AF, AFG
  <2>2. /\ w \in Seq(S) /\ Len(w) = Len(AFG) + Len(B)
        /\ \A k \in 1..Len(AFG) + Len(B) : w[k] = IF k <= Len(AFG) THEN AFG[k] ELSE B[k - Len(AFG)]
    <3>1. AFG \in Seq(S) /\ B \in Seq(S)
      BY <1>6, <1>10
    <3> QED
      BY <2>1, <3>1, ConcatProperties
  <2> QED
    BY <1>6, <1>10, <2>2
<1>12. m \in Nat /\ l <= m
  BY <1>2, <1>7, <1>8
<1>13. \A k \in 1..l : w[k] = v[k] /\ v[k] < first
  <2> SUFFICES ASSUME NEW k \in 1..l PROVE w[k] = v[k] /\ v[k] < first
    OBVIOUS
  <2>1. k \in 1..m + (Len(v) - u) /\ k <= m /\ k \in 1..Len(v) /\ k <= l
    BY <1>1, <1>2, <1>12
  <2> QED
    BY <1>2, <1>10, <1>11, <2>1
<1>14. (x = 1 => w[l + 1] = first) /\ (y = 1 => w[l + x + 1] = last)
  <2>1. x = 1 => l + 1 \in 1..m + (Len(v) - u) /\ l + 1 <= m
    BY <1>1, <1>2, <1>8, SMTT(60)
  <2>2. y = 1 => l + x + 1 \in 1..m + (Len(v) - u) /\ l + x + 1 <= m
    BY <1>1, <1>2, <1>7
  <2> QED
    BY <1>10, <1>11, <2>1, <2>2
<1>15. \A k \in u + 1..Len(v) : last < v[k] /\ w[m + (k - u)] = v[k]
  <2> SUFFICES ASSUME NEW k \in u + 1..Len(v) PROVE last < v[k] /\ w[m + (k - u)] = v[k]
    OBVIOUS
  <2>1. /\ k \in 1..Len(v) /\ ~(k <= u) /\ m + (k - u) \in 1..m + (Len(v) - u)
        /\ ~(m + (k - u) <= m) /\ (m + (k - u)) - m = k - u
        /\ k - u \in 1..Len(v) - u /\ u + (k - u) = k
    BY <1>1, <1>2, <1>12
  <2>2. last < v[k]
    BY <1>0, <1>2, <2>1
  <2> QED
    BY <1>6, <1>11, <2>1, <2>2
<1>16. \A k \in l + 1..u : first <= v[k] /\ v[k] <= last
  <2> SUFFICES ASSUME NEW k \in l + 1..u PROVE first <= v[k] /\ v[k] <= last
    OBVIOUS
  <2>1. k \in 1..Len(v) /\ ~(k <= l) /\ k <= u /\ v[k] \in Int
    BY <1>0, <1>1, <1>2
  <2> QED
    BY <1>0, <1>2, <2>1
<1>17. l <= u
  <2> SUFFICES ASSUME l > 0 PROVE l <= u
    BY <1>2
  <2>1. l \in 1..Len(v) /\ v[l] < first /\ v[l] \in Int
    BY <1>0, <1>1, <1>2
  <2>2. v[l] <= last
    BY <1>0, <2>1
  <2> QED
    BY <1>2, <2>1, <2>2
<1>18. (l + x) % 2 = 1 /\ (u + y) % 2 = 1
  BY <1>2, <1>7, <1>8, SMTT(60)
<1>19. Inserted(v, w, first, last, l, u, x, y)
  <2> HIDE DEF x, y
  <2> QED
    BY <1>2, <1>7, <1>8, <1>11, <1>13, <1>14, <1>15, <1>16, <1>17, <1>18 DEF Inserted, S
<1> QED
  BY <1>2, <1>7, <1>8, <1>19 DEF w

\* The bounds that are kept in front are below the new range, those behind above it.
LEMMA InsertedParts ==
  ASSUME NEW v, IsRangeSet(v), NEW w, NEW first \in Int, NEW last \in Int, first < last,
         NEW l, NEW u, NEW x, NEW y, Inserted(v, w, first, last, l, u, x, y)
  PROVE  /\ \A k \in 1..Len(w) : w[k] \in Int
         /\ \A k \in 1..l + x : w[k] <= first
         /\ \A k \in 1..l + x + y : w[k] <= last
         /\ \A k \in l + 1..Len(w) : w[k] >= first
         /\ \A k \in l + x + 1..Len(w) : w[k] >= last
<1>1. Len(v) \in Nat /\ \A k \in 1..Len(v) : v[k] \in Int
  BY BoundsAscend
<1>2. /\ l \in 0..Len(v) /\ u \in 0..Len(v) /\ x \in {0, 1} /\ y \in {0, 1}
      /\ w \in Seq(0..CodePointEnd) /\ Len(w) = l + x + y + (Len(v) - u)
      /\ \A k \in 1..l : w[k] = v[k] /\ v[k] < first
      /\ x = 1 => w[l + 1] = first
      /\ y = 1 => w[l + x + 1] = last
      /\ \A k \in u + 1..Len(v) : last < v[k] /\ w[l + x + y + (k - u)] = v[k]
  BY DEF Inserted
<1>3. \A k \in 1..Len(w) : w[k] \in Int
  <2>1. w \in Seq(0..CodePointEnd)
    BY <1>2
  <2>2. \A k \in 1..Len(w) : w[k] \in 0..CodePointEnd
    BY <2>1, ElementOfSeq
  <2> QED
    BY <2>2
<1>4. \A k \in 1..Len(w) : k <= l \/ (k = l + 1 /\ x = 1) \/ (k = l + x + 1 /\ y = 1)
                             \/ l + x + y + 1 <= k
  BY <1>1, <1>2, SMTT(60)
<1>5. \A k \in l + x + y + 1..Len(w) : w[k] > last
  <2> SUFFICES ASSUME NEW k \in l + x + y + 1..Len(w) PROVE w[k] > last
    OBVIOUS
  <2> DEFINE i == k - (l + x + y) + u
  <2>1. i \in u + 1..Len(v) /\ l + x + y + (i - u) = k
    BY <1>1, <1>2
  <2>2. i \in 1..Len(v)
    BY <1>1, <1>2, <2>1
  <2> HIDE DEF i
  <2>3. w[k] = v[i] /\ last < v[i] /\ v[i] \in Int
    BY <1>1, <1>2, <2>1, <2>2
  <2> QED
    BY <2>3
<1>6. \A k \in 1..l + x : w[k] <= first
  <2> SUFFICES ASSUME NEW k \in 1..l + x PROVE w[k] <= first
    OBVIOUS
  <2>1. k \in 1..l \/ (k = l + 1 /\ x = 1)
    BY <1>1, <1>2, SMTT(60)
  <2>2. k \in 1..l => v[k] \in Int
    BY <1>1, <1>2, SMTT(60)
  <2> QED
    BY <1>2, <2>1, <2>2, SMTT(60)
<1>7. \A k \in 1..l + x + y : w[k] <= last
  <2> SUFFICES ASSUME NEW k \in 1..l + x + y PROVE w[k] <= last
    OBVIOUS
  <2>1. k \in 1..l + x \/ (k = l + x + 1 /\ y = 1)
    BY <1>1, <1>2, SMTT(60)
  <2>2. k \in 1..Len(w)
    BY <1>1, <1>2
  <2>3. k \in 1..l + x => w[k] <= first /\ w[k] \in Int
    BY <1>3, <1>6, <2>2
  <2> QED
    BY <1>2, <2>1, <2>3, SMTT(60)
<1>8. \A k \in l + 1..Len(w) : w[k] >= first
  <2> SUFFICES ASSUME NEW k \in l + 1..Len(w) PROVE w[k] >= first
    OBVIOUS
  <2>1. k \in 1..Len(w) /\ ~(k <= l) /\ (l + x + y + 1 <= k => k \in l + x + y + 1..Len(w)) /\ w[k] \in Int
    BY <1>1, <1>2, <1>3
  <2> QED
    BY <1>2, <1>4, <1>5, <2>1, SMTT(60)
<1>9. \A k \in l + x + 1..Len(w) : w[k] >= last
  <2> SUFFICES ASSUME NEW k \in l + x + 1..Len(w) PROVE w[k] >= last
    OBVIOUS
  <2>1. /\ k \in 1..Len(w) /\ ~(k <= l) /\ (l + x + y + 1 <= k => k \in l + x + y + 1..Len(w))
        /\ w[k] \in Int /\ ~(k = l + 1 /\ x = 1)
    BY <1>1, <1>2, <1>3, SMTT(60)
  <2> QED
    BY <1>2, <1>4, <1>5, <2>1, SMTT(60)
<1> QED
  BY <1>3, <1>6, <1>7, <1>8, <1>9

\* RangeSet::insert keeps the bounds those of disjoint ranges that do not touch.
LEMMA InsertedIsRangeSet ==
  ASSUME NEW v, IsRangeSet(v), NEW w, NEW first \in Int, NEW last \in Int, first < last,
         NEW l, NEW u, NEW x, NEW y, Inserted(v, w, first, last, l, u, x, y)
  PROVE  IsRangeSet(w)
<1>1. /\ Len(v) \in Nat /\ Len(v) % 2 = 0 /\ \A k \in 1..Len(v) : v[k] \in Int
      /\ \A k \in 2..Len(v) : v[k - 1] < v[k]
  BY BoundsAscend DEF IsRangeSet
<1>2. /\ l \in 0..Len(v) /\ u \in 0..Len(v) /\ x \in {0, 1} /\ y \in {0, 1}
      /\ (l + x) % 2 = 1 /\ (u + y) % 2 = 1
      /\ w \in Seq(0..CodePointEnd) /\ Len(w) = l + x + y + (Len(v) - u)
      /\ \A k \in 1..l : w[k] = v[k] /\ v[k] < first
      /\ x = 1 => w[l + 1] = first
      /\ y = 1 => w[l + x + 1] = last
      /\ \A k \in u + 1..Len(v) : last < v[k] /\ w[l + x + y + (k - u)] = v[k]
  BY DEF Inserted
<1>3. /\ \A k \in 1..Len(w) : w[k] \in Int
      /\ \A k \in 1..l + x : w[k] <= first
      /\ \A k \in 1..l + x + y : w[k] <= last
  BY InsertedParts
<1>n. /\ Len(v) \in Nat /\ l \in 0..Len(v) /\ u \in 0..Len(v) /\ x \in {0, 1} /\ y \in {0, 1}
      /\ Len(w) = l + x + y + (Len(v) - u)
  BY <1>1, <1>2
<1>4. Len(w) % 2 = 0
  <2>1. Len(v) % 2 = 0 /\ (l + x) % 2 = 1 /\ (u + y) % 2 = 1
    BY <1>1, <1>2
  <2> QED
    BY <1>n, <2>1, SMTT(60)
<1>5. ASSUME NEW k \in 2..Len(w) PROVE w[k - 1] < w[k]
  <2>0. k \in 1..Len(w) /\ k - 1 \in 1..Len(w) /\ w[k] \in Int /\ w[k - 1] \in Int
    BY <1>1, <1>2, <1>3, SMTT(60)
  <2>1. CASE k <= l
    <3>1. k \in 1..l /\ k - 1 \in 1..l /\ k \in 2..Len(v)
      BY <1>n, <2>1, SMTT(60)
    <3> QED
      BY <1>1, <1>2, <3>1
  <2>2. CASE k = l + 1 /\ x = 1
    <3>1. k - 1 \in 1..l /\ v[k - 1] \in Int
      BY <1>1, <1>2, <2>2
    <3>2. w[k] = first /\ w[k - 1] < first
      BY <1>2, <2>2, <3>1
    <3> QED
      BY <3>2
  <2>3. CASE k = l + x + 1 /\ y = 1
    <3>1. k - 1 \in 1..l + x
      BY <1>n, <2>3
    <3>2. w[k] = last /\ w[k - 1] <= first
      BY <1>2, <1>3, <2>3, <3>1
    <3> QED
      BY <2>0, <3>2
  <2>4. CASE k = l + x + y + 1
    <3>1. /\ k - 1 \in 1..l + x + y /\ u + 1 \in u + 1..Len(v) /\ u + 1 \in 1..Len(v)
          /\ l + x + y + ((u + 1) - u) = k
      BY <1>n, <2>4
    <3>2. w[k] = v[u + 1] /\ last < v[u + 1] /\ w[k - 1] <= last
      BY <1>2, <1>3, <3>1
    <3> QED
      BY <2>0, <3>2
  <2>5. CASE l + x + y + 1 < k
    <3> DEFINE i == k - (l + x + y) + u
    <3>1. /\ i \in u + 1..Len(v) /\ i - 1 \in u + 1..Len(v) /\ l + x + y + (i - u) = k
          /\ l + x + y + ((i - 1) - u) = k - 1 /\ i \in 2..Len(v)
      BY <1>n, <2>5
    <3> HIDE DEF i
    <3> QED
      BY <1>1, <1>2, <3>1
  <2> QED
    BY <1>1, <1>2, <2>1, <2>2, <2>3, <2>4, <2>5, SMTT(60)
<1> QED
  BY <1>2, <1>4, <1>5 DEF IsRangeSet

\* RangeSet::insert adds the code points of the new range, and no other.
LEMMA InsertedPoints ==
  ASSUME NEW v, IsRangeSet(v), NEW w, NEW first \in Int, NEW last \in Int, first < last,
         NEW l, NEW u, NEW x, NEW y, Inserted(v, w, first, last, l, u, x, y), NEW c \in Int
  PROVE  HasPoint(w, c) <=> HasPoint(v, c) \/ (first <= c /\ c < last)
<1>1. /\ Len(v) \in Nat /\ \A k \in 1..Len(v) : v[k] \in Int
  BY BoundsAscend
<1>2. /\ l \in 0..Len(v) /\ u \in 0..Len(v) /\ l <= u /\ x \in {0, 1} /\ y \in {0, 1}
      /\ (l + x) % 2 = 1 /\ (u + y) % 2 = 1
      /\ Len(w) = l + x + y + (Len(v) - u)
      /\ \A k \in 1..l : w[k] = v[k] /\ v[k] < first
      /\ \A k \in u + 1..Len(v) : last < v[k] /\ w[l + x + y + (k - u)] = v[k]
      /\ \A k \in l + 1..u : first <= v[k] /\ v[k] <= last
  BY DEF Inserted
<1>n. /\ Len(v) \in Nat /\ l \in 0..Len(v) /\ u \in 0..Len(v) /\ l <= u /\ x \in {0, 1} /\ y \in {0, 1}
      /\ (l + x) % 2 = 1 /\ (u + y) % 2 = 1
      /\ Len(w) = l + x + y + (Len(v) - u)
  BY <1>1, <1>2
<1>3. /\ \A k \in 1..Len(w) : w[k] \in Int
      /\ \A k \in 1..l + x : w[k] <= first
      /\ \A k \in 1..l + x + y : w[k] <= last
      /\ \A k \in l + 1..Len(w) : w[k] >= first
      /\ \A k \in l + x + 1..Len(w) : w[k] >= last
  BY InsertedParts
<1>4. IsRangeSet(w)
  BY InsertedIsRangeSet
<1> DEFINE j == BoundsUpTo(v, c)
           i == BoundsUpTo(w, c)
<1>5. j \in 0..Len(v) /\ \A k \in 1..Len(v) : v[k] <= c <=> k <= j
  BY BoundsPassed
<1>6. (HasPoint(v, c) <=> j % 2 = 1) /\ (HasPoint(w, c) <=> i % 2 = 1)
  BY <1>4, HasMeans
<1>7. ASSUME NEW m \in 0..Len(w), m > 0 => w[m] <= c, m < Len(w) => c < w[m + 1] PROVE i = m
  BY <1>4, <1>7, UpToIs
<1> HIDE DEF i, j
<1>8. CASE c < first
  <2>1. j <= l
    <3> SUFFICES ASSUME l < j PROVE FALSE
      BY <1>1, <1>2, <1>5
    <3>1. /\ l + 1 \in 1..Len(v) /\ l + 1 <= j /\ v[l + 1] \in Int
          /\ (l + 1 \in l + 1..u \/ l + 1 \in u + 1..Len(v))
      BY <1>1, <1>2, <1>5, SMTT(60)
    <3> QED
      BY <1>2, <1>5, <1>8, <3>1, SMTT(60)
  <2>2. j \in 0..Len(w)
    BY <1>1, <1>2, <1>5, <2>1, SMTT(60)
  <2>3. j > 0 => w[j] <= c
    <3> SUFFICES ASSUME j > 0 PROVE w[j] <= c
      OBVIOUS
    <3>1. j \in 1..l /\ j \in 1..Len(v)
      BY <1>2, <1>5, <2>1
    <3> QED
      BY <1>2, <1>5, <3>1, SMTT(60)
  <2>4. j < Len(w) => c < w[j + 1]
    <3> SUFFICES ASSUME j < Len(w) PROVE c < w[j + 1]
      OBVIOUS
    <3>1. CASE j < l
      <4>1. j + 1 \in 1..l /\ j + 1 \in 1..Len(v) /\ ~(j + 1 <= j) /\ v[j + 1] \in Int
        BY <1>1, <1>2, <1>5, <3>1, SMTT(60)
      <4> QED
        BY <1>2, <1>5, <4>1, SMTT(60)
    <3>2. CASE j = l
      <4>1. j + 1 \in l + 1..Len(w) /\ j + 1 \in 1..Len(w) /\ w[j + 1] \in Int
        BY <1>1, <1>2, <1>3, <1>5, <3>2, SMTT(60)
      <4> QED
        BY <1>3, <1>8, <4>1
    <3> QED
      BY <1>2, <1>5, <2>1, <3>1, <3>2
  <2>5. i = j
    BY <1>7, <2>2, <2>3, <2>4
  <2> QED
    BY <1>6, <1>8, <2>5
<1>9. CASE first <= c /\ c < last
  <2>1. l + x \in 0..Len(w) /\ l + x > 0 /\ l + x \in 1..l + x /\ l + x \in 1..Len(w)
    BY <1>n
  <2>2. w[l + x] <= c
    BY <1>3, <1>9, <2>1
  <2>3. l + x < Len(w) => c < w[l + x + 1]
    <3> SUFFICES ASSUME l + x < Len(w) PROVE c < w[l + x + 1]
      OBVIOUS
    <3>1. l + x + 1 \in l + x + 1..Len(w) /\ l + x + 1 \in 1..Len(w)
      BY <1>1, <1>2, SMTT(60)
    <3>2. w[l + x + 1] >= last /\ w[l + x + 1] \in Int
      BY <1>3, <3>1
    <3> QED
      BY <1>9, <3>2
  <2>4. i = l + x
    BY <1>7, <2>1, <2>2, <2>3
  <2> QED
    BY <1>2, <1>6, <1>9, <2>4
<1>10. CASE last <= c
  <2>1. u <= j
    <3> SUFFICES ASSUME u > 0 PROVE u <= j
      BY <1>2, <1>5
    <3>1. u \in 1..Len(v) /\ v[u] \in Int /\ (u \in l + 1..u \/ u \in 1..l)
      BY <1>1, <1>2
    <3>2. v[u] <= c
      BY <1>2, <1>10, <3>1, SMTT(60)
    <3> QED
      BY <1>5, <3>1, <3>2
  <2> DEFINE m == l + x + y + (j - u)
  <2>2. m \in 0..Len(w)
    BY <1>1, <1>2, <1>5, <2>1
  <2>3. m > 0 => w[m] <= c
    <3> SUFFICES ASSUME m > 0 PROVE w[m] <= c
      OBVIOUS
    <3>1. CASE j = u
      <4>1. m \in 1..l + x + y /\ m \in 1..Len(w)
        BY <1>1, <1>2, <2>2, <3>1
      <4>2. w[m] <= last /\ w[m] \in Int
        BY <1>3, <4>1
      <4> QED
        BY <1>10, <4>2
    <3>2. CASE u < j
      <4>1. j \in u + 1..Len(v) /\ j \in 1..Len(v)
        BY <1>1, <1>2, <1>5, <3>2
      <4>2. w[m] = v[j] /\ v[j] <= c
        BY <1>2, <1>5, <4>1
      <4> QED
        BY <4>2
    <3> QED
      BY <1>2, <1>5, <2>1, <3>1, <3>2
  <2>4. m < Len(w) => c < w[m + 1]
    <3> SUFFICES ASSUME m < Len(w) PROVE c < w[m + 1]
      OBVIOUS
    <3>1. /\ j + 1 \in u + 1..Len(v) /\ j + 1 \in 1..Len(v) /\ ~(j + 1 <= j)
          /\ l + x + y + ((j + 1) - u) = m + 1 /\ v[j + 1] \in Int
      BY <1>1, <1>2, <1>5, <2>1, SMTT(60)
    <3>2. w[m + 1] = v[j + 1] /\ ~(v[j + 1] <= c)
      BY <1>2, <1>5, <3>1, SMTT(60)
    <3> QED
      BY <3>1, <3>2
  <2>5. i = m
    <3> HIDE DEF m
    <3> QED
      BY <1>7, <2>2, <2>3, <2>4
  <2>6. m % 2 = 1 <=> j % 2 = 1
    <3>1. j \in 0..Len(v)
      BY <1>5
    <3> QED
      BY <1>n, <3>1, SMTT(60)
  <2> QED
    BY <1>6, <1>10, <2>5, <2>6
<1> QED
  BY <1>8, <1>9, <1>10

\* RangeSet::insert, for every set and range.
LEMMA InsertAddsRange ==
  ASSUME NEW v, IsRangeSet(v), NEW first \in 0..CodePointEnd, NEW last \in 0..CodePointEnd,
         first <= last
  PROVE  /\ IsRangeSet(Insert(v, first, last))
         /\ \A c \in Int :
              HasPoint(Insert(v, first, last), c) <=> HasPoint(v, c) \/ (first <= c /\ c < last)
<1>1. first \in Int /\ last \in Int
  OBVIOUS
<1>2. CASE first = last
  <2>1. Insert(v, first, last) = v
    BY <1>2 DEF Insert, InsertBounds
  <2>2. \A c \in Int : ~(first <= c /\ c < last)
    BY <1>1, <1>2
  <2> QED
    BY <2>1, <2>2
<1>3. CASE first < last
  <2> DEFINE w == Insert(v, first, last)
  <2>1. PICK l, u \in 0..Len(v), x, y \in {0, 1} : Inserted(v, w, first, last, l, u, x, y)
    BY <1>3, InsertShape
  <2> HIDE DEF w
  <2>2. IsRangeSet(w)
    BY <1>1, <1>3, <2>1, InsertedIsRangeSet
  <2>3. \A c \in Int : HasPoint(w, c) <=> HasPoint(v, c) \/ (first <= c /\ c < last)
    BY <1>1, <1>3, <2>1, InsertedPoints
  <2> QED
    BY <2>2, <2>3 DEF w
<1> QED
  BY <1>1, <1>2, <1>3

\* What flip makes of the bounds v: a bound more or less in front, so that they move by d
\* places, and one more or less at the end.
Flipped(v, w, d, e) ==
  /\ d \in {-1, 1} /\ e \in {-1, 1}
  /\ w \in Seq(0..CodePointEnd) /\ Len(w) = Len(v) + d + e
  /\ \A k \in 1..Len(w) : IF k = d THEN w[k] = 0
                          ELSE IF k = Len(v) + d + 1 THEN w[k] = CodePointEnd
                          ELSE w[k] = v[k - d]
  /\ IF d = 1 THEN v[1] > 0 ELSE v[1] = 0
  /\ IF e = 1 THEN v[Len(v)] < CodePointEnd ELSE v[Len(v)] = CodePointEnd

\* Flip does so, unless there are no ranges.
LEMMA FlipShape ==
  ASSUME NEW v, IsRangeSet(v), v # <<>>
  PROVE  Len(v) >= 2 /\ \E d, e \in {-1, 1} : Flipped(v, Flip(v), d, e)
<1> DEFINE S == 0..CodePointEnd
           f == IF Head(v) = 0 THEN Tail(v) ELSE <<0>> \o v
           w == IF Last(v) = CodePointEnd THEN Front(f) ELSE Append(f, CodePointEnd)
           d == IF Head(v) = 0 THEN -1 ELSE 1
           e == IF Last(v) = CodePointEnd THEN -1 ELSE 1
<1>1. /\ Len(v) \in Nat /\ Len(v) % 2 = 0 /\ (\A k \in 1..Len(v) : v[k] \in S) /\ v \in Seq(S)
  BY BoundsAscend DEF IsRangeSet
<1>2. Flip(v) = w
  BY DEF Flip
<1>3. Len(v) # 0
  BY <1>1, EmptySeq
<1>4. Len(v) >= 2
  BY <1>1, <1>3
<1>5. 0 \in S /\ CodePointEnd \in S /\ CodePointEnd \in Nat
  BY EndIsNumber
<1>6. Head(v) = v[1] /\ Last(v) = v[Len(v)]
  BY <1>1, <1>4, HeadTailProperties DEF Last
<1>7. v[1] \in Int /\ v[1] >= 0 /\ v[Len(v)] \in Int /\ v[Len(v)] <= CodePointEnd
  BY <1>1, <1>4
<1> HIDE DEF S
<1>8. /\ d \in {-1, 1} /\ f \in Seq(S) /\ Len(f) = Len(v) + d
      /\ \A k \in 1..Len(v) + d : f[k] = IF k = d THEN 0 ELSE v[k - d]
  <2>1. CASE Head(v) = 0
    <3>1. /\ Tail(v) \in Seq(S) /\ Len(Tail(v)) = Len(v) - 1
          /\ \A k \in 1..Len(v) - 1 : Tail(v)[k] = v[k + 1]
      BY <1>1, HeadTailProperties
    <3>2. d = -1 /\ f = Tail(v)
      BY <2>1
    <3>3. \A k \in 1..Len(v) + d : k \in 1..Len(v) - 1 /\ k # d /\ k - d = k + 1
      BY <1>1, <3>2
    <3> HIDE DEF d, f
    <3>4. Len(f) = Len(v) + d
      BY <1>1, <3>1, <3>2
    <3> QED
      BY <3>1, <3>2, <3>3, <3>4
  <2>2. CASE Head(v) # 0
    <3>0. <<0>> \in Seq(S) /\ Len(<<0>>) = 1 /\ <<0>>[1] = 0
      BY <1>5
    <3> DEFINE z == <<0>>
    <3>1. d = 1 /\ f = z \o v
      BY <2>2
    <3> HIDE DEF z
    <3>2. z \in Seq(S) /\ Len(z) = 1 /\ z[1] = 0
      BY <3>0 DEF z
    <3>3. /\ z \o v \in Seq(S) /\ Len(z \o v) = Len(z) + Len(v)
          /\ \A k \in 1..Len(z) + Len(v) : (z \o v)[k] = IF k <= Len(z) THEN z[k] ELSE v[k - Len(z)]
      BY <1>1, <3>2, ConcatProperties
    <3> HIDE DEF d, f
    <3>4. f \in Seq(S) /\ Len(f) = 1 + Len(v) /\ \A k \in 1..1 + Len(v) : f[k] = IF k <= 1 THEN z[k] ELSE v[k - 1]
      BY <3>1, <3>2, <3>3
    <3>5. Len(v) + d = 1 + Len(v) /\ \A k \in 1..1 + Len(v) : k <= 1 <=> k = d
      BY <1>1, <3>1
    <3> QED
      BY <3>1, <3>2, <3>4, <3>5
  <2> QED
    BY <2>1, <2>2
<1> HIDE DEF d, f
<1>9. /\ e \in {-1, 1} /\ w \in Seq(S) /\ Len(w) = Len(v) + d + e
      /\ \A k \in 1..Len(v) + d + e : w[k] = IF k = Len(v) + d + 1 THEN CodePointEnd ELSE f[k]
  <2>1. CASE Last(v) = CodePointEnd
    <3>1. e = -1 /\ w = SubSeq(f, 1, Len(f) - 1)
      BY <2>1 DEF Front
    <3>2. 1 \in Int /\ Len(f) - 1 \in 0..Len(f) /\ Len(v) + d + e = Len(f) - 1
      BY <1>1, <1>4, <1>8, <3>1
    <3>3. /\ w \in Seq(S) /\ Len(w) = Len(f) - 1
          /\ \A k \in 1..Len(f) - 1 : w[k] = f[k]
      BY <1>8, <3>1, <3>2, SubSeqProperties, SMTT(60)
    <3> HIDE DEF e, w
    <3>4. \A k \in 1..Len(v) + d + e : k \in 1..Len(f) - 1 /\ k # Len(v) + d + 1
      BY <1>1, <1>8, <3>1, <3>2
    <3>5. Len(w) = Len(v) + d + e
      BY <3>2, <3>3
    <3> QED
      BY <3>1, <3>3, <3>4, <3>5
  <2>2. CASE Last(v) # CodePointEnd
    <3>1. e = 1 /\ w = Append(f, CodePointEnd)
      BY <2>2
    <3>2. /\ Append(f, CodePointEnd) \in Seq(S) /\ Len(Append(f, CodePointEnd)) = Len(f) + 1
          /\ \A k \in 1..Len(f) : Append(f, CodePointEnd)[k] = f[k]
          /\ Append(f, CodePointEnd)[Len(f) + 1] = CodePointEnd
      BY <1>5, <1>8, AppendProperties
    <3> HIDE DEF e, w
    <3>3. \A k \in 1..Len(v) + d + e : k \in 1..Len(f) \/ k = Len(f) + 1
      BY <1>1, <1>8, <3>1
    <3>4. Len(v) + d + 1 = Len(f) + 1 /\ Len(v) + d + e = Len(f) + 1 /\ Len(f) \in Nat
      BY <1>1, <1>4, <1>8, <3>1
    <3>5. \A k \in 1..Len(f) : k # Len(f) + 1
      BY <3>4
    <3> QED
      BY <3>1, <3>2, <3>3, <3>4, <3>5
  <2> QED
    BY <2>1, <2>2
<1>10. /\ IF d = 1 THEN v[1] > 0 ELSE v[1] = 0
       /\ IF e = 1 THEN v[Len(v)] < CodePointEnd ELSE v[Len(v)] = CodePointEnd
  BY <1>5, <1>6, <1>7 DEF d
<1> HIDE DEF e, w
<1>11. ASSUME NEW k \in 1..Len(w)
       PROVE  IF k = d THEN w[k] = 0
              ELSE IF k = Len(v) + d + 1 THEN w[k] = CodePointEnd ELSE w[k] = v[k - d]
  <2>1. k \in 1..Len(v) + d + e /\ (k = Len(v) + d + 1 \/ k \in 1..Len(v) + d)
    BY <1>1, <1>8, <1>9
  <2>2. k = d => k # Len(v) + d + 1
    BY <1>1, <1>8
  <2> QED
    BY <1>8, <1>9, <2>1, <2>2
<1>12. Flipped(v, w, d, e)
  BY <1>8, <1>9, <1>10, <1>11 DEF Flipped, S
<1> QED
  BY <1>2, <1>4, <1>8, <1>9, <1>12

\* Flipped bounds are those of disjoint ranges that do not touch.
LEMMA FlippedIsRangeSet ==
  ASSUME NEW v, IsRangeSet(v), Len(v) >= 2, NEW w, NEW d, NEW e, Flipped(v, w, d, e)
  PROVE  IsRangeSet(w)
<1>1. /\ Len(v) \in Nat /\ Len(v) % 2 = 0 /\ (\A k \in 1..Len(v) : v[k] \in Int)
      /\ \A k \in 2..Len(v) : v[k - 1] < v[k]
  BY BoundsAscend DEF IsRangeSet
<1>2. /\ d \in {-1, 1} /\ e \in {-1, 1} /\ w \in Seq(0..CodePointEnd) /\ Len(w) = Len(v) + d + e
      /\ IF d = 1 THEN v[1] > 0 ELSE v[1] = 0
      /\ IF e = 1 THEN v[Len(v)] < CodePointEnd ELSE v[Len(v)] = CodePointEnd
  BY DEF Flipped
<1>3. \A k \in 1..Len(w) : IF k = d THEN w[k] = 0
                           ELSE IF k = Len(v) + d + 1 THEN w[k] = CodePointEnd
                           ELSE w[k] = v[k - d]
  BY DEF Flipped
<1>4. Len(w) % 2 = 0
  <2>1. Len(v) \in Nat /\ Len(v) % 2 = 0 /\ d \in {-1, 1} /\ e \in {-1, 1} /\ Len(w) = Len(v) + d + e
    BY <1>1, <1>2
  <2> QED
    BY <2>1
<1>5. ASSUME NEW k \in 2..Len(w) PROVE w[k - 1] < w[k]
  <2>1. k \in Int /\ k - 1 \in 1..Len(w) /\ k \in 1..Len(w) /\ k # d
    BY <1>1, <1>2
  <2>2. k - 1 # Len(v) + d + 1
    BY <1>1, <1>2
  <2>3. CASE k - 1 = d
    <3>1. w[k - 1] = 0 /\ k - d = 1 /\ k # Len(v) + d + 1 /\ d = 1
      BY <1>1, <1>2, <1>3, <2>1, <2>3
    <3>2. w[k] = v[1]
      BY <1>3, <2>1, <3>1
    <3> QED
      BY <1>1, <1>2, <3>1, <3>2
  <2>4. CASE k - 1 # d /\ k = Len(v) + d + 1
    <3>1. w[k] = CodePointEnd /\ w[k - 1] = v[(k - 1) - d]
      BY <1>3, <2>1, <2>2, <2>4
    <3>2. (k - 1) - d = Len(v) /\ e = 1
      BY <1>1, <1>2, <2>4
    <3> QED
      BY <1>2, <3>1, <3>2
  <2>5. CASE k - 1 # d /\ k # Len(v) + d + 1
    <3>1. w[k] = v[k - d] /\ w[k - 1] = v[(k - 1) - d]
      BY <1>3, <2>1, <2>2, <2>5
    <3>2. k - d \in 2..Len(v) /\ (k - 1) - d = (k - d) - 1
      BY <1>1, <1>2, <2>1, <2>5, SMTT(60)
    <3> QED
      BY <1>1, <3>1, <3>2
  <2> QED
    BY <2>3, <2>4, <2>5
<1> QED
  BY <1>2, <1>4, <1>5 DEF IsRangeSet

\* The bounds up to a code point are one more or less than they were.
LEMMA FlippedPoints ==
  ASSUME NEW v, IsRangeSet(v), Len(v) >= 2, NEW w, NEW d, NEW e, Flipped(v, w, d, e),
         NEW c \in 0..CodePointEnd - 1
  PROVE  HasPoint(w, c) <=> ~HasPoint(v, c)
<1>1. /\ Len(v) \in Nat /\ (\A k \in 1..Len(v) : v[k] \in Int) /\ c \in Int
      /\ 0 <= c /\ c < CodePointEnd
  BY BoundsAscend, EndIsNumber
<1>2. /\ d \in {-1, 1} /\ e \in {-1, 1} /\ Len(w) = Len(v) + d + e
      /\ IF d = 1 THEN v[1] > 0 ELSE v[1] = 0
      /\ IF e = 1 THEN v[Len(v)] < CodePointEnd ELSE v[Len(v)] = CodePointEnd
  BY DEF Flipped
<1>3. \A k \in 1..Len(w) : IF k = d THEN w[k] = 0
                           ELSE IF k = Len(v) + d + 1 THEN w[k] = CodePointEnd
                           ELSE w[k] = v[k - d]
  BY DEF Flipped
<1> DEFINE j == BoundsUpTo(v, c)
<1>4. j \in 0..Len(v) /\ \A k \in 1..Len(v) : v[k] <= c <=> k <= j
  BY <1>1, BoundsPassed
<1>5. HasPoint(v, c) <=> j % 2 = 1
  BY <1>1, HasMeans
<1> HIDE DEF j
<1>6. d = -1 => j >= 1
  BY <1>1, <1>2, <1>4
<1>7. e = -1 => j < Len(v)
  <2>1. e = -1 => Len(v) \in 1..Len(v) /\ ~(v[Len(v)] <= c)
    BY <1>1, <1>2, EndIsNumber
  <2>2. e = -1 => ~(Len(v) <= j)
    BY <1>4, <2>1
  <2> QED
    BY <1>1, <1>4, <2>2
<1>8. j + d \in 0..Len(w)
  BY <1>1, <1>2, <1>4, <1>6, <1>7
<1>9. j + d > 0 => w[j + d] <= c
  <2> SUFFICES ASSUME j + d > 0 PROVE w[j + d] <= c
    OBVIOUS
  <2>1. j + d \in 1..Len(w) /\ j + d # Len(v) + d + 1 /\ (j + d = d <=> j = 0) /\ (j + d) - d = j
    BY <1>1, <1>2, <1>4, <1>8
  <2>2. CASE j = 0
    BY <1>1, <1>3, <2>1, <2>2
  <2>3. CASE j # 0
    <3>1. w[j + d] = v[j] /\ j \in 1..Len(v)
      BY <1>1, <1>3, <1>4, <2>1, <2>3
    <3> QED
      BY <1>1, <1>4, <3>1
  <2> QED
    BY <2>2, <2>3
<1>10. j + d < Len(w) => c < w[(j + d) + 1]
  <2> SUFFICES ASSUME j + d < Len(w) PROVE c < w[(j + d) + 1]
    OBVIOUS
  <2>1. /\ (j + d) + 1 \in 1..Len(w) /\ (j + d) + 1 # d /\ ((j + d) + 1 = Len(v) + d + 1 <=> j = Len(v))
        /\ ((j + d) + 1) - d = j + 1
    BY <1>1, <1>2, <1>4, <1>8, SMTT(60)
  <2>2. CASE j = Len(v)
    BY <1>1, <1>3, <2>1, <2>2
  <2>3. CASE j # Len(v)
    <3>1. w[(j + d) + 1] = v[j + 1] /\ j + 1 \in 1..Len(v) /\ ~(j + 1 <= j)
      BY <1>1, <1>3, <1>4, <2>1, <2>3
    <3>2. ~(v[j + 1] <= c) /\ v[j + 1] \in Int
      BY <1>1, <1>4, <3>1
    <3> QED
      BY <1>1, <3>1, <3>2
  <2> QED
    BY <2>2, <2>3
<1>11. IsRangeSet(w)
  BY FlippedIsRangeSet
<1>12. BoundsUpTo(w, c) = j + d
  BY <1>1, <1>8, <1>9, <1>10, <1>11, UpToIs
<1>13. HasPoint(w, c) <=> (j + d) % 2 = 1
  BY <1>1, <1>11, <1>12, HasMeans
<1>14. (j + d) % 2 = 1 <=> ~(j % 2 = 1)
  <2>1. j \in Nat /\ d \in {-1, 1}
    BY <1>1, <1>2, <1>4
  <2> QED
    BY <2>1
<1> QED
  BY <1>5, <1>13, <1>14

\* RangeSet::flip complements a set among the code points.
LEMMA FlipComplements ==
  ASSUME NEW v, IsRangeSet(v)
  PROVE  /\ IsRangeSet(Flip(v))
         /\ \A c \in 0..CodePointEnd - 1 : HasPoint(Flip(v), c) <=> ~HasPoint(v, c)
<1>1. CASE v = <<>>
  <2> DEFINE z == <<0, CodePointEnd>>
  <2>1. Flip(v) = z
    BY <1>1 DEF Flip
  <2>2. z \in Seq(0..CodePointEnd) /\ Len(z) = 2 /\ z[1] = 0 /\ z[2] = CodePointEnd
    BY EndIsNumber
  <2> HIDE DEF z
  <2>3. IsRangeSet(z)
    <3>1. 2 % 2 = 0 /\ \A k \in 2..2 : k - 1 = 1 /\ k = 2
      OBVIOUS
    <3> QED
      BY <2>2, <3>1, EndIsNumber DEF IsRangeSet
  <2>4. ASSUME NEW c \in 0..CodePointEnd - 1 PROVE HasPoint(z, c) /\ ~HasPoint(v, c)
    <3>0. c \in Int /\ 0 <= c /\ c < CodePointEnd
      BY EndIsNumber
    <3>1. 1 \in 0..Len(z) /\ (1 > 0 => z[1] <= c) /\ (1 < Len(z) => c < z[1 + 1])
      BY <2>2, <3>0
    <3>2. BoundsUpTo(z, c) = 1
      BY <2>3, <3>0, <3>1, UpToIs
    <3>3. Len(v) = 0
      BY <1>1
    <3>4. BoundsUpTo(v, c) = 0
      BY <3>0, <3>3, BoundsPassed
    <3>5. 1 % 2 = 1 /\ ~(0 % 2 = 1)
      OBVIOUS
    <3> QED
      BY <2>3, <3>0, <3>2, <3>4, <3>5, HasMeans
  <2> QED
    BY <2>1, <2>3, <2>4
<1>2. CASE v # <<>>
  <2> DEFINE w == Flip(v)
  <2>1. Len(v) >= 2 /\ \E d, e \in {-1, 1} : Flipped(v, w, d, e)
    BY <1>2, FlipShape
  <2> HIDE DEF w
  <2>2. PICK d, e \in {-1, 1} : Flipped(v, w, d, e)
    BY <2>1
  <2>3. IsRangeSet(w)
    BY <2>1, <2>2, FlippedIsRangeSet
  <2>4. \A c \in 0..CodePointEnd - 1 : HasPoint(w, c) <=> ~HasPoint(v, c)
    BY <2>1, <2>2, FlippedPoints
  <2> QED
    BY <2>3, <2>4 DEF w
<1> QED
  BY <1>1, <1>2

-----------------------------------------------------------------------------
\* Ranges, and the numbers that the first n of them hold.
AreRanges(r) ==
  /\ Len(r) \in Nat
  /\ \A k \in 1..Len(r) :
       r[k][1] \in 0..CodePointEnd /\ r[k][2] \in 0..CodePointEnd /\ r[k][1] <= r[k][2]

InRanges(r, n, c) == \E k \in 1..n : r[k][1] <= c /\ c < r[k][2]

\* f inserts the first n of the ranges r into v one by one, as InsertRanges does.
InsertsAll(f, v, r, n) ==
  f = [k \in 0..n |-> IF k = 0 THEN v ELSE Insert(f[k - 1], r[k][1], r[k][2])]

\* There is such a function for every number of ranges.
LEMMA InsertsExist ==
  ASSUME NEW v, NEW r PROVE \A n \in Nat : \E f : InsertsAll(f, v, r, n)
<1> DEFINE T == {n \in Nat : \E f : InsertsAll(f, v, r, n)}
<1>1. 0 \in T
  <2> DEFINE f == [k \in 0..0 |-> v]
  <2>1. f = [k \in 0..0 |-> IF k = 0 THEN v ELSE Insert(f[k - 1], r[k][1], r[k][2])]
    OBVIOUS
  <2> HIDE DEF f
  <2> QED
    BY <2>1 DEF InsertsAll
<1>2. ASSUME NEW n \in T PROVE n + 1 \in T
  <2>1. PICK f : InsertsAll(f, v, r, n)
    OBVIOUS
  <2>2. \A k \in 0..n : f[k] = IF k = 0 THEN v ELSE Insert(f[k - 1], r[k][1], r[k][2])
    BY <2>1 DEF InsertsAll
  <2> DEFINE z == Insert(f[n], r[n + 1][1], r[n + 1][2])
             g == [k \in 0..n + 1 |-> IF k <= n THEN f[k] ELSE z]
  <2>3. ASSUME NEW k \in 0..n + 1
        PROVE  g[k] = IF k = 0 THEN v ELSE Insert(g[k - 1], r[k][1], r[k][2])
    <3>1. CASE k <= n
      <4>1. k \in 0..n /\ (k # 0 => k - 1 \in 0..n + 1 /\ k - 1 <= n)
        BY <3>1
      <4> QED
        BY <2>2, <3>1, <4>1
    <3>2. CASE k = n + 1
      <4>1. k - 1 = n /\ k # 0 /\ ~(k <= n) /\ n \in 0..n + 1 /\ n <= n
        BY <3>2
      <4>2. g[k - 1] = f[n] /\ g[k] = z
        BY <4>1
      <4> QED
        BY <3>2, <4>1, <4>2
    <3> QED
      BY <3>1, <3>2
  <2>4. g = [k \in 0..n + 1 |-> g[k]]
    OBVIOUS
  <2> HIDE DEF g
  <2>5. g = [k \in 0..n + 1 |-> IF k = 0 THEN v ELSE Insert(g[k - 1], r[k][1], r[k][2])]
    BY <2>3, <2>4
  <2>6. InsertsAll(g, v, r, n + 1)
    BY <2>5 DEF InsertsAll
  <2> QED
    BY <2>6
<1>3. T \subseteq Nat
  OBVIOUS
<1> HIDE DEF T
<1>4. \A n \in Nat : n \in T
  BY <1>1, <1>2, <1>3, InductionOnNat
<1> QED
  BY <1>4 DEF T

\* Inserting ranges one by one adds the numbers they hold.
LEMMA InsertRangesAdds ==
  ASSUME NEW v, IsRangeSet(v), NEW r, AreRanges(r)
  PROVE  /\ IsRangeSet(InsertRanges(v, r))
         /\ \A c \in Int : HasPoint(InsertRanges(v, r), c) <=> HasPoint(v, c) \/ InRanges(r, Len(r), c)
<1> DEFINE n == Len(r)
           F == CHOOSE f : f = [k \in 0..n |-> IF k = 0 THEN v ELSE Insert(f[k - 1], r[k][1], r[k][2])]
<1>1. InsertRanges(v, r) = F[n]
  BY DEF InsertRanges
<1>2. n \in Nat
  BY DEF AreRanges
<1>3. \E f : InsertsAll(f, v, r, n)
  BY <1>2, InsertsExist
<1>4. F = [k \in 0..n |-> IF k = 0 THEN v ELSE Insert(F[k - 1], r[k][1], r[k][2])]
  BY <1>3 DEF InsertsAll
<1> HIDE DEF F
<1>5. F[0] = v
  BY <1>2, <1>4
<1>6. \A k \in 1..n : F[k] = Insert(F[k - 1], r[k][1], r[k][2])
  BY <1>2, <1>4
<1> DEFINE Good(k) == /\ IsRangeSet(F[k])
                      /\ \A c \in Int : HasPoint(F[k], c) <=> HasPoint(v, c) \/ InRanges(r, k, c)
           T == {k \in Nat : k <= n => Good(k)}
<1>7. 0 \in T
  <2>1. \A c \in Int : ~InRanges(r, 0, c)
    BY DEF InRanges
  <2> QED
    BY <1>5, <2>1
<1>8. ASSUME NEW k \in Nat, k \in T PROVE k + 1 \in T
  <2> DEFINE j == k + 1
  <2> SUFFICES ASSUME j <= n PROVE Good(j)
    OBVIOUS
  <2>1. j \in 1..n /\ j - 1 = k /\ k <= n /\ 1..j = (1..k) \cup {j}
    BY <1>2
  <2>2. Good(k)
    BY <1>8, <2>1
  <2> HIDE DEF j
  <2>3. r[j][1] \in 0..CodePointEnd /\ r[j][2] \in 0..CodePointEnd /\ r[j][1] <= r[j][2]
    BY <2>1 DEF AreRanges
  <2>4. F[j] = Insert(F[k], r[j][1], r[j][2])
    BY <1>6, <2>1
  <2>5. /\ IsRangeSet(F[j])
        /\ \A c \in Int : HasPoint(F[j], c) <=> HasPoint(F[k], c) \/ (r[j][1] <= c /\ c < r[j][2])
    BY <2>2, <2>3, <2>4, InsertAddsRange, SMTT(60)
  <2>6. \A c \in Int : InRanges(r, j, c) <=> InRanges(r, k, c) \/ (r[j][1] <= c /\ c < r[j][2])
    BY <2>1 DEF InRanges
  <2> QED
    BY <2>2, <2>5, <2>6
<1>9. T \subseteq Nat
  OBVIOUS
<1> HIDE DEF T
<1>10. \A k \in Nat : k \in T
  BY <1>7, <1>8, <1>9, InductionOnNat
<1>11. Good(n)
  BY <1>2, <1>10 DEF T
<1> QED
  BY <1>1, <1>11

\* The ranges that bounds are of: they hold the members.
LEMMA RangesHold ==
  ASSUME NEW v, IsRangeSet(v)
  PROVE  /\ AreRanges(RangesOf(v)) /\ Len(RangesOf(v)) = Len(v) \div 2 /\ Len(v) \div 2 \in Nat
         /\ \A k \in 1..Len(v) \div 2 :
              /\ RangesOf(v)[k][1] = v[2*k - 1] /\ RangesOf(v)[k][2] = v[2*k]
              /\ 2*k - 1 \in 1..Len(v) /\ 2*k \in 1..Len(v) /\ v[2*k - 1] < v[2*k]
         /\ \A c \in Int : HasPoint(v, c) <=> InRanges(RangesOf(v), Len(v) \div 2, c)
<1> DEFINE r == RangesOf(v)
           n == Len(v) \div 2
<1>1. /\ Len(v) \in Nat /\ (\A k \in 1..Len(v) : v[k] \in 0..CodePointEnd /\ v[k] \in Int)
      /\ \A i, j \in 1..Len(v) : i < j => v[i] < v[j]
  BY BoundsAscend DEF Ascends
<1>2. Len(v) % 2 = 0
  BY DEF IsRangeSet
<1>3. n \in Nat /\ Len(v) = 2 * n
  BY <1>1, <1>2
<1> HIDE DEF n
<1>4. r = [k \in 1..n |-> <<v[2*k - 1], v[2*k]>>]
  BY DEF RangesOf, n
<1>5. Len(r) = n
  BY <1>3, <1>4
<1>6. \A k \in 1..n : r[k][1] = v[2*k - 1] /\ r[k][2] = v[2*k]
  BY <1>4
<1> HIDE DEF r
<1>7. \A k \in 1..n : 2*k - 1 \in 1..Len(v) /\ 2*k \in 1..Len(v) /\ 2*k - 1 < 2*k
  BY <1>3
<1>8. \A k \in 1..n : v[2*k - 1] < v[2*k]
  BY <1>1, <1>7
<1>9. AreRanges(r)
  BY <1>1, <1>3, <1>5, <1>6, <1>7, <1>8, SMTT(60) DEF AreRanges
<1>10. ASSUME NEW c \in Int PROVE HasPoint(v, c) <=> InRanges(r, n, c)
  <2> DEFINE u == BoundsUpTo(v, c)
  <2>1. u \in 0..Len(v) /\ \A k \in 1..Len(v) : v[k] <= c <=> k <= u
    BY BoundsPassed
  <2>2. HasPoint(v, c) <=> u % 2 = 1
    BY HasMeans
  <2> HIDE DEF u
  <2>3. ASSUME u % 2 = 1 PROVE InRanges(r, n, c)
    <3> DEFINE k == (u + 1) \div 2
    <3>1. k \in Nat /\ 2 * k = u + 1
      BY <1>1, <2>1, <2>3
    <3> HIDE DEF k
    <3>2. k \in 1..n /\ 2*k - 1 <= u /\ ~(2*k <= u)
      BY <1>3, <2>1, <3>1
    <3>3. v[2*k - 1] <= c /\ ~(v[2*k] <= c)
      BY <1>7, <2>1, <3>2
    <3>4. r[k][1] <= c /\ c < r[k][2]
      BY <1>1, <1>6, <1>7, <3>2, <3>3
    <3> QED
      BY <3>2, <3>4 DEF InRanges
  <2>4. ASSUME InRanges(r, n, c) PROVE u % 2 = 1
    <3>1. PICK k \in 1..n : r[k][1] <= c /\ c < r[k][2]
      BY <2>4 DEF InRanges
    <3>2. v[2*k - 1] <= c /\ ~(v[2*k] <= c)
      BY <1>1, <1>6, <1>7, <3>1
    <3>3. 2*k - 1 <= u /\ ~(2*k <= u)
      BY <1>7, <2>1, <3>2
    <3>4. u = 2*k - 1 /\ k \in Nat
      BY <1>3, <2>1, <3>3
    <3> QED
      BY <3>4
  <2> QED
    BY <2>2, <2>3, <2>4
<1> QED
  BY <1>3, <1>5, <1>6, <1>7, <1>8, <1>9, <1>10 DEF n, r

Members(v) == {c \in 0..CodePointEnd - 1 : HasPoint(v, c)}

\* The operators of RangeSet make sets, and are union, intersection, difference and
\* symmetric difference of the code points in them.
LEMMA SetOperators ==
  ASSUME NEW p, IsRangeSet(p), NEW q, IsRangeSet(q)
  PROVE  /\ IsRangeSet(OrPoints(p, q)) /\ Members(OrPoints(p, q)) = Members(p) \cup Members(q)
         /\ IsRangeSet(AndPoints(p, q)) /\ Members(AndPoints(p, q)) = Members(p) \cap Members(q)
         /\ IsRangeSet(MinusPoints(p, q)) /\ Members(MinusPoints(p, q)) = Members(p) \ Members(q)
         /\ IsRangeSet(XorPoints(p, q))
         /\ Members(XorPoints(p, q)) = (Members(p) \ Members(q)) \cup (Members(q) \ Members(p))
<1> DEFINE S == 0..CodePointEnd - 1
<1>0. \A c \in S : c \in Int
  BY EndIsNumber
<1>1. ASSUME NEW x, IsRangeSet(x), NEW y, IsRangeSet(y)
      PROVE  IsRangeSet(OrPoints(x, y)) /\ \A c \in S : HasPoint(OrPoints(x, y), c) <=> HasPoint(x, c) \/ HasPoint(y, c)
  <2> DEFINE r == RangesOf(y)
  <2>1. AreRanges(r) /\ \A c \in Int : HasPoint(y, c) <=> InRanges(r, Len(r), c)
    BY <1>1, RangesHold
  <2>2. OrPoints(x, y) = InsertRanges(x, r)
    BY DEF OrPoints
  <2> HIDE DEF r
  <2>3. /\ IsRangeSet(InsertRanges(x, r))
        /\ \A c \in Int : HasPoint(InsertRanges(x, r), c) <=> HasPoint(x, c) \/ InRanges(r, Len(r), c)
    BY <1>1, <2>1, InsertRangesAdds
  <2> QED
    BY <1>0, <2>1, <2>2, <2>3
<1>2. ASSUME NEW x, IsRangeSet(x)
      PROVE  IsRangeSet(Flip(x)) /\ \A c \in S : HasPoint(Flip(x), c) <=> ~HasPoint(x, c)
  BY <1>2, FlipComplements
<1> HIDE DEF S
<1>3. ASSUME NEW x, IsRangeSet(x), NEW y, IsRangeSet(y)
      PROVE  IsRangeSet(AndPoints(x, y)) /\ \A c \in S : HasPoint(AndPoints(x, y), c) <=> HasPoint(x, c) /\ HasPoint(y, c)
  <2>1. IsRangeSet(Flip(x)) /\ IsRangeSet(Flip(y))
    BY <1>2, <1>3
  <2>2. IsRangeSet(OrPoints(Flip(x), Flip(y)))
    BY <1>1, <2>1
  <2>3. IsRangeSet(AndPoints(x, y))
    BY <1>2, <2>2 DEF AndPoints
  <2>4. ASSUME NEW c \in S PROVE HasPoint(AndPoints(x, y), c) <=> HasPoint(x, c) /\ HasPoint(y, c)
    <3>1. HasPoint(OrPoints(Flip(x), Flip(y)), c) <=> HasPoint(Flip(x), c) \/ HasPoint(Flip(y), c)
      BY <1>1, <2>1
    <3>2. HasPoint(AndPoints(x, y), c) <=> ~HasPoint(OrPoints(Flip(x), Flip(y)), c)
      BY <1>2, <2>2 DEF AndPoints
    <3>3. (HasPoint(Flip(x), c) <=> ~HasPoint(x, c)) /\ (HasPoint(Flip(y), c) <=> ~HasPoint(y, c))
      BY <1>2, <1>3
    <3> QED
      BY <3>1, <3>2, <3>3
  <2> QED
    BY <2>3, <2>4
<1>4. ASSUME NEW x, IsRangeSet(x), NEW y, IsRangeSet(y)
      PROVE  IsRangeSet(MinusPoints(x, y)) /\ \A c \in S : HasPoint(MinusPoints(x, y), c) <=> HasPoint(x, c) /\ ~HasPoint(y, c)
  <2>1. IsRangeSet(Flip(y)) /\ \A c \in S : HasPoint(Flip(y), c) <=> ~HasPoint(y, c)
    BY <1>2, <1>4
  <2>2. /\ IsRangeSet(AndPoints(x, Flip(y)))
        /\ \A c \in S : HasPoint(AndPoints(x, Flip(y)), c) <=> HasPoint(x, c) /\ HasPoint(Flip(y), c)
    BY <1>3, <1>4, <2>1
  <2> QED
    BY <2>1, <2>2 DEF MinusPoints
<1>5. IsRangeSet(XorPoints(p, q)) /\ \A c \in S : HasPoint(XorPoints(p, q), c) <=> ~(HasPoint(p, c) <=> HasPoint(q, c))
  <2> DEFINE m == MinusPoints(p, q)
             a == AndPoints(Flip(p), q)
  <2>1. IsRangeSet(m) /\ \A c \in S : HasPoint(m, c) <=> HasPoint(p, c) /\ ~HasPoint(q, c)
    BY <1>4
  <2>2. IsRangeSet(Flip(p)) /\ \A c \in S : HasPoint(Flip(p), c) <=> ~HasPoint(p, c)
    BY <1>2
  <2>3. IsRangeSet(a) /\ \A c \in S : HasPoint(a, c) <=> HasPoint(Flip(p), c) /\ HasPoint(q, c)
    BY <1>3, <2>2
  <2>4. XorPoints(p, q) = OrPoints(m, a)
    BY DEF XorPoints
  <2> HIDE DEF m, a
  <2>5. IsRangeSet(OrPoints(m, a)) /\ \A c \in S : HasPoint(OrPoints(m, a), c) <=> HasPoint(m, c) \/ HasPoint(a, c)
    BY <1>1, <2>1, <2>3
  <2>6. ASSUME NEW c \in S PROVE HasPoint(OrPoints(m, a), c) <=> ~(HasPoint(p, c) <=> HasPoint(q, c))
    <3>1. HasPoint(OrPoints(m, a), c) <=> HasPoint(m, c) \/ HasPoint(a, c)
      BY <2>5
    <3>2. HasPoint(m, c) <=> HasPoint(p, c) /\ ~HasPoint(q, c)
      BY <2>1
    <3>3. HasPoint(a, c) <=> ~HasPoint(p, c) /\ HasPoint(q, c)
      BY <2>2, <2>3
    <3> QED
      BY <3>1, <3>2, <3>3
  <2> QED
    BY <2>4, <2>5, <2>6
<1>6. \A v : Members(v) = {c \in S : HasPoint(v, c)}
  BY DEF Members, S
<1>7. IsRangeSet(OrPoints(p, q)) /\ Members(OrPoints(p, q)) = Members(p) \cup Members(q)
  BY <1>1, <1>6
<1>8. IsRangeSet(AndPoints(p, q)) /\ Members(AndPoints(p, q)) = Members(p) \cap Members(q)
  BY <1>3, <1>6
<1>9. IsRangeSet(MinusPoints(p, q)) /\ Members(MinusPoints(p, q)) = Members(p) \ Members(q)
  BY <1>4, <1>6
<1>10. Members(XorPoints(p, q)) = (Members(p) \ Members(q)) \cup (Members(q) \ Members(p))
  BY <1>5, <1>6
<1> QED
  BY <1>5, <1>7, <1>8, <1>9, <1>10

-----------------------------------------------------------------------------
\* f adds up the lengths of the ranges of v one by one, as CountPoints does.
Counts(f, v, n) ==
  f = [k \in 0..n |-> IF k = 0 THEN 0 ELSE f[k - 1] + (v[2*k] - v[2*k - 1])]

\* There is such a function for every number of ranges.
LEMMA CountsExist == ASSUME NEW v PROVE \A n \in Nat : \E f : Counts(f, v, n)
<1> DEFINE T == {n \in Nat : \E f : Counts(f, v, n)}
<1>1. 0 \in T
  <2> DEFINE f == [k \in 0..0 |-> 0]
  <2>1. f = [k \in 0..0 |-> IF k = 0 THEN 0 ELSE f[k - 1] + (v[2*k] - v[2*k - 1])]
    OBVIOUS
  <2> HIDE DEF f
  <2> QED
    BY <2>1 DEF Counts
<1>2. ASSUME NEW n \in T PROVE n + 1 \in T
  <2>1. PICK f : Counts(f, v, n)
    OBVIOUS
  <2>2. \A k \in 0..n : f[k] = IF k = 0 THEN 0 ELSE f[k - 1] + (v[2*k] - v[2*k - 1])
    BY <2>1 DEF Counts
  <2> DEFINE z == f[n] + (v[2*(n + 1)] - v[2*(n + 1) - 1])
             g == [k \in 0..n + 1 |-> IF k <= n THEN f[k] ELSE z]
  <2>3. ASSUME NEW k \in 0..n + 1
        PROVE  g[k] = IF k = 0 THEN 0 ELSE g[k - 1] + (v[2*k] - v[2*k - 1])
    <3>1. CASE k <= n
      <4>1. k \in 0..n /\ (k # 0 => k - 1 \in 0..n + 1 /\ k - 1 <= n)
        BY <3>1
      <4> QED
        BY <2>2, <3>1, <4>1
    <3>2. CASE k = n + 1
      <4>1. k - 1 = n /\ k # 0 /\ ~(k <= n) /\ n \in 0..n + 1 /\ n <= n
        BY <3>2
      <4>2. g[k - 1] = f[n] /\ g[k] = z
        BY <4>1
      <4> QED
        BY <3>2, <4>1, <4>2
    <3> QED
      BY <3>1, <3>2
  <2>4. g = [k \in 0..n + 1 |-> g[k]]
    OBVIOUS
  <2> HIDE DEF g
  <2>5. g = [k \in 0..n + 1 |-> IF k = 0 THEN 0 ELSE g[k - 1] + (v[2*k] - v[2*k - 1])]
    BY <2>3, <2>4
  <2>6. Counts(g, v, n + 1)
    BY <2>5 DEF Counts
  <2> QED
    BY <2>6
<1>3. T \subseteq Nat
  OBVIOUS
<1> HIDE DEF T
<1>4. \A n \in Nat : n \in T
  BY <1>1, <1>2, <1>3, InductionOnNat
<1> QED
  BY <1>4 DEF T

\* The code points of any part of the set are finitely many.
LEMMA PointsFinite ==
  ASSUME NEW S, S \subseteq 0..CodePointEnd - 1
  PROVE  IsFiniteSet(S) /\ Cardinality(S) \in Nat
<1>1. IsFiniteSet(0..CodePointEnd - 1)
  <2>1. 0 \in Int /\ CodePointEnd - 1 \in Int
    BY EndIsNumber
  <2> QED
    BY <2>1, FS_Interval
<1>2. IsFiniteSet(S)
  BY <1>1, FS_Subset
<1> QED
  BY <1>2, FS_CardinalityType

\* RangeSet::count is the number of members.
LEMMA CountIsNumber ==
  ASSUME NEW v, IsRangeSet(v)
  PROVE  CountPoints(v) = Cardinality(Members(v)) /\ IsFiniteSet(Members(v)) /\ CountPoints(v) \in Nat
<1> DEFINE n == Len(v) \div 2
           r == RangesOf(v)
           F == CHOOSE f : f = [k \in 0..n |-> IF k = 0 THEN 0 ELSE f[k - 1] + (v[2*k] - v[2*k - 1])]
           S(k) == {c \in 0..CodePointEnd - 1 : InRanges(r, k, c)}
<1>1. CountPoints(v) = F[n]
  BY DEF CountPoints
<1>2. /\ n \in Nat /\ \A k \in 1..n : r[k][1] = v[2*k - 1] /\ r[k][2] = v[2*k]
      /\ \A k \in 1..n : 2*k - 1 \in 1..Len(v) /\ 2*k \in 1..Len(v)
      /\ \A c \in Int : HasPoint(v, c) <=> InRanges(r, n, c)
  BY RangesHold
<1>3. /\ Len(v) \in Nat /\ (\A k \in 1..Len(v) : v[k] \in 0..CodePointEnd)
      /\ \A i, j \in 1..Len(v) : i < j => v[i] < v[j]
  BY BoundsAscend DEF Ascends
<1> HIDE DEF n, r
<1>4. \E f : Counts(f, v, n)
  BY <1>2, CountsExist
<1>5. F = [k \in 0..n |-> IF k = 0 THEN 0 ELSE F[k - 1] + (v[2*k] - v[2*k - 1])]
  BY <1>4 DEF Counts
<1> HIDE DEF F
<1>6. F[0] = 0 /\ \A k \in 1..n : F[k] = F[k - 1] + (v[2*k] - v[2*k - 1])
  BY <1>2, <1>5
<1>7. \A k : IsFiniteSet(S(k)) /\ Cardinality(S(k)) \in Nat
  BY PointsFinite
<1> DEFINE T == {k \in Nat : k <= n => F[k] = Cardinality(S(k))}
<1>8. 0 \in T
  <2>1. \A c : ~InRanges(r, 0, c)
    BY DEF InRanges
  <2>2. S(0) = {}
    BY <2>1
  <2> QED
    BY <1>6, <2>2, FS_EmptySet
<1>9. ASSUME NEW k \in Nat, k \in T PROVE k + 1 \in T
  <2> DEFINE j == k + 1
             a == v[2*j - 1]
             b == v[2*j]
  <2> SUFFICES ASSUME j <= n PROVE F[j] = Cardinality(S(j))
    OBVIOUS
  <2>1. j \in 1..n /\ j - 1 = k /\ 1..j = (1..k) \cup {j} /\ k <= n
    BY <1>2
  <2>2. F[k] = Cardinality(S(k))
    BY <1>9, <2>1
  <2>3. \A i \in 1..k : i \in 1..n /\ 2*i < 2*j - 1
    BY <1>2, <2>1
  <2> HIDE DEF j
  <2>4. a \in 0..CodePointEnd /\ b \in 0..CodePointEnd /\ a < b
    <3>1. 2*j - 1 \in 1..Len(v) /\ 2*j \in 1..Len(v) /\ 2*j - 1 < 2*j
      BY <1>2, <2>1
    <3> QED
      BY <1>3, <3>1
  <2>5. \A i \in 1..k : r[i][2] < a
    <3> SUFFICES ASSUME NEW i \in 1..k PROVE r[i][2] < a
      OBVIOUS
    <3>1. r[i][2] = v[2*i] /\ 2*i \in 1..Len(v) /\ 2*j - 1 \in 1..Len(v) /\ 2*i < 2*j - 1
      BY <1>2, <2>1, <2>3
    <3> QED
      BY <1>3, <3>1
  <2>6. r[j][1] = a /\ r[j][2] = b
    BY <1>2, <2>1
  <2>7. \A i \in 1..k : r[i][2] \in Int
    <3> SUFFICES ASSUME NEW i \in 1..k PROVE r[i][2] \in Int
      OBVIOUS
    <3>1. r[i][2] = v[2*i] /\ 2*i \in 1..Len(v)
      BY <1>2, <2>3
    <3> QED
      BY <1>3, <3>1
  <2> HIDE DEF a, b
  <2> DEFINE R == a..b - 1
  <2>8. S(j) = S(k) \cup R
    <3>1. \A c : InRanges(r, j, c) <=> InRanges(r, k, c) \/ (a <= c /\ c < b)
      BY <2>1, <2>6 DEF InRanges
    <3>2. \A c : c \in R <=> c \in 0..CodePointEnd - 1 /\ a <= c /\ c < b
      BY <2>4, EndIsNumber
    <3> QED
      BY <3>1, <3>2
  <2>9. S(k) \cap R = {}
    <3> SUFFICES ASSUME NEW c \in S(k), c \in R PROVE FALSE
      OBVIOUS
    <3>1. PICK i \in 1..k : r[i][1] <= c /\ c < r[i][2]
      BY DEF InRanges
    <3>2. c \in Int /\ a <= c
      BY <2>4
    <3> QED
      BY <2>4, <2>5, <2>7, <3>1, <3>2
  <2>10. IsFiniteSet(R) /\ Cardinality(R) = b - a
    <3>1. a \in Int /\ b - 1 \in Int /\ ~(a > b - 1) /\ (b - 1) - a + 1 = b - a
      BY <2>4
    <3> QED
      BY <3>1, FS_Interval
  <2> HIDE DEF S, R
  <2>11. Cardinality(S(j)) = Cardinality(S(k)) + (b - a)
    <3>1. Cardinality(S(k) \cup R) = Cardinality(S(k)) + Cardinality(R) - Cardinality(S(k) \cap R)
      BY <1>7, <2>10, FS_Union
    <3>2. Cardinality(S(k) \cap R) = 0
      BY <2>9, FS_EmptySet
    <3>3. Cardinality(S(k)) \in Nat /\ a \in Int /\ b \in Int
      BY <1>7, <2>4
    <3> QED
      BY <2>8, <2>10, <3>1, <3>2, <3>3
  <2> QED
    BY <1>6, <2>1, <2>2, <2>11 DEF a, b
<1>10. T \subseteq Nat
  OBVIOUS
<1> HIDE DEF T
<1>11. \A k \in Nat : k \in T
  BY <1>8, <1>9, <1>10, InductionOnNat
<1>12. F[n] = Cardinality(S(n))
  BY <1>2, <1>11 DEF T
<1>13. Members(v) = S(n)
  <2>1. \A c \in 0..CodePointEnd - 1 : c \in Int
    BY EndIsNumber
  <2> QED
    BY <1>2, <2>1 DEF Members
<1> QED
  BY <1>1, <1>7, <1>12, <1>13

-----------------------------------------------------------------------------
\* The sequence of a finite set has its elements, and no other.
LEMMA SequenceOfSet ==
  ASSUME NEW S, IsFiniteSet(S)
  PROVE  /\ Len(SetToSeq(S)) \in Nat
         /\ \A x : x \in S <=> \E k \in 1..Len(SetToSeq(S)) : SetToSeq(S)[k] = x
<1> DEFINE n == Cardinality(S)
           f == SetToSeq(S)
<1>1. n \in Nat /\ ExistsBijection(1..n, S)
  BY FS_CardinalityType
<1>2. \E g \in [1..n -> S] : IsInjective(g)
  BY <1>1 DEF ExistsBijection, Bijection, Injection
<1>3. f \in [1..n -> S] /\ IsInjective(f)
  BY <1>2 DEF SetToSeq
<1> HIDE DEF f
<1>4. f \in Seq(S) /\ Len(f) = n
  BY <1>1, <1>3, FunctionIsSeq
<1>5. f \in Surjection(1..n, S)
  <2>1. f \in Injection(1..n, S)
    BY <1>3 DEF Injection
  <2>2. IsFiniteSet(1..n) /\ Cardinality(1..n) = Cardinality(S)
    BY <1>1, FS_Interval
  <2> QED
    BY <2>1, <2>2, FS_Injection
<1>6. \A x \in S : \E k \in 1..n : f[k] = x
  BY <1>5 DEF Surjection
<1>7. \A k \in 1..n : f[k] \in S
  BY <1>3
<1>8. \A x : x \in S <=> \E k \in 1..Len(f) : f[k] = x
  BY <1>4, <1>6, <1>7
<1> QED
  BY <1>1, <1>4, <1>8 DEF f

\* The code points that are equal, but for case, to a member.
EqualButForCase(v, folds) == UNION {F \in folds : \E c \in F : HasPoint(v, c)}

\* ICU's closure of a set under case.
LEMMA CloseOverAdds ==
  ASSUME NEW v, IsRangeSet(v), NEW folds, \A F \in folds : F \subseteq 0..CodePointEnd - 1
  PROVE  /\ IsRangeSet(CloseOver(v, folds))
         /\ Members(CloseOver(v, folds)) = Members(v) \cup EqualButForCase(v, folds)
<1> DEFINE E == EqualButForCase(v, folds)
           S == {<<c, c + 1>> : c \in E}
           r == SetToSeq(S)
<1>1. CloseOver(v, folds) = InsertRanges(v, r)
  BY DEF CloseOver, EqualButForCase
<1>2. E \subseteq 0..CodePointEnd - 1
  BY DEF EqualButForCase
<1> HIDE DEF E
<1>3. IsFiniteSet(S)
  <2>1. IsFiniteSet(E)
    BY <1>2, PointsFinite
  <2> DEFINE f == [c \in E |-> <<c, c + 1>>]
  <2>2. f \in Surjection(E, S)
    BY DEF Surjection
  <2> QED
    BY <2>1, <2>2, FS_Surjection
<1>4. Len(r) \in Nat /\ \A x : x \in S <=> \E k \in 1..Len(r) : r[k] = x
  BY <1>3, SequenceOfSet
<1> HIDE DEF r
<1>5. \A k \in 1..Len(r) : \E c \in E : r[k][1] = c /\ r[k][2] = c + 1
  <2> SUFFICES ASSUME NEW k \in 1..Len(r) PROVE \E c \in E : r[k][1] = c /\ r[k][2] = c + 1
    OBVIOUS
  <2>1. r[k] \in S
    BY <1>4
  <2>2. PICK c \in E : r[k] = <<c, c + 1>>
    BY <2>1
  <2> QED
    BY <2>2
<1>6. \A c \in E : \E k \in 1..Len(r) : r[k][1] = c /\ r[k][2] = c + 1
  <2> SUFFICES ASSUME NEW c \in E PROVE \E k \in 1..Len(r) : r[k][1] = c /\ r[k][2] = c + 1
    OBVIOUS
  <2>1. <<c, c + 1>> \in S
    OBVIOUS
  <2>2. PICK k \in 1..Len(r) : r[k] = <<c, c + 1>>
    BY <1>4, <2>1
  <2> QED
    BY <2>2
<1> HIDE DEF S
<1>7. AreRanges(r)
  <2>1. ASSUME NEW k \in 1..Len(r)
        PROVE  r[k][1] \in 0..CodePointEnd /\ r[k][2] \in 0..CodePointEnd /\ r[k][1] <= r[k][2]
    BY <1>2, <1>5, EndIsNumber
  <2> QED
    BY <1>4, <2>1 DEF AreRanges
<1>8. \A c \in Int : InRanges(r, Len(r), c) <=> c \in E
  <2>1. ASSUME NEW c \in Int, InRanges(r, Len(r), c) PROVE c \in E
    <3>1. PICK k \in 1..Len(r) : r[k][1] <= c /\ c < r[k][2]
      BY <2>1 DEF InRanges
    <3>2. PICK d \in E : r[k][1] = d /\ r[k][2] = d + 1
      BY <1>5
    <3>3. d \in Int
      BY <1>2, EndIsNumber
    <3> QED
      BY <3>1, <3>2, <3>3
  <2>2. ASSUME NEW c \in Int, c \in E PROVE InRanges(r, Len(r), c)
    <3>1. PICK k \in 1..Len(r) : r[k][1] = c /\ r[k][2] = c + 1
      BY <1>6, <2>2
    <3>2. r[k][1] <= c /\ c < r[k][2]
      BY <3>1
    <3> QED
      BY <3>2 DEF InRanges
  <2> QED
    BY <2>1, <2>2
<1>9. /\ IsRangeSet(InsertRanges(v, r))
      /\ \A c \in Int : HasPoint(InsertRanges(v, r), c) <=> HasPoint(v, c) \/ c \in E
  BY <1>7, <1>8, InsertRangesAdds
<1>10. \A c \in 0..CodePointEnd - 1 : c \in Int
  BY EndIsNumber
<1>11. Members(InsertRanges(v, r)) = Members(v) \cup E
  BY <1>2, <1>9, <1>10 DEF Members
<1> QED
  BY <1>1, <1>9, <1>11 DEF E

\* The closure is taken over when it has grown, which is whenever it is not the same.
LEMMA CaseDesensitizeCloses ==
  ASSUME NEW v, IsRangeSet(v), NEW folds, \A F \in folds : F \subseteq 0..CodePointEnd - 1
  PROVE  /\ IsRangeSet(CaseDesensitize(v, folds))
         /\ Members(CaseDesensitize(v, folds)) = Members(v) \cup EqualButForCase(v, folds)
<1> DEFINE w == CloseOver(v, folds)
<1>1. IsRangeSet(w) /\ Members(w) = Members(v) \cup EqualButForCase(v, folds)
  BY CloseOverAdds
<1>2. CaseDesensitize(v, folds) = IF CountPoints(w) = CountPoints(v) THEN v ELSE w
  BY DEF CaseDesensitize
<1> HIDE DEF w
<1>3. ASSUME CountPoints(w) = CountPoints(v) PROVE Members(v) = Members(w)
  <2>1. Cardinality(Members(v)) = Cardinality(Members(w)) /\ IsFiniteSet(Members(w))
    BY <1>1, <1>3, CountIsNumber
  <2>2. Members(v) \in SUBSET Members(w)
    BY <1>1
  <2> QED
    BY <2>1, <2>2, FS_Subset
<1> QED
  BY <1>1, <1>2, <1>3

-----------------------------------------------------------------------------
\* A class with other code points, bytes and sign.
LEMMA ClassOf ==
  ASSUME NEW p, IsRangeSet(p), NEW B, B \subseteq 0..255, NEW a \in BOOLEAN
  PROVE  IsClass(Class(p, B, a)) /\ Class(p, B, a).points = p
<1>1. p \in Seq(0..CodePointEnd)
  BY DEF IsRangeSet
<1>2. Class(p, B, a).points = p
  BY DEF Class
<1>3. Class(p, B, a) \in [points : Seq(0..CodePointEnd), bytes : SUBSET (0..255), additive : BOOLEAN]
  BY <1>1, Zenon DEF Class
<1> QED
  BY <1>2, <1>3, SMTT(60) DEF IsClass

\* The fields of a class, and the class that EXCEPT makes of it.
LEMMA ClassFields ==
  ASSUME NEW x, IsClass(x)
  PROVE  /\ IsRangeSet(x.points) /\ x.bytes \subseteq 0..255 /\ x.additive \in BOOLEAN
         /\ \A p : [x EXCEPT !.points = p] = Class(p, x.bytes, x.additive)
         /\ \A B : [x EXCEPT !.bytes = B] = Class(x.points, B, x.additive)
         /\ \A p, B : [x EXCEPT !.points = p, !.bytes = B] = Class(p, B, x.additive)
         /\ \A p, a : [x EXCEPT !.points = p, !.additive = a] = Class(p, x.bytes, a)
<1>1. x \in [points : Seq(0..CodePointEnd), bytes : SUBSET (0..255), additive : BOOLEAN]
  BY DEF IsClass
<1>2. IsRangeSet(x.points)
  BY DEF IsClass
<1>3. x.bytes \subseteq 0..255 /\ x.additive \in BOOLEAN
  BY <1>1, Zenon
<1>4. x = [points |-> x.points, bytes |-> x.bytes, additive |-> x.additive]
  BY <1>1, Zenon
<1>5. \A p : [x EXCEPT !.points = p] = Class(p, x.bytes, x.additive)
  BY <1>4 DEF Class
<1>6. \A B : [x EXCEPT !.bytes = B] = Class(x.points, B, x.additive)
  BY <1>4 DEF Class
<1>7. ASSUME NEW p, NEW B PROVE [x EXCEPT !.points = p, !.bytes = B] = Class(p, B, x.additive)
  <2> DEFINE y == [x EXCEPT !.points = p]
  <2>1. y = [points |-> p, bytes |-> x.bytes, additive |-> x.additive]
    BY <1>5 DEF Class
  <2> HIDE DEF y
  <2>2. [y EXCEPT !.bytes = B] = Class(p, B, x.additive)
    BY <2>1 DEF Class
  <2> QED
    BY <2>2 DEF y
<1>8. ASSUME NEW p, NEW a PROVE [x EXCEPT !.points = p, !.additive = a] = Class(p, x.bytes, a)
  <2> DEFINE y == [x EXCEPT !.points = p]
  <2>1. y = [points |-> p, bytes |-> x.bytes, additive |-> x.additive]
    BY <1>5 DEF Class
  <2> HIDE DEF y
  <2>2. [y EXCEPT !.additive = a] = Class(p, x.bytes, a)
    BY <2>1 DEF Class
  <2> QED
    BY <2>2 DEF y
<1> QED
  BY <1>2, <1>3, <1>5, <1>6, <1>7, <1>8

Operators == {"union", "and", "minus", "xor"}

\* Juxtaposition, &&, -- and ~~ make classes of classes.
LEMMA OperatedIsClass ==
  ASSUME NEW x, IsClass(x), NEW y, IsClass(y)
  PROVE  /\ \A op \in Operators : IsClass(Operated(op, x, y))
         /\ Operated("union", x, y).points = OrPoints(x.points, y.points)
         /\ Operated("and", x, y).points = AndPoints(x.points, y.points)
         /\ Operated("minus", x, y).points = MinusPoints(x.points, y.points)
         /\ Operated("xor", x, y).points = XorPoints(x.points, y.points)
<1>1. /\ IsRangeSet(x.points) /\ x.bytes \subseteq 0..255 /\ x.additive \in BOOLEAN
      /\ IsRangeSet(y.points) /\ y.bytes \subseteq 0..255
  BY ClassFields, ZenonT(60)
<1>2. \A p, B : [x EXCEPT !.points = p, !.bytes = B] = Class(p, B, x.additive)
  BY ClassFields
<1>3. /\ IsRangeSet(OrPoints(x.points, y.points)) /\ IsRangeSet(AndPoints(x.points, y.points))
      /\ IsRangeSet(MinusPoints(x.points, y.points)) /\ IsRangeSet(XorPoints(x.points, y.points))
  BY <1>1, SetOperators
<1>4. /\ x.bytes \cup y.bytes \subseteq 0..255 /\ x.bytes \cap y.bytes \subseteq 0..255
      /\ x.bytes \ y.bytes \subseteq 0..255
      /\ (x.bytes \ y.bytes) \cup (y.bytes \ x.bytes) \subseteq 0..255
  BY <1>1
<1>5. /\ Operated("union", x, y) = [x EXCEPT !.points = OrPoints(x.points, y.points), !.bytes = x.bytes \cup y.bytes]
      /\ Operated("and", x, y) = [x EXCEPT !.points = AndPoints(x.points, y.points), !.bytes = x.bytes \cap y.bytes]
      /\ Operated("minus", x, y) = [x EXCEPT !.points = MinusPoints(x.points, y.points), !.bytes = x.bytes \ y.bytes]
      /\ Operated("xor", x, y) = [x EXCEPT !.points = XorPoints(x.points, y.points),
                                            !.bytes = (x.bytes \ y.bytes) \cup (y.bytes \ x.bytes)]
  BY DEF Operated
<1>6. /\ Operated("union", x, y) = Class(OrPoints(x.points, y.points), x.bytes \cup y.bytes, x.additive)
      /\ Operated("and", x, y) = Class(AndPoints(x.points, y.points), x.bytes \cap y.bytes, x.additive)
      /\ Operated("minus", x, y) = Class(MinusPoints(x.points, y.points), x.bytes \ y.bytes, x.additive)
      /\ Operated("xor", x, y) = Class(XorPoints(x.points, y.points), (x.bytes \ y.bytes) \cup (y.bytes \ x.bytes), x.additive)
  BY <1>2, <1>5
<1>7. IsClass(Operated("union", x, y)) /\ Operated("union", x, y).points = OrPoints(x.points, y.points)
  BY <1>1, <1>3, <1>4, <1>6, ClassOf
<1>8. IsClass(Operated("and", x, y)) /\ Operated("and", x, y).points = AndPoints(x.points, y.points)
  BY <1>1, <1>3, <1>4, <1>6, ClassOf
<1>9. IsClass(Operated("minus", x, y)) /\ Operated("minus", x, y).points = MinusPoints(x.points, y.points)
  BY <1>1, <1>3, <1>4, <1>6, ClassOf
<1>10. IsClass(Operated("xor", x, y)) /\ Operated("xor", x, y).points = XorPoints(x.points, y.points)
  BY <1>1, <1>3, <1>4, <1>6, ClassOf
<1> QED
  BY <1>7, <1>8, <1>9, <1>10 DEF Operators

\* A set has members, unless it has no bounds: the parser tells by the bounds.
LEMMA NoBoundsNoMembers ==
  ASSUME NEW v, IsRangeSet(v)
  PROVE  v = <<>> <=> Members(v) = {}
<1>1. /\ AreRanges(RangesOf(v)) /\ Len(v) \div 2 \in Nat
      /\ \A k \in 1..Len(v) \div 2 :
           /\ RangesOf(v)[k][1] = v[2*k - 1] /\ RangesOf(v)[k][2] = v[2*k]
           /\ 2*k - 1 \in 1..Len(v) /\ 2*k \in 1..Len(v) /\ v[2*k - 1] < v[2*k]
      /\ \A c \in Int : HasPoint(v, c) <=> InRanges(RangesOf(v), Len(v) \div 2, c)
  BY RangesHold
<1>2. Len(v) \in Nat /\ (\A k \in 1..Len(v) : v[k] \in 0..CodePointEnd) /\ v \in Seq(0..CodePointEnd)
  BY BoundsAscend DEF IsRangeSet
<1>3. Len(v) % 2 = 0
  BY DEF IsRangeSet
<1>4. ASSUME v = <<>> PROVE Members(v) = {}
  <2>1. Len(v) \div 2 = 0
    BY <1>4
  <2>2. \A c \in Int : ~HasPoint(v, c)
    BY <1>1, <2>1 DEF InRanges
  <2>3. \A c \in 0..CodePointEnd - 1 : c \in Int
    BY EndIsNumber
  <2> QED
    BY <2>2, <2>3 DEF Members
<1>5. ASSUME v # <<>> PROVE Members(v) # {}
  <2>1. Len(v) # 0
    BY <1>2, <1>5, EmptySeq
  <2>2. 1 \in 1..Len(v) \div 2
    BY <1>2, <1>3, <2>1
  <2>3. /\ RangesOf(v)[1][1] = v[1] /\ RangesOf(v)[1][2] = v[2] /\ v[1] < v[2]
        /\ 1 \in 1..Len(v) /\ 2 \in 1..Len(v)
    <3>1. 2 * 1 - 1 = 1 /\ 2 * 1 = 2
      OBVIOUS
    <3> QED
      BY <1>1, <2>2, <3>1
  <2>4. v[1] \in 0..CodePointEnd - 1 /\ v[1] \in Int /\ v[1] <= v[1]
    BY <1>2, <2>3, EndIsNumber, SMTT(60)
  <2>5. InRanges(RangesOf(v), Len(v) \div 2, v[1])
    BY <2>2, <2>3, <2>4 DEF InRanges
  <2>6. HasPoint(v, v[1])
    BY <1>1, <2>4, <2>5
  <2> QED
    BY <2>4, <2>6 DEF Members
<1> QED
  BY <1>4, <1>5

AreFolds(folds) == \A F \in folds : F \subseteq 0..CodePointEnd - 1

\* Closing a bracket expression makes a class: of what is inside and equal to it but for
\* case; or negated, when it has code points, of all other code points.
THEOREM ClosedMeans ==
  ASSUME NEW x, IsClass(x), NEW folds, AreFolds(folds)
  PROVE  LET within == Members(x.points) \cup EqualButForCase(x.points, folds)
         IN /\ \A negated \in BOOLEAN : IsClass(Closed(negated, x, folds))
            /\ Members(Closed(FALSE, x, folds).points) = within
            /\ Members(x.points) # {} =>
                 Members(Closed(TRUE, x, folds).points) = (0..CodePointEnd - 1) \ within
<1> DEFINE p == x.points
           q == CaseDesensitize(p, folds)
           within == Members(p) \cup EqualButForCase(p, folds)
<1>1. IsRangeSet(p) /\ x.bytes \subseteq 0..255 /\ x.additive \in BOOLEAN
  BY ClassFields, ZenonT(60)
<1>2. IsRangeSet(q) /\ Members(q) = within
  BY <1>1, CaseDesensitizeCloses DEF AreFolds
<1>3. IsRangeSet(Flip(q)) /\ Members(Flip(q)) = (0..CodePointEnd - 1) \ within
  BY <1>2, FlipComplements DEF Members
<1>4. IsRangeSet(Flip(p))
  BY <1>1, FlipComplements
<1>5. p = <<>> <=> Members(p) = {}
  BY <1>1, NoBoundsNoMembers
<1>6. Closed(FALSE, x, folds) = Class(q, x.bytes, x.additive)
  <2>1. Closed(FALSE, x, folds) = [x EXCEPT !.points = q]
    BY DEF Closed, Positive
  <2> HIDE DEF q
  <2> QED
    BY <2>1, ClassFields
<1>7. p # <<>> => \E a \in BOOLEAN : Closed(TRUE, x, folds) = Class(Flip(q), x.bytes, a)
  <2> DEFINE a == IF x.bytes # {} THEN FALSE ELSE x.additive
  <2>1. p # <<>> => Closed(TRUE, x, folds) = [x EXCEPT !.points = Flip(q), !.additive = a]
    BY DEF Closed, Negative
  <2>2. a \in BOOLEAN
    BY <1>1, Zenon
  <2> HIDE DEF q, a
  <2>3. \A v, b : [x EXCEPT !.points = v, !.additive = b] = Class(v, x.bytes, b)
    BY ClassFields
  <2>4. p # <<>> => Closed(TRUE, x, folds) = Class(Flip(q), x.bytes, a)
    BY <2>1, <2>3
  <2> QED
    BY <2>2, <2>4
<1>8. p = <<>> => IsClass(Closed(TRUE, x, folds))
  <2>1. p = <<>> => Closed(TRUE, x, folds) = IF x.bytes # {} THEN [x EXCEPT !.bytes = 0..255 \ x.bytes]
                                             ELSE [x EXCEPT !.points = Flip(p)]
    BY DEF Closed, Negative
  <2>2. p = <<>> => Closed(TRUE, x, folds) = IF x.bytes # {} THEN Class(p, 0..255 \ x.bytes, x.additive)
                                             ELSE Class(Flip(p), x.bytes, x.additive)
    BY <2>1, ClassFields, ZenonT(60)
  <2>3. IsClass(Class(p, 0..255 \ x.bytes, x.additive)) /\ IsClass(Class(Flip(p), x.bytes, x.additive))
    BY <1>1, <1>4, ClassOf
  <2> QED
    BY <2>2, <2>3
<1> HIDE DEF q
<1>9. IsClass(Closed(FALSE, x, folds)) /\ Closed(FALSE, x, folds).points = q
  <2>1. IsClass(Class(q, x.bytes, x.additive)) /\ Class(q, x.bytes, x.additive).points = q
    BY <1>1, <1>2, ClassOf
  <2> QED
    BY <1>6, <2>1, Zenon
<1>10. p # <<>> => IsClass(Closed(TRUE, x, folds)) /\ Closed(TRUE, x, folds).points = Flip(q)
  <2>1. \A a \in BOOLEAN : IsClass(Class(Flip(q), x.bytes, a)) /\ Class(Flip(q), x.bytes, a).points = Flip(q)
    BY <1>1, <1>3, ClassOf
  <2> QED
    BY <1>7, <2>1, Zenon
<1> QED
  BY <1>2, <1>3, <1>5, <1>8, <1>9, <1>10

-----------------------------------------------------------------------------
\* Nothing is a set.
LEMMA EmptyIsRangeSet == IsRangeSet(<<>>)
<1>1. <<>> \in Seq(0..CodePointEnd) /\ Len(<<>>) = 0 /\ 0 % 2 = 0 /\ 2..0 = {}
  OBVIOUS
<1> QED
  BY <1>1 DEF IsRangeSet

\* What is inserted into nothing, and into a set, is a set.
LEMMA InsertedSets ==
  /\ \A v : IsRangeSet(v) => \A c \in 0..CodePointEnd - 1 : IsRangeSet(SetPoint(v, c))
  /\ \A r : AreRanges(r) => IsRangeSet(InsertAll(r)) /\ IsRangeSet(Flip(InsertAll(r)))
<1>1. ASSUME NEW v, IsRangeSet(v), NEW c \in 0..CodePointEnd - 1 PROVE IsRangeSet(SetPoint(v, c))
  <2>1. c \in 0..CodePointEnd /\ c + 1 \in 0..CodePointEnd /\ c <= c + 1
    BY EndIsNumber
  <2> QED
    BY <1>1, <2>1, InsertAddsRange DEF SetPoint
<1>2. ASSUME NEW r, AreRanges(r) PROVE IsRangeSet(InsertAll(r)) /\ IsRangeSet(Flip(InsertAll(r)))
  <2>1. IsRangeSet(InsertAll(r))
    BY <1>2, EmptyIsRangeSet, InsertRangesAdds DEF InsertAll
  <2> QED
    BY <2>1, FlipComplements
<1> QED
  BY <1>1, <1>2

\* Every named class, \d to \W, is a set.
LEMMA NamedIsRangeSet ==
  ASSUME NEW letter \in {"d", "D", "s", "S", "h", "H", "v", "V", "w", "W"}
  PROVE  IsRangeSet(Named(letter))
<1>1. CodePointEnd \in Nat /\ CodePointEnd > 20000
  BY EndIsLarge, SMT
<1> DEFINE digits == << <<48, 58>> >>
           words  == << <<48, 58>>, <<65, 91>>, <<95, 96>>, <<97, 123>> >>
           spaces == << <<9, 14>>, <<32, 33>> >>
           horizontal == << <<9, 10>>, <<32, 33>>, <<160, 161>>, <<5760, 5761>>, <<6158, 6159>>,
                            <<8192, 8203>>, <<8239, 8240>>, <<8287, 8288>>, <<12288, 12289>> >>
           vertical == << <<10, 14>>, <<133, 134>>, <<8232, 8234>> >>
<1>2. AreRanges(digits)
  BY <1>1, SMT DEF AreRanges
<1>3. AreRanges(words)
  BY <1>1, SMT DEF AreRanges
<1>4. AreRanges(spaces)
  BY <1>1, SMT DEF AreRanges
<1>5. AreRanges(horizontal)
  BY <1>1, SMT DEF AreRanges
<1>6. AreRanges(vertical)
  BY <1>1, SMT DEF AreRanges
<1>7. /\ SetDigitClass = InsertAll(digits) /\ SetWordClass = InsertAll(words)
      /\ SetSpaceClass = InsertAll(spaces) /\ SetHorizontalSpaceClass = InsertAll(horizontal)
      /\ SetVerticalSpaceClass = InsertAll(vertical)
  BY SMT DEF SetDigitClass, SetWordClass, SetSpaceClass, SetHorizontalSpaceClass, SetVerticalSpaceClass
<1> HIDE DEF digits, words, spaces, horizontal, vertical
<1>8. /\ IsRangeSet(SetDigitClass) /\ IsRangeSet(Flip(SetDigitClass))
      /\ IsRangeSet(SetWordClass) /\ IsRangeSet(Flip(SetWordClass))
      /\ IsRangeSet(SetSpaceClass) /\ IsRangeSet(Flip(SetSpaceClass))
      /\ IsRangeSet(SetHorizontalSpaceClass) /\ IsRangeSet(Flip(SetHorizontalSpaceClass))
      /\ IsRangeSet(SetVerticalSpaceClass) /\ IsRangeSet(Flip(SetVerticalSpaceClass))
  BY <1>2, <1>3, <1>4, <1>5, <1>6, <1>7, InsertedSets, SMTT(60)
<1> QED
  BY <1>8 DEF Named

\* Every item that the parser can make of characters, bytes, ranges and named classes is a
\* class: what InputsAssumption asks of the items.
THEOREM AtomsAreClasses ==
  /\ \A c \in 0..CodePointEnd - 1 : IsClass(CharAtom(c))
  /\ \A a, b \in 0..CodePointEnd - 1 : a < b => IsClass(RangeAtom(a, b))
  /\ \A b \in 0..255 : IsClass(ByteAtom(b))
  /\ \A a, b \in 0..255 : IsClass(ByteRangeAtom(a, b))
  /\ \A letter \in {"d", "D", "s", "S", "h", "H", "v", "V", "w", "W"} : IsClass(NamedAtom(letter))
  /\ \A c \in 0..CodePointEnd - 1 : \A x : IsClass(x) => IsClass(CharHyphenClass(c, x))
  /\ \A b \in 0..255 : \A x : IsClass(x) => IsClass(ByteHyphenClass(b, x))
<1>0. IsRangeSet(<<>>) /\ {} \subseteq 0..255 /\ TRUE \in BOOLEAN
  BY EmptyIsRangeSet
<1>1. ASSUME NEW c \in 0..CodePointEnd - 1 PROVE IsClass(CharAtom(c))
  BY <1>0, InsertedSets, ClassOf DEF CharAtom
<1>2. ASSUME NEW a \in 0..CodePointEnd - 1, NEW b \in 0..CodePointEnd - 1, a < b
      PROVE  IsClass(RangeAtom(a, b))
  <2>1. a \in 0..CodePointEnd /\ b + 1 \in 0..CodePointEnd /\ a <= b + 1
    BY <1>2, EndIsNumber
  <2>2. IsRangeSet(Insert(<<>>, a, b + 1))
    BY <1>0, <2>1, InsertAddsRange
  <2> QED
    BY <1>0, <2>2, ClassOf DEF RangeAtom
<1>3. ASSUME NEW b \in 0..255 PROVE IsClass(ByteAtom(b))
  <2>1. {b} \subseteq 0..255
    OBVIOUS
  <2> QED
    BY <1>0, <2>1, ClassOf DEF ByteAtom
<1>4. ASSUME NEW a \in 0..255, NEW b \in 0..255 PROVE IsClass(ByteRangeAtom(a, b))
  <2>1. PICK B : B \subseteq 0..255 /\ ByteRangeAtom(a, b) = Class(<<>>, B, TRUE)
    BY ZenonT(60) DEF ByteRangeAtom
  <2> QED
    BY <1>0, <2>1, ClassOf
<1>5. ASSUME NEW letter \in {"d", "D", "s", "S", "h", "H", "v", "V", "w", "W"}
      PROVE  IsClass(NamedAtom(letter))
  <2>1. IsRangeSet(Named(letter))
    BY NamedIsRangeSet
  <2> QED
    BY <1>0, <2>1, ClassOf DEF NamedAtom
<1>6. ASSUME NEW x, IsClass(x)
      PROVE  /\ IsRangeSet(x.points) /\ x.bytes \subseteq 0..255 /\ x.additive \in BOOLEAN
             /\ IsRangeSet(SetPoint(x.points, 45))
             /\ \A c \in 0..CodePointEnd - 1 : IsRangeSet(SetPoint(SetPoint(x.points, c), 45))
  <2>1. 45 \in 0..CodePointEnd - 1
    BY EndIsLarge, SMT
  <2>2. IsRangeSet(x.points) /\ x.bytes \subseteq 0..255 /\ x.additive \in BOOLEAN
    BY <1>6, ClassFields, ZenonT(60)
  <2> QED
    BY <2>1, <2>2, InsertedSets
<1>7. ASSUME NEW c \in 0..CodePointEnd - 1, NEW x, IsClass(x) PROVE IsClass(CharHyphenClass(c, x))
  <2>1. \A p : [x EXCEPT !.points = p] = Class(p, x.bytes, x.additive)
    BY <1>7, ClassFields
  <2>2. CharHyphenClass(c, x) = Class(SetPoint(SetPoint(x.points, c), 45), x.bytes, x.additive)
    BY <2>1 DEF CharHyphenClass
  <2> QED
    BY <1>6, <1>7, <2>2, ClassOf
<1>8. ASSUME NEW b \in 0..255, NEW x, IsClass(x) PROVE IsClass(ByteHyphenClass(b, x))
  <2>1. \A p, B : [x EXCEPT !.points = p, !.bytes = B] = Class(p, B, x.additive)
    BY <1>8, ClassFields
  <2>2. ByteHyphenClass(b, x) = Class(SetPoint(x.points, 45), x.bytes \cup {b}, x.additive)
    BY <2>1 DEF ByteHyphenClass
  <2>3. x.bytes \cup {b} \subseteq 0..255
    BY <1>6, <1>8
  <2> QED
    BY <1>6, <1>8, <2>2, <2>3, ClassOf, SMTT(60)
<1> QED
  BY <1>1, <1>2, <1>3, <1>4, <1>5, <1>7, <1>8

-----------------------------------------------------------------------------
\* The class that the parser has is one, whatever the items: what every action keeps.
ClassKept == input \in Inputs /\ IsClass(class)

\* The invariant holds first ...
LEMMA KeptAtFirst == Init => ClassKept
<1>1. IsClass(Class(<<>>, {}, TRUE))
  <2>1. IsRangeSet(<<>>) /\ {} \subseteq 0..255 /\ TRUE \in BOOLEAN
    BY EmptyIsRangeSet
  <2> QED
    BY <2>1, ClassOf
<1> QED
  BY <1>1 DEF Init, ClassKept

\* ... and every step of the parser keeps it.
LEMMA KeptByEveryStep == ASSUME ClassKept, [Next]_vars PROVE ClassKept'
<1>1. input \in Inputs /\ IsClass(class)
  BY DEF ClassKept
<1>2. /\ \A x \in input.first \cup input.next : IsClass(x)
      /\ input.operators \subseteq Operators
      /\ input.closes \subseteq BOOLEAN
  BY <1>1, InputsAssumption DEF Operators
<1>3. ASSUME NEW x \in input.first, FirstItem(x) PROVE ClassKept'
  BY <1>1, <1>2, <1>3 DEF FirstItem, ClassKept
<1>4. ASSUME NEW op \in input.operators, NEW x \in input.next, NextItem(op, x) PROVE ClassKept'
  <2>1. class' = Operated(op, class, x) /\ input' = input /\ op \in Operators /\ IsClass(x)
    BY <1>2, <1>4 DEF NextItem
  <2>2. IsClass(Operated(op, class, x))
    BY <1>1, <2>1, OperatedIsClass
  <2> QED
    BY <1>1, <2>1, <2>2 DEF ClassKept
<1>5. ASSUME NEW negated \in input.closes, CloseClass(negated) PROVE ClassKept'
  <2>1. input' = input /\ (class' = class \/ class' = Closed(negated, class, Folds)) /\ negated \in BOOLEAN
    BY <1>2, <1>5 DEF CloseClass
  <2>2. AreFolds(Folds)
    BY CodePointsAssumption DEF Folds, AreFolds
  <2>3. IsClass(Closed(negated, class, Folds))
    BY <1>1, <2>1, <2>2, ClosedMeans
  <2> QED
    BY <1>1, <2>1, <2>3 DEF ClassKept
<1>6. CASE UNCHANGED <<input, class>>
  BY <1>1, <1>6 DEF ClassKept
<1>7. CASE WriteClass
  BY <1>6, <1>7 DEF WriteClass
<1>8. ASSUME NEW hbeg, NEW hend, NEW leading, NEW trailing, ReadWindow(hbeg, hend, leading, trailing)
      PROVE  ClassKept'
  BY <1>6, <1>8 DEF ReadWindow
<1>9. ASSUME NEW hbeg, NEW hend, NEW size, NEW replacement, HitContext(hbeg, hend, size, replacement)
      PROVE  ClassKept'
  BY <1>6, <1>9 DEF HitContext
<1>10. CASE Free
  BY <1>6, <1>10 DEF Free
<1>11. CASE UNCHANGED vars
  BY <1>6, <1>11 DEF vars
<1> QED
  BY <1>3, <1>4, <1>5, <1>7, <1>8, <1>9, <1>10, <1>11 DEF Next

\* It says what ClassIsSet does.
LEMMA KeptIsSet == ClassKept => ClassIsSet
<1> SUFFICES ASSUME ClassKept PROVE ClassIsSet
  OBVIOUS
<1>1. input \in Inputs /\ IsClass(class)
  BY DEF ClassKept
<1>2. \A v : PointsWithin(v, CodePoints) = Members(v) \cap CodePoints
  BY CodePointsAssumption DEF PointsWithin, Members
<1>3. ASSUME NEW x \in input.next
      PROVE  /\ PointsWithin(Operated("union", class, x).points, CodePoints)
                  = PointsWithin(class.points, CodePoints) \cup PointsWithin(x.points, CodePoints)
             /\ PointsWithin(Operated("and", class, x).points, CodePoints)
                  = PointsWithin(class.points, CodePoints) \cap PointsWithin(x.points, CodePoints)
             /\ PointsWithin(Operated("minus", class, x).points, CodePoints)
                  = PointsWithin(class.points, CodePoints) \ PointsWithin(x.points, CodePoints)
             /\ PointsWithin(Operated("xor", class, x).points, CodePoints)
                  = (PointsWithin(class.points, CodePoints) \ PointsWithin(x.points, CodePoints))
                    \cup (PointsWithin(x.points, CodePoints) \ PointsWithin(class.points, CodePoints))
             /\ CountPoints(Operated("union", class, x).points) + CountPoints(Operated("and", class, x).points)
                  = CountPoints(class.points) + CountPoints(x.points)
  <2> DEFINE p == class.points
             q == x.points
  <2>1. IsClass(x)
    BY <1>1, <1>3, InputsAssumption
  <2>2. IsRangeSet(p) /\ IsRangeSet(q)
    BY <1>1, <2>1, ClassFields
  <2>3. /\ Operated("union", class, x).points = OrPoints(p, q)
        /\ Operated("and", class, x).points = AndPoints(p, q)
        /\ Operated("minus", class, x).points = MinusPoints(p, q)
        /\ Operated("xor", class, x).points = XorPoints(p, q)
    BY <1>1, <2>1, OperatedIsClass
  <2> HIDE DEF p, q
  <2>4. /\ IsRangeSet(OrPoints(p, q)) /\ Members(OrPoints(p, q)) = Members(p) \cup Members(q)
        /\ IsRangeSet(AndPoints(p, q)) /\ Members(AndPoints(p, q)) = Members(p) \cap Members(q)
        /\ Members(MinusPoints(p, q)) = Members(p) \ Members(q)
        /\ Members(XorPoints(p, q)) = (Members(p) \ Members(q)) \cup (Members(q) \ Members(p))
    BY <2>2, SetOperators
  <2>5. CountPoints(OrPoints(p, q)) + CountPoints(AndPoints(p, q)) = CountPoints(p) + CountPoints(q)
    <3>1. /\ CountPoints(p) = Cardinality(Members(p)) /\ IsFiniteSet(Members(p)) /\ CountPoints(p) \in Nat
          /\ CountPoints(q) = Cardinality(Members(q)) /\ IsFiniteSet(Members(q)) /\ CountPoints(q) \in Nat
      BY <2>2, CountIsNumber
    <3>2. /\ CountPoints(OrPoints(p, q)) = Cardinality(Members(p) \cup Members(q))
          /\ CountPoints(AndPoints(p, q)) = Cardinality(Members(p) \cap Members(q))
          /\ CountPoints(AndPoints(p, q)) \in Nat
      BY <2>4, CountIsNumber
    <3>3. Cardinality(Members(p) \cup Members(q))
            = Cardinality(Members(p)) + Cardinality(Members(q)) - Cardinality(Members(p) \cap Members(q))
      BY <3>1, FS_Union
    <3> QED
      BY <3>1, <3>2, <3>3
  <2>6. /\ PointsWithin(OrPoints(p, q), CodePoints) = PointsWithin(p, CodePoints) \cup PointsWithin(q, CodePoints)
        /\ PointsWithin(AndPoints(p, q), CodePoints) = PointsWithin(p, CodePoints) \cap PointsWithin(q, CodePoints)
        /\ PointsWithin(MinusPoints(p, q), CodePoints) = PointsWithin(p, CodePoints) \ PointsWithin(q, CodePoints)
        /\ PointsWithin(XorPoints(p, q), CodePoints)
             = (PointsWithin(p, CodePoints) \ PointsWithin(q, CodePoints))
               \cup (PointsWithin(q, CodePoints) \ PointsWithin(p, CodePoints))
    BY <1>2, <2>4
  <2> QED
    BY <2>3, <2>5, <2>6 DEF p, q
<1> QED
  BY <1>1, <1>3 DEF ClassIsSet

\* The class that the parser has is a set at every time, whatever items and operators come
\* in whatever order, and its operators are those of sets.
THEOREM ClassIsSetAlways == Spec => []ClassIsSet
<1>1. Init => ClassKept
  BY KeptAtFirst
<1>2. ClassKept /\ [Next]_vars => ClassKept'
  BY KeptByEveryStep
<1>3. ClassKept => ClassIsSet
  BY KeptIsSet
<1> QED
  BY <1>1, <1>2, <1>3, PTL DEF Spec
-----------------------------------------------------------------------------
Encodings == {"ASCII", "UTF-8", "UTF-16LE", "UTF-16BE", "UTF-32LE", "UTF-32BE"}

\* The bytes that the decoder has read ahead at place p of a range up to to.
Ahead(chain, buffer, p, to) == [k \in 1..Min({4, to - p}) |-> Undone(chain, buffer[p + k])]
StepAt(chain, buffer, p, to) == CodeAt(chain.encoding, Ahead(chain, buffer, p, to))

\* The item that starts at p, and how many bytes it takes.
ItemAt(chain, buffer, p, to) ==
  IF StepAt(chain, buffer, p, to).used = 0 THEN BadByte(Ahead(chain, buffer, p, to)[1], p)
  ELSE Item(Unrotated(chain.rot, StepAt(chain, buffer, p, to).val), p)
Width(chain, buffer, p, to) ==
  IF StepAt(chain, buffer, p, to).used = 0 THEN 1 ELSE StepAt(chain, buffer, p, to).used

\* The lesser of two numbers.
LEMMA MinOfTwo ==
  ASSUME NEW a \in Int, NEW b \in Int
  PROVE  Min({a, b}) = (IF a <= b THEN a ELSE b) /\ Max({a, b}) = (IF a <= b THEN b ELSE a)
<1>1. \E x \in {a, b} : \A y \in {a, b} : x <= y
  OBVIOUS
<1>2. \E x \in {a, b} : \A y \in {a, b} : x >= y
  OBVIOUS
<1>3. Min({a, b}) \in {a, b} /\ \A y \in {a, b} : Min({a, b}) <= y
  BY <1>1, Zenon DEF Min
<1>4. Max({a, b}) \in {a, b} /\ \A y \in {a, b} : Max({a, b}) >= y
  BY <1>2, Zenon DEF Max
<1> QED
  BY <1>3, <1>4

\* A code takes no more bytes than there are.
LEMMA CodeFits ==
  ASSUME NEW encoding \in Encodings, NEW n \in 1..4, NEW s, LongAs(s, n)
  PROVE  CodeAt(encoding, s).used \in 0..n
<1>1. Len(s) = n
  BY DEF LongAs
<1>2. NoCode.used = 0 /\ \A v, u : Step(v, u).used = u
  BY DEF NoCode, Step
<1>3. Utf8ToCp(s).used \in 0..n
  <2> DEFINE m == Utf8Length(s[1])
             cp == Utf8Point(s, m)
             least == <<0, 128, 2048, 65536>>
             good == /\ \A k \in 2..m : s[k] \in 128..191
                     /\ cp >= least[m] /\ IsUnicode(cp)
  <2>1. Utf8ToCp(s) = IF m \in 1..Len(s) /\ good THEN Step(cp, m) ELSE NoCode
    BY SMT DEF Utf8ToCp
  <2> HIDE DEF m, cp, good
  <2> QED
    BY <1>1, <1>2, <2>1, SMT
<1>4. ASSUME NEW le PROVE Utf16ToCp(s, le).used \in 0..n
  <2> DEFINE Unit(k) == UnitAt(s, k, le)
             A == Unit(1) \notin Surrogates
             B == Unit(1) \in 55296..56319 /\ Unit(3) \in 56320..57343
             x == Unit(1)
             y == 1024 * (Unit(1) - (55296 - 64)) + Unit(3) - 56320
  <2>1. Utf16ToCp(s, le) = CASE Len(s) >= 2 /\ A -> Step(x, 2)
                             [] Len(s) >= 4 /\ B -> Step(y, 4)
                             [] OTHER -> NoCode
    BY DEF Utf16ToCp
  <2> HIDE DEF A, B, x, y
  <2>2. \/ Utf16ToCp(s, le) = NoCode
        \/ Len(s) >= 2 /\ Utf16ToCp(s, le) = Step(x, 2)
        \/ Len(s) >= 4 /\ Utf16ToCp(s, le) = Step(y, 4)
    BY <2>1, Zenon
  <2> QED
    BY <1>1, <1>2, <2>2
<1>5. ASSUME NEW le PROVE Utf32ToCp(s, le).used \in 0..n
  <2>1. \E cp : Utf32ToCp(s, le) = NoCode \/ (Len(s) = 4 /\ Utf32ToCp(s, le) = Step(cp, 4))
    BY SMT DEF Utf32ToCp
  <2> QED
    BY <1>1, <1>2, <2>1
<1>6. encoding = "ASCII" => CodeAt(encoding, s).used \in 0..n
  BY <1>2 DEF CodeAt
<1>7. encoding # "ASCII" => \/ CodeAt(encoding, s) = Utf8ToCp(s)
                            \/ \E le \in BOOLEAN : CodeAt(encoding, s) = Utf16ToCp(s, le)
                            \/ \E le \in BOOLEAN : CodeAt(encoding, s) = Utf32ToCp(s, le)
  BY DEF CodeAt, Encodings
<1> QED
  BY <1>3, <1>4, <1>5, <1>6, <1>7

\* An item takes at least one byte and none behind the range.
LEMMA ItemFits ==
  ASSUME NEW chain, chain.encoding \in Encodings, NEW buffer, NEW to \in Nat, NEW p \in 0..to - 1
  PROVE  Width(chain, buffer, p, to) \in 1..to - p /\ ItemAt(chain, buffer, p, to).at = p
<1> DEFINE n == Min({4, to - p})
           s == Ahead(chain, buffer, p, to)
<1>1. n \in 1..4 /\ n <= to - p
  <2>1. 4 \in Int /\ to - p \in Int /\ 1 <= to - p
    OBVIOUS
  <2>2. Min({4, to - p}) = IF 4 <= to - p THEN 4 ELSE to - p
    BY <2>1, MinOfTwo
  <2> QED
    BY <2>1, <2>2
<1>2. s = [k \in 1..n |-> Undone(chain, buffer[p + k])]
  BY DEF Ahead
<1> HIDE DEF n, s
<1>3. LongAs(s, n)
  <2>1. s = [k \in 1..n |-> s[k]] /\ n \in Nat
    BY <1>1, <1>2
  <2> QED
    BY <2>1, SequenceMeans
<1>4. CodeAt(chain.encoding, s).used \in 0..n
  BY <1>1, <1>3, CodeFits
<1>5. StepAt(chain, buffer, p, to).used \in 0..n
  BY <1>4 DEF StepAt, s
<1>6. ItemAt(chain, buffer, p, to).at = p
  BY DEF ItemAt, BadByte, Item
<1> QED
  BY <1>1, <1>5, <1>6 DEF Width

-----------------------------------------------------------------------------
\* R gives the items of the range up to to from every place on that D holds.
Decodes(R, chain, buffer, D, to) ==
  R = [p \in D |-> IF p = to THEN <<>>
                   ELSE <<ItemAt(chain, buffer, p, to)>> \o R[p + Width(chain, buffer, p, to)]]

\* There is such a function for every place.
LEMMA DecodesExists ==
  ASSUME NEW chain, chain.encoding \in Encodings, NEW buffer, NEW to \in Nat
  PROVE  \A from \in 0..to : \E R : Decodes(R, chain, buffer, from..to, to)
<1> DEFINE T == {d \in Nat : d <= to => \E R : Decodes(R, chain, buffer, to - d..to, to)}
           I(p) == ItemAt(chain, buffer, p, to)
           W(p) == Width(chain, buffer, p, to)
<1>1. 0 \in T
  <2> DEFINE R == [p \in to - 0..to |-> <<>>]
  <2>1. \A p \in to - 0..to : p = to
    OBVIOUS
  <2>2. Decodes(R, chain, buffer, to - 0..to, to)
    BY <2>1, Zenon DEF Decodes
  <2> QED
    BY <2>2
<1>2. ASSUME NEW d \in T PROVE d + 1 \in T
  <2> SUFFICES ASSUME d + 1 <= to PROVE \E R : Decodes(R, chain, buffer, to - (d + 1)..to, to)
    OBVIOUS
  <2> DEFINE from == to - (d + 1)
             D == to - d..to
             E == from..to
  <2>1. from \in 0..to - 1 /\ E = D \cup {from} /\ from \notin D /\ to \in D /\ \A p \in D : p \in 0..to
    OBVIOUS
  <2>2. PICK R : Decodes(R, chain, buffer, D, to)
    OBVIOUS
  <2> DEFINE Q == [p \in E |-> IF p = from THEN <<I(from)>> \o R[from + W(from)] ELSE R[p]]
  <2>3. \A p \in E : p # to => p + W(p) \in D
    <3> SUFFICES ASSUME NEW p \in E, p # to PROVE p + W(p) \in D
      OBVIOUS
    <3>1. p \in 0..to - 1
      BY <2>1
    <3>2. W(p) \in 1..to - p
      BY <3>1, ItemFits
    <3> HIDE DEF W
    <3> QED
      BY <3>2
  <2> HIDE DEF from, D, I, W
  <2>4. \A p \in D : R[p] = IF p = to THEN <<>> ELSE <<I(p)>> \o R[p + W(p)]
    <3>1. R = [p \in D |-> IF p = to THEN <<>> ELSE <<I(p)>> \o R[p + W(p)]]
      BY <2>2 DEF Decodes, I, W
    <3> QED
      BY <3>1
  <2>5. \A p \in E : Q[p] = IF p = to THEN <<>> ELSE <<I(p)>> \o Q[p + W(p)]
    <3> SUFFICES ASSUME NEW p \in E PROVE Q[p] = IF p = to THEN <<>> ELSE <<I(p)>> \o Q[p + W(p)]
      OBVIOUS
    <3>1. \A q \in D : q \in E /\ Q[q] = R[q]
      BY <2>1
    <3>2. p # to => Q[p + W(p)] = R[p + W(p)]
      BY <2>3, <3>1
    <3>3. CASE p = from
      <4>1. Q[p] = <<I(p)>> \o R[p + W(p)] /\ p # to
        BY <2>1, <3>3
      <4> QED
        BY <3>2, <4>1
    <3>4. CASE p \in D
      BY <2>4, <3>1, <3>2, <3>4
    <3> QED
      BY <2>1, <3>3, <3>4
  <2>6. DOMAIN Q = E /\ Q = [p \in E |-> Q[p]]
    OBVIOUS
  <2> HIDE DEF Q
  <2>7. Q = [p \in E |-> IF p = to THEN <<>> ELSE <<I(p)>> \o Q[p + W(p)]]
    BY <2>5, <2>6
  <2>8. Decodes(Q, chain, buffer, E, to)
    BY <2>7 DEF Decodes, I, W
  <2> QED
    BY <2>8 DEF from
<1>3. T \subseteq Nat
  OBVIOUS
<1> HIDE DEF T
<1>4. \A d \in Nat : d \in T
  BY <1>1, <1>2, <1>3, InductionOnNat
<1>5. ASSUME NEW from \in 0..to PROVE \E R : Decodes(R, chain, buffer, from..to, to)
  <2>1. to - from \in Nat /\ to - from <= to /\ to - (to - from) = from
    OBVIOUS
  <2>2. to - from \in T
    BY <1>4, <2>1
  <2> QED
    BY <2>1, <2>2 DEF T
<1> QED
  BY <1>5

\* Two such functions agree where both are defined.
LEMMA DecodesUnique ==
  ASSUME NEW chain, chain.encoding \in Encodings, NEW buffer, NEW to \in Nat,
         NEW f \in 0..to, NEW g \in 0..to, f <= g,
         NEW R, Decodes(R, chain, buffer, f..to, to), NEW Q, Decodes(Q, chain, buffer, g..to, to)
  PROVE  \A p \in g..to : R[p] = Q[p]
<1> DEFINE T == {d \in Nat : \A p \in g..to : to - p <= d => R[p] = Q[p]}
           I(p) == ItemAt(chain, buffer, p, to)
           W(p) == Width(chain, buffer, p, to)
<1>0. /\ \A p \in f..to : R[p] = IF p = to THEN <<>> ELSE <<I(p)>> \o R[p + W(p)]
      /\ \A p \in g..to : Q[p] = IF p = to THEN <<>> ELSE <<I(p)>> \o Q[p + W(p)]
  <2>1. /\ R = [p \in f..to |-> IF p = to THEN <<>> ELSE <<I(p)>> \o R[p + W(p)]]
        /\ Q = [p \in g..to |-> IF p = to THEN <<>> ELSE <<I(p)>> \o Q[p + W(p)]]
    BY DEF Decodes
  <2> HIDE DEF I, W
  <2> QED
    BY <2>1
<1>w. \A p \in 0..to - 1 : W(p) \in 1..to - p
  BY ItemFits
<1> HIDE DEF I, W
<1>1. 0 \in T
  <2> SUFFICES ASSUME NEW p \in g..to, to - p <= 0 PROVE R[p] = Q[p]
    OBVIOUS
  <2>1. p = to /\ p \in f..to
    OBVIOUS
  <2> QED
    BY <1>0, <2>1
<1>2. ASSUME NEW d \in T PROVE d + 1 \in T
  <2>0. d \in Nat /\ d + 1 \in Nat
    OBVIOUS
  <2> SUFFICES ASSUME NEW p \in g..to, to - p <= d + 1 PROVE R[p] = Q[p]
    BY <2>0
  <2>1. p \in f..to
    OBVIOUS
  <2>2. p # to => /\ p + W(p) \in g..to /\ to - (p + W(p)) <= d
    <3> SUFFICES ASSUME p # to PROVE p + W(p) \in g..to /\ to - (p + W(p)) <= d
      OBVIOUS
    <3>1. W(p) \in 1..to - p
      BY <1>w
    <3> QED
      BY <2>0, <3>1
  <2>3. p # to => R[p + W(p)] = Q[p + W(p)]
    BY <2>2
  <2> QED
    BY <1>0, <2>1, <2>3
<1>3. T \subseteq Nat
  OBVIOUS
<1> HIDE DEF T
<1>4. \A d \in Nat : d \in T
  BY <1>1, <1>2, <1>3, InductionOnNat
<1>5. ASSUME NEW p \in g..to PROVE R[p] = Q[p]
  <2>1. to - p \in Nat
    OBVIOUS
  <2>2. to - p \in T
    BY <1>4, <2>1
  <2> QED
    BY <2>1, <2>2 DEF T
<1> QED
  BY <1>5

\* There are no items in an empty range, and in another one the item at its start is
\* before those of the range behind it.
LEMMA ItemsUnfold ==
  ASSUME NEW chain, chain.encoding \in Encodings, NEW buffer, NEW to \in Nat, NEW from \in 0..to
  PROVE  Items(chain, buffer, from, to) =
           IF from = to THEN <<>>
           ELSE <<ItemAt(chain, buffer, from, to)>>
                \o Items(chain, buffer, from + Width(chain, buffer, from, to), to)
<1> DEFINE R(p) == CHOOSE Q : Decodes(Q, chain, buffer, p..to, to)
           W == Width(chain, buffer, from, to)
<1>1. \A p \in 0..to : Items(chain, buffer, p, to) = R(p)[p]
  <2> SUFFICES ASSUME NEW p \in 0..to PROVE Items(chain, buffer, p, to) = R(p)[p]
    OBVIOUS
  <2> DEFINE E(Rest, q) ==
        IF q = to THEN <<>>
        ELSE IF StepAt(chain, buffer, q, to).used = 0
             THEN <<BadByte(Ahead(chain, buffer, q, to)[1], q)>> \o Rest[q + 1]
             ELSE <<Item(Unrotated(chain.rot, StepAt(chain, buffer, q, to).val), q)>>
                  \o Rest[q + StepAt(chain, buffer, q, to).used]
  <2>1. Items(chain, buffer, p, to) = (CHOOSE Q : Q = [q \in p..to |-> E(Q, q)])[p]
    BY DEF Items, StepAt, Ahead
  <2>2. \A Q, q : E(Q, q) = IF q = to THEN <<>> ELSE <<ItemAt(chain, buffer, q, to)>>
                                                 \o Q[q + Width(chain, buffer, q, to)]
    BY DEF ItemAt, Width
  <2> HIDE DEF E
  <2>3. \A Q : (Q = [q \in p..to |-> E(Q, q)]) <=> Decodes(Q, chain, buffer, p..to, to)
    BY <2>2 DEF Decodes
  <2>4. (CHOOSE Q : Q = [q \in p..to |-> E(Q, q)]) = R(p)
    BY <2>3
  <2> QED
    BY <2>1, <2>4
<1>2. \A p \in 0..to : Decodes(R(p), chain, buffer, p..to, to)
  BY DecodesExists
<1> HIDE DEF R
<1>3. R(from)[from] = IF from = to THEN <<>>
                      ELSE <<ItemAt(chain, buffer, from, to)>> \o R(from)[from + W]
  <2>1. Decodes(R(from), chain, buffer, from..to, to) /\ from \in from..to
    BY <1>2
  <2> QED
    BY <2>1 DEF Decodes
<1>4. from # to => R(from)[from + W] = R(from + W)[from + W]
  <2> SUFFICES ASSUME from # to PROVE R(from)[from + W] = R(from + W)[from + W]
    OBVIOUS
  <2>1. W \in 1..to - from
    BY ItemFits
  <2> DEFINE g == from + W
  <2> HIDE DEF W
  <2>2. g \in 0..to /\ from <= g /\ g \in g..to
    BY <2>1
  <2> HIDE DEF g
  <2>3. \A p \in g..to : R(from)[p] = R(g)[p]
    BY <1>2, <2>2, DecodesUnique
  <2> QED
    BY <2>2, <2>3 DEF g
<1>5. from # to => from + W \in 0..to
  <2>1. from # to => W \in 1..to - from
    BY ItemFits, SMTT(60)
  <2> HIDE DEF W
  <2> QED
    BY <2>1
<1> QED
  BY <1>1, <1>3, <1>4, <1>5

\* The items s of the range from..to-1, where F gives those of from any place on: as many
\* as bytes at most, the first at the start, one behind the other, and from any of them on
\* they are the items that decoding from there gives.
ItemsFrom(s, n, F, from, to) ==
  /\ n \in 0..to - from /\ LongAs(s, n)
  /\ from < to => n >= 1 /\ s[1].at = from
  /\ \A k \in 1..n : s[k].at \in from..to - 1
  /\ \A i, j \in 1..n : i < j => s[i].at < s[j].at
  /\ \A k \in 1..n : LongAs(F[s[k].at], n - k + 1)
  /\ \A k \in 1..n : \A j \in 1..n - k + 1 : F[s[k].at][j] = s[k - 1 + j]

\* So are the items with one more in front.
LEMMA ItemsGrow ==
  ASSUME NEW to \in Nat, NEW p \in 0..to - 1, NEW w \in 1..to - p, NEW F, NEW x, x.at = p,
         NEW n, ItemsFrom(F[p + w], n, F, p + w, to), F[p] = <<x>> \o F[p + w]
  PROVE  ItemsFrom(F[p], n + 1, F, p, to)
<1> DEFINE q == p + w
           t == F[q]
           s == F[p]
<1>1. q \in 1..to /\ p < q /\ q <= to
  OBVIOUS
<1>2. /\ n \in 0..to - q /\ LongAs(t, n)
      /\ \A k \in 1..n : t[k].at \in q..to - 1
      /\ \A i, j \in 1..n : i < j => t[i].at < t[j].at
      /\ \A k \in 1..n : LongAs(F[t[k].at], n - k + 1)
      /\ \A k \in 1..n : \A j \in 1..n - k + 1 : F[t[k].at][j] = t[k - 1 + j]
  BY DEF ItemsFrom
<1>3. s = <<x>> \o t
  OBVIOUS
<1> HIDE DEF q, t, s
<1>4. LongAs(s, n + 1) /\ s[1] = x /\ \A k \in 1..n : s[k + 1] = t[k]
  <2>1. LongAs(<<x>>, 1) /\ <<x>>[1] = x /\ n \in Nat /\ 1 \in Nat /\ 1 \in 1..1
    BY <1>1, <1>2, OneElement
  <2>2. /\ LongAs(<<x>> \o t, 1 + n) /\ \A k \in 1..1 : (<<x>> \o t)[k] = <<x>>[k]
        /\ \A k \in 1..n : (<<x>> \o t)[1 + k] = t[k]
    <3>1. LongAs(t, n) /\ LongAs(<<x>>, 1) /\ n \in Nat /\ 1 \in Nat
      BY <1>2, <2>1
    <3>2. Joins(<<x>> \o t, <<x>>, 1, t, n)
      BY <3>1, JoinSequences
    <3> QED
      BY <3>2 DEF Joins
  <2>3. 1 + n = n + 1 /\ \A k \in 1..n : 1 + k = k + 1
    BY <2>1
  <2> QED
    BY <1>3, <2>1, <2>2, <2>3
<1>n. n \in Nat
  BY <1>1, <1>2
<1>5. \A k \in 1..n + 1 : k = 1 \/ (k - 1 \in 1..n /\ (k - 1) + 1 = k)
  BY <1>n
<1>6. \A k \in 1..n + 1 : k # 1 => s[k] = t[k - 1] /\ s[k].at \in q..to - 1
  BY <1>2, <1>4, <1>5, SMTT(60)
<1>7. s[1].at = p
  BY <1>4
<1>8. \A k \in 1..n + 1 : s[k].at \in p..to - 1
  BY <1>1, <1>6, <1>7
<1>9. ASSUME NEW i \in 1..n + 1, NEW j \in 1..n + 1, i < j PROVE s[i].at < s[j].at
  <2>1. j # 1 /\ (i # 1 => i - 1 < j - 1)
    BY <1>1, <1>2, <1>9
  <2>2. s[j].at \in q..to - 1 /\ s[j] = t[j - 1] /\ j - 1 \in 1..n
    BY <1>5, <1>6, <2>1
  <2>3. i = 1 => s[i].at < s[j].at
    BY <1>1, <1>7, <2>2, SMTT(60)
  <2>4. i # 1 => s[i] = t[i - 1] /\ i - 1 \in 1..n /\ i - 1 < j - 1
    BY <1>5, <1>6, <2>1
  <2> QED
    BY <1>2, <2>2, <2>3, <2>4
<1>10. ASSUME NEW k \in 1..n + 1
       PROVE  LongAs(F[s[k].at], (n + 1) - k + 1) /\ \A j \in 1..(n + 1) - k + 1 : F[s[k].at][j] = s[k - 1 + j]
  <2>1. CASE k = 1
    <3>1. F[s[k].at] = s
      BY <1>7, <2>1 DEF s
    <3>2. (n + 1) - k + 1 = n + 1 /\ \A j \in 1..n + 1 : k - 1 + j = j
      BY <1>n, <2>1
    <3> QED
      BY <1>4, <3>1, <3>2
  <2>2. CASE k # 1
    <3> DEFINE i == k - 1
    <3>1. /\ i \in 1..n /\ (n + 1) - k + 1 = n - i + 1
          /\ \A j \in 1..n - i + 1 : i - 1 + j \in 1..n /\ k - 1 + j = (i - 1 + j) + 1
      BY <1>n, <2>2
    <3>2. s[k] = t[i]
      BY <1>6, <2>2
    <3> HIDE DEF i
    <3>3. \A j \in 1..n - i + 1 : F[t[i].at][j] = t[i - 1 + j] /\ t[i - 1 + j] = s[(i - 1 + j) + 1]
      BY <1>2, <1>4, <3>1
    <3>4. LongAs(F[t[i].at], n - i + 1)
      BY <1>2, <3>1
    <3>5. \A j \in 1..(n + 1) - k + 1 : F[s[k].at][j] = s[k - 1 + j]
      BY <3>1, <3>2, <3>3, ZenonT(60)
    <3> QED
      BY <3>1, <3>2, <3>4, <3>5
  <2> QED
    BY <2>1, <2>2
<1>11. n + 1 \in 0..to - p /\ n + 1 >= 1
  BY <1>1, <1>2
<1> QED
  BY <1>4, <1>7, <1>8, <1>9, <1>10, <1>11 DEF ItemsFrom, s

\* What a decoder gives for a range, from any place of it.
AllItems(chain, buffer, to) == [p \in 0..to |-> Items(chain, buffer, p, to)]

\* It is a function of the place, given by what is read there and what follows.
LEMMA ItemsShape ==
  ASSUME NEW chain, chain.encoding \in Encodings, NEW buffer, NEW to \in Nat
  PROVE  \A p \in 0..to : \E n \in 0..to - p :
           ItemsFrom(AllItems(chain, buffer, to)[p], n, AllItems(chain, buffer, to), p, to)
<1> DEFINE F == AllItems(chain, buffer, to)
           T == {d \in Nat : \A p \in 0..to : to - p <= d => \E n : ItemsFrom(F[p], n, F, p, to)}
<1>0. \A p \in 0..to : F[p] = Items(chain, buffer, p, to)
  BY DEF AllItems
<1> HIDE DEF F
<1>1. \A p \in 0..to : p = to => ItemsFrom(F[p], 0, F, p, to)
  <2> SUFFICES ASSUME NEW p \in 0..to, p = to PROVE ItemsFrom(F[p], 0, F, p, to)
    OBVIOUS
  <2>1. F[p] = <<>>
    BY <1>0, ItemsUnfold, ZenonT(60)
  <2>2. LongAs(F[p], 0)
    BY <2>1, NoElement
  <2>3. 0 \in 0..to - p /\ ~(p < to) /\ 1..0 = {}
    OBVIOUS
  <2> QED
    BY <2>2, <2>3 DEF ItemsFrom
<1>2. 0 \in T
  <2>1. \A p \in 0..to : to - p <= 0 => p = to
    OBVIOUS
  <2>2. \A p \in 0..to : to - p <= 0 => \E n : ItemsFrom(F[p], n, F, p, to)
    BY <1>1, <2>1
  <2> QED
    BY <2>2
<1>3. ASSUME NEW d \in T PROVE d + 1 \in T
  <2>0. d \in Nat /\ d + 1 \in Nat /\ \A p \in 0..to : to - p <= d => \E n : ItemsFrom(F[p], n, F, p, to)
    OBVIOUS
  <2> SUFFICES ASSUME NEW p \in 0..to, to - p <= d + 1 PROVE \E n : ItemsFrom(F[p], n, F, p, to)
    BY <2>0
  <2>1. CASE p = to
    BY <1>1, <2>1
  <2>2. CASE p # to
    <3> DEFINE w == Width(chain, buffer, p, to)
               x == ItemAt(chain, buffer, p, to)
    <3>1. p \in 0..to - 1
      BY <2>2
    <3>2. w \in 1..to - p /\ x.at = p
      BY <3>1, ItemFits
    <3>3. F[p] = <<x>> \o Items(chain, buffer, p + w, to)
      BY <1>0, <2>2, ItemsUnfold
    <3> HIDE DEF w, x
    <3>4. p + w \in 0..to /\ to - (p + w) <= d
      BY <2>0, <3>2
    <3>5. PICK n : ItemsFrom(F[p + w], n, F, p + w, to)
      BY <2>0, <3>4
    <3>6. F[p] = <<x>> \o F[p + w]
      BY <1>0, <3>3, <3>4
    <3>7. ItemsFrom(F[p], n + 1, F, p, to)
      BY <3>1, <3>2, <3>5, <3>6, ItemsGrow
    <3> QED
      BY <3>7
  <2> QED
    BY <2>1, <2>2
<1>4. T \subseteq Nat
  OBVIOUS
<1> HIDE DEF T
<1>5. \A d \in Nat : d \in T
  BY <1>2, <1>3, <1>4, InductionOnNat
<1> SUFFICES ASSUME NEW p \in 0..to PROVE \E n \in 0..to - p : ItemsFrom(F[p], n, F, p, to)
  BY DEF F
<1>6. to \in T
  BY <1>5
<1>7. to - p <= to
  OBVIOUS
<1>8. \E n : ItemsFrom(F[p], n, F, p, to)
  BY <1>6, <1>7 DEF T
<1> QED
  BY <1>8 DEF ItemsFrom

-----------------------------------------------------------------------------
\* Bad items are counted part by part.
LEMMA CountJoined ==
  ASSUME NEW a \in Nat, NEW b \in Nat, NEW s, LongAs(s, a), NEW t, LongAs(t, b),
         NEW u, Joins(u, s, a, t, b)
  PROVE  /\ CountBad(u) = CountBad(s) + CountBad(t)
         /\ CountBad(s) \in 0..a /\ CountBad(t) \in 0..b
<1> DEFINE A == {k \in 1..a : IsBad(s[k])}
           B == {k \in 1..b : IsBad(t[k])}
           C == {k \in 1..a + b : IsBad(u[k])}
           D == {a + k : k \in B}
<1>1. /\ LongAs(u, a + b) /\ \A k \in 1..a : u[k] = s[k]
      /\ \A k \in 1..b : u[a + k] = t[k]
  BY DEF Joins
<1>2. DOMAIN s = 1..a /\ DOMAIN t = 1..b /\ DOMAIN u = 1..a + b
  <2>1. a + b \in Nat
    OBVIOUS
  <2> QED
    BY <1>1, <2>1, SequenceMeans
<1>3. CountBad(s) = Cardinality(A) /\ CountBad(t) = Cardinality(B) /\ CountBad(u) = Cardinality(C)
  BY <1>2 DEF CountBad
<1>4. /\ IsFiniteSet(A) /\ Cardinality(A) \in 0..a
      /\ IsFiniteSet(B) /\ Cardinality(B) \in 0..b
  <2>1. IsFiniteSet(1..a) /\ Cardinality(1..a) = a /\ IsFiniteSet(1..b) /\ Cardinality(1..b) = b
    BY FS_Interval
  <2>2. A \in SUBSET (1..a) /\ B \in SUBSET (1..b)
    OBVIOUS
  <2> HIDE DEF A, B
  <2>3. /\ IsFiniteSet(A) /\ Cardinality(A) <= a /\ IsFiniteSet(B) /\ Cardinality(B) <= b
    BY <2>1, <2>2, FS_Subset
  <2>4. Cardinality(A) \in Nat /\ Cardinality(B) \in Nat
    BY <2>3, FS_CardinalityType
  <2> QED
    BY <2>3, <2>4
<1>5. IsFiniteSet(D) /\ Cardinality(D) = Cardinality(B)
  <2> DEFINE f == [k \in B |-> a + k]
  <2>1. B \subseteq Nat
    OBVIOUS
  <2> HIDE DEF B
  <2>2. f \in Bijection(B, D)
    <3>1. f \in [B -> D]
      OBVIOUS
    <3>2. \A x, y \in B : f[x] = f[y] => x = y
      BY <2>1
    <3>3. \A y \in D : \E x \in B : f[x] = y
      OBVIOUS
    <3> QED
      BY <3>1, <3>2, <3>3 DEF Bijection, Injection, Surjection, IsInjective
  <2>3. ExistsBijection(B, D)
    BY <2>2 DEF ExistsBijection
  <2> HIDE DEF D
  <2> QED
    BY <1>4, <2>3, FS_Bijection
<1>6. C = A \cup D
  <2>1. ASSUME NEW k \in C PROVE k \in A \cup D
    <3>1. k \in 1..a => k \in A
      BY <1>1
    <3>2. k \notin 1..a => k - a \in 1..b /\ a + (k - a) = k
      OBVIOUS
    <3>3. k \notin 1..a => k - a \in B
      BY <1>1, <3>2
    <3> QED
      BY <3>1, <3>2, <3>3
  <2>2. ASSUME NEW k \in A PROVE k \in C
    BY <1>1
  <2>3. ASSUME NEW k \in B PROVE a + k \in C
    BY <1>1
  <2> QED
    BY <2>1, <2>2, <2>3
<1>7. A \cap D = {}
  <2>1. \A k \in A : k <= a
    OBVIOUS
  <2>2. \A k \in D : k > a
    OBVIOUS
  <2>3. \A k \in A : k \in Int
    OBVIOUS
  <2> HIDE DEF A, D
  <2> SUFFICES ASSUME NEW k \in A, k \in D PROVE FALSE
    OBVIOUS
  <2> QED
    BY <2>1, <2>2, <2>3
<1> HIDE DEF A, B, C, D
<1>8. Cardinality(C) = Cardinality(A) + Cardinality(D) - Cardinality(A \cap D)
  BY <1>4, <1>5, <1>6, FS_Union
<1>9. Cardinality(A \cap D) = 0
  BY <1>7, FS_EmptySet
<1> QED
  BY <1>3, <1>4, <1>5, <1>8, <1>9

\* So few, and none exactly when there are none.
LEMMA CountBadItems ==
  ASSUME NEW a \in Nat, NEW s, LongAs(s, a)
  PROVE  /\ CountBad(s) \in 0..a
         /\ CountBad(s) = 0 <=> \A k \in 1..a : ~IsBad(s[k])
<1> DEFINE A == {k \in 1..a : IsBad(s[k])}
<1>1. DOMAIN s = 1..a
  BY SequenceMeans
<1>2. CountBad(s) = Cardinality(A)
  BY <1>1 DEF CountBad
<1>3. IsFiniteSet(1..a) /\ Cardinality(1..a) = a /\ A \in SUBSET (1..a)
  BY FS_Interval
<1>4. A = {} <=> \A k \in 1..a : ~IsBad(s[k])
  OBVIOUS
<1> HIDE DEF A
<1>5. IsFiniteSet(A) /\ Cardinality(A) <= a
  BY <1>3, FS_Subset
<1>6. Cardinality(A) \in Nat /\ (Cardinality(A) = 0 <=> A = {})
  BY <1>5, FS_CardinalityType, FS_EmptySet
<1> QED
  BY <1>2, <1>4, <1>5, <1>6

\* The greatest of some numbers up to n.
LEMMA MaxOfSome ==
  ASSUME NEW n \in Nat, NEW S, S \subseteq 0..n, S # {}
  PROVE  Max(S) \in S /\ \A y \in S : Max(S) >= y
<1> DEFINE T == {n - y : y \in S}
<1>1. T \subseteq Nat /\ T # {}
  <2>1. \A y \in S : y \in 0..n /\ n - y \in Nat
    OBVIOUS
  <2>2. T \subseteq Nat
    BY <2>1
  <2>3. PICK y : y \in S
    OBVIOUS
  <2>4. n - y \in T
    BY <2>3
  <2> QED
    BY <2>2, <2>4
<1>2. PICK m \in T : \A y \in T : m <= y
  <2> HIDE DEF T
  <2> QED
    BY <1>1, LeastNatural
<1>3. n - m \in S /\ \A y \in S : n - m >= y
  <2>1. PICK x \in S : m = n - x
    OBVIOUS
  <2>2. \A y \in S : m <= n - y
    BY <1>2
  <2>3. n - m = x
    BY <2>1
  <2>4. \A y \in S : n - m >= y
    BY <2>1, <2>2
  <2> QED
    BY <2>3, <2>4
<1>4. \E x \in S : \A y \in S : x >= y
  BY <1>3
<1> QED
  BY <1>4, Zenon DEF Max

\* m is the place of the last bad one of the first a items of s.
LastBad(s, a, m) ==
  /\ m \in 0..a /\ (m = 0 \/ IsBad(s[m]))
  /\ \A k \in 1..a : IsBad(s[k]) => k <= m

\* The good items next to the hit are those behind the last bad one.
LEMMA LeadMeans ==
  ASSUME NEW a \in Nat, NEW s, LongAs(s, a), a <= UIntMax
  PROVE  /\ Lead(s).items = s
         /\ \E m : LastBad(s, a, m) /\ Lead(s).good = a - m
         /\ Lead(s).invBad = UIntMax - CountBad(s) /\ Lead(s).invBad \in Nat
<1> DEFINE bad == {k \in DOMAIN s : IsBad(s[k])}
           m == Max(bad \cup {0})
<1>1. DOMAIN s = 1..a /\ Len(s) = a
  BY SequenceMeans DEF LongAs
<1>2. /\ Lead(s).items = s /\ Lead(s).good = a - m
      /\ Lead(s).invBad = UIntMax - CountBad(s)
  BY <1>1 DEF Lead, CountBad
<1>3. LastBad(s, a, m)
  <2>1. bad \cup {0} \subseteq 0..a /\ bad \cup {0} # {}
    BY <1>1
  <2>2. m \in bad \cup {0} /\ \A y \in bad \cup {0} : m >= y
    BY <2>1, MaxOfSome
  <2> HIDE DEF m
  <2>3. m \in 0..a /\ (m = 0 \/ IsBad(s[m]))
    BY <1>1, <2>2
  <2>4. \A k \in 1..a : IsBad(s[k]) => k <= m
    BY <1>1, <2>2, <2>3
  <2> QED
    BY <2>3, <2>4 DEF LastBad
<1>4. UIntMax - CountBad(s) \in Nat
  <2>1. CountBad(s) \in 0..a
    BY CountBadItems
  <2> QED
    BY <2>1, UIntMaxAssumption
<1> QED
  BY <1>2, <1>3, <1>4

\* To begin behind a bad item leaves as many good ones next to the hit and fewer bad ones.
LEMMA BetterBehindBad ==
  ASSUME NEW a \in Nat, NEW s, LongAs(s, a), a <= UIntMax,
         NEW d \in 1..a, IsBad(s[d]), NEW t, IsPart(t, s, d, a)
  PROVE  Lead(t).good = Lead(s).good /\ Lead(t).invBad > Lead(s).invBad
<1> DEFINE b == a - d
<1>1. b \in Nat /\ LongAs(t, b) /\ b <= UIntMax /\ \A k \in 1..b : t[k] = s[d + k] /\ d + k \in 1..a
  BY UIntMaxAssumption DEF IsPart
<1>0. b = a - d
  OBVIOUS
<1> HIDE DEF b
<1>2. PICK m : LastBad(s, a, m) /\ Lead(s).good = a - m
  BY LeadMeans
<1>3. PICK l : LastBad(t, b, l) /\ Lead(t).good = b - l
  BY <1>1, LeadMeans
<1>4. /\ m \in 0..a /\ (m = 0 \/ IsBad(s[m])) /\ (\A k \in 1..a : IsBad(s[k]) => k <= m)
      /\ l \in 0..b /\ (l = 0 \/ IsBad(t[l])) /\ (\A k \in 1..b : IsBad(t[k]) => k <= l)
  BY <1>2, <1>3 DEF LastBad
<1>5. d <= m
  BY <1>4
<1>6. l > 0 => d + l <= m
  BY <1>1, <1>4
<1>7. m > d => m - d <= l
  <2> SUFFICES ASSUME m > d PROVE m - d <= l
    OBVIOUS
  <2>1. m - d \in 1..b /\ d + (m - d) = m
    BY <1>0, <1>4
  <2>2. IsBad(t[m - d])
    BY <1>1, <1>4, <1>5, <2>1
  <2> QED
    BY <1>4, <2>1, <2>2
<1>8. l = m - d
  BY <1>4, <1>5, <1>6, <1>7
<1>9. a - m = b - l
  BY <1>0, <1>4, <1>8
<1>10. CountBad(t) < CountBad(s)
  <2> DEFINE r == SubSeq(s, 0 + 1, d)
  <2>1. IsPart(r, s, 0, d)
    BY PartOfSequence
  <2> HIDE DEF r
  <2>2. LongAs(r, d) /\ \A k \in 1..d : r[k] = s[k]
    <3>1. d - 0 = d /\ \A k \in 1..d : 0 + k = k
      OBVIOUS
    <3> QED
      BY <2>1, <3>1 DEF IsPart
  <2>3. Joins(s, r, d, t, b)
    <3>1. d + b = a
      BY <1>0
    <3> QED
      BY <1>1, <2>2, <3>1 DEF Joins
  <2>4. CountBad(s) = CountBad(r) + CountBad(t) /\ CountBad(r) \in 0..d /\ CountBad(t) \in 0..b
    BY <1>1, <2>2, <2>3, CountJoined
  <2>5. CountBad(r) # 0
    <3>1. IsBad(r[d])
      BY <2>2
    <3> QED
      BY <2>2, <3>1, CountBadItems
  <2> QED
    BY <2>4, <2>5
<1>11. CountBad(s) \in 0..a /\ CountBad(t) \in 0..b
  BY <1>1, CountBadItems
<1>12. Lead(s).invBad = UIntMax - CountBad(s) /\ Lead(t).invBad = UIntMax - CountBad(t)
  BY <1>1, LeadMeans
<1> QED
  BY <1>2, <1>3, <1>9, <1>10, <1>11, <1>12, UIntMaxAssumption

-----------------------------------------------------------------------------
NoLead == [items |-> <<>>, good |-> 0, invBad |-> 0]

\* B keeps the best of the first candidates that G gives.
KeepsBest(B, G, n) == B = [k \in 0..n |-> IF k = 0 THEN NoLead ELSE NotWorse(G[k], B[k - 1])]

\* There is such a function for every number of candidates.
LEMMA BestExists == ASSUME NEW G PROVE \A n \in Nat : \E B : KeepsBest(B, G, n)
<1> DEFINE T == {n \in Nat : \E B : KeepsBest(B, G, n)}
<1>1. 0 \in T
  <2> DEFINE B == [k \in 0..0 |-> NoLead]
  <2>1. \A k \in 0..0 : k = 0
    OBVIOUS
  <2>2. KeepsBest(B, G, 0)
    BY <2>1, Zenon DEF KeepsBest
  <2> QED
    BY <2>2
<1>2. ASSUME NEW n \in T PROVE n + 1 \in T
  <2>1. PICK B : KeepsBest(B, G, n)
    OBVIOUS
  <2> DEFINE C == [k \in 0..n + 1 |-> IF k = n + 1 THEN NotWorse(G[n + 1], B[n]) ELSE B[k]]
  <2>2. n \in Nat
    OBVIOUS
  <2>3. \A k \in 0..n : B[k] = IF k = 0 THEN NoLead ELSE NotWorse(G[k], B[k - 1])
    BY <2>1 DEF KeepsBest
  <2>4. ASSUME NEW k \in 0..n + 1
        PROVE  C[k] = IF k = 0 THEN NoLead ELSE NotWorse(G[k], C[k - 1])
    <3>1. CASE k = n + 1
      <4>1. C[k] = NotWorse(G[k], B[n]) /\ k # 0 /\ k - 1 = n /\ C[n] = B[n]
        BY <2>2, <3>1
      <4> QED
        BY <4>1
    <3>2. CASE k # n + 1
      <4>1. k \in 0..n /\ C[k] = B[k] /\ (k # 0 => C[k - 1] = B[k - 1])
        BY <2>2, <3>2
      <4> QED
        BY <2>3, <4>1
    <3> QED
      BY <3>1, <3>2
  <2>5. DOMAIN C = 0..n + 1 /\ C = [k \in 0..n + 1 |-> C[k]]
    OBVIOUS
  <2> HIDE DEF C
  <2>6. C = [k \in 0..n + 1 |-> IF k = 0 THEN NoLead ELSE NotWorse(G[k], C[k - 1])]
    BY <2>4, <2>5
  <2>7. KeepsBest(C, G, n + 1)
    BY <2>6 DEF KeepsBest
  <2> QED
    BY <2>2, <2>7
<1>3. T \subseteq Nat
  OBVIOUS
<1> HIDE DEF T
<1>4. \A n \in Nat : n \in T
  BY <1>1, <1>2, <1>3, InductionOnNat
<1> QED
  BY <1>4 DEF T

\* x is no better than b.
NoBetter(x, b) == x.good < b.good \/ (x.good = b.good /\ x.invBad <= b.invBad)

\* b is one of the first n candidates, and none of them is better.
IsBest(b, G, n) == (\E k \in 1..n : b = G[k]) /\ \A k \in 1..n : NoBetter(G[k], b)

\* The best that is kept is the best of the candidates.
LEMMA KeptIsBest ==
  ASSUME NEW N \in Nat, NEW G, \A k \in 1..N : G[k].good \in Nat /\ G[k].invBad \in Nat,
         NEW B, KeepsBest(B, G, N)
  PROVE  B[0] = NoLead /\ \A n \in 1..N : IsBest(B[n], G, n)
<1>1. \A k \in 0..N : B[k] = IF k = 0 THEN NoLead ELSE NotWorse(G[k], B[k - 1])
  BY DEF KeepsBest
<1>2. B[0] = NoLead
  BY <1>1
<1> DEFINE T == {n \in Nat : n \in 1..N => IsBest(B[n], G, n)}
<1>3. 0 \in T
  OBVIOUS
<1>4. ASSUME NEW n \in T PROVE n + 1 \in T
  <2>0. n \in Nat /\ n + 1 \in Nat
    OBVIOUS
  <2> SUFFICES ASSUME n + 1 \in 1..N PROVE IsBest(B[n + 1], G, n + 1)
    BY <2>0
  <2> DEFINE m == n + 1
             x == G[m]
             b == B[n]
  <2>1. m \in 1..N /\ m # 0 /\ m - 1 = n /\ m \in 0..N /\ n \in 0..N
    BY <2>0
  <2>2. B[m] = NotWorse(x, b)
    <3> HIDE DEF m
    <3> QED
      BY <1>1, <2>1
  <2>3. x.good \in Nat /\ x.invBad \in Nat
    BY <2>1
  <2>4. CASE n = 0
    <3>1. b = NoLead
      BY <1>2, <2>4
    <3>2. b.good = 0 /\ b.invBad = 0
      BY <3>1 DEF NoLead
    <3> HIDE DEF x, b
    <3>3. B[m] = x
      BY <2>2, <2>3, <3>2 DEF NotWorse
    <3>4. NoBetter(x, x)
      BY <2>3 DEF NoBetter
    <3>5. \A k \in 1..m : k = m
      BY <2>4
    <3> QED
      BY <2>1, <3>3, <3>4, <3>5 DEF IsBest, x
  <2>5. CASE n # 0
    <3>1. IsBest(b, G, n) /\ n \in 1..N
      BY <2>0, <2>1, <2>5
    <3>2. PICK i \in 1..n : b = G[i]
      BY <3>1 DEF IsBest
    <3>3. \A k \in 1..n : NoBetter(G[k], b)
      BY <3>1 DEF IsBest
    <3>4. i \in 1..N /\ b.good \in Nat /\ b.invBad \in Nat
      <4>1. i \in 1..N
        BY <2>1
      <4>2. G[i].good \in Nat /\ G[i].invBad \in Nat
        BY <4>1
      <4> HIDE DEF b
      <4> QED
        BY <3>2, <4>1, <4>2
    <3>5. \A k \in 1..n : k \in 1..N /\ G[k].good \in Nat /\ G[k].invBad \in Nat
      BY <2>1
    <3>6. /\ \A k \in 1..m : k = m \/ k \in 1..n
          /\ \A k \in 1..n : k \in 1..m
          /\ m \in 1..m
      BY <2>0
    <3> HIDE DEF m, x, b
    <3>7. CASE x.good > b.good \/ (x.good = b.good /\ x.invBad >= b.invBad)
      <4>1. B[m] = x
        BY <2>2, <3>7 DEF NotWorse
      <4>2. \A k \in 1..n : NoBetter(G[k], x)
        BY <2>3, <3>3, <3>4, <3>5, <3>7 DEF NoBetter
      <4>3. NoBetter(x, x)
        BY <2>3 DEF NoBetter
      <4>4. \A k \in 1..m : NoBetter(G[k], B[m])
        BY <3>6, <4>1, <4>2, <4>3 DEF x
      <4>5. \E k \in 1..m : B[m] = G[k]
        BY <3>6, <4>1 DEF x
      <4>6. IsBest(B[m], G, m)
        BY <4>4, <4>5 DEF IsBest
      <4> QED
        BY <4>6 DEF m
    <3>8. CASE ~(x.good > b.good \/ (x.good = b.good /\ x.invBad >= b.invBad))
      <4>1. B[m] = b
        BY <2>2, <3>8 DEF NotWorse
      <4>2. NoBetter(x, b)
        BY <2>3, <3>4, <3>8 DEF NoBetter
      <4>3. \A k \in 1..m : NoBetter(G[k], B[m])
        BY <3>3, <3>6, <4>1, <4>2 DEF x
      <4>4. \E k \in 1..m : B[m] = G[k]
        BY <3>2, <3>6, <4>1
      <4>5. IsBest(B[m], G, m)
        BY <4>3, <4>4 DEF IsBest
      <4> QED
        BY <4>5 DEF m
    <3> QED
      BY <3>7, <3>8
  <2> QED
    BY <2>4, <2>5
<1>5. T \subseteq Nat
  OBVIOUS
<1> HIDE DEF T
<1>6. \A n \in Nat : n \in T
  BY <1>3, <1>4, <1>5, InductionOnNat
<1>7. \A n \in 1..N : IsBest(B[n], G, n)
  BY <1>6 DEF T
<1> QED
  BY <1>2, <1>7

\* u is the n items of s with padding, m in all.
PaddedTo(u, s, n, m, hbeg, leading) ==
  /\ LongAs(u, m)
  /\ \A k \in 1..m : u[k].at \in 0..hbeg - 1
  /\ IF n >= leading THEN u = s /\ m = n ELSE m <= leading

\* Padding only adds items from in front of the place where decoding begins, and none when
\* there are as many as asked for.
LEMMA PaddedShape ==
  ASSUME NEW buffer, NEW hbeg \in Nat, NEW l \in 0..hbeg, NEW leading \in Nat,
         NEW n \in 0..hbeg - l, NEW s, LongAs(s, n), \A k \in 1..n : s[k].at \in l..hbeg - 1
  PROVE  \E m \in n..hbeg : PaddedTo(Padded(buffer, l, s, leading), s, n, m, hbeg, leading)
<1> DEFINE pad == Min({l, Max({0, leading - Len(s)})})
           r == [k \in 1..pad |-> BadByte(buffer[l - pad + k], l - pad + k - 1)]
           m == pad + n
           u == Padded(buffer, l, s, leading)
<1>1. pad \in 0..l /\ (n >= leading => pad = 0) /\ (n < leading => pad <= leading - n)
  <2> DEFINE x == Max({0, leading - Len(s)})
  <2>1. Len(s) = n
    BY DEF LongAs
  <2>2. leading - n \in Int /\ 0 \in Int
    OBVIOUS
  <2>3. x = IF 0 <= leading - n THEN leading - n ELSE 0
    BY <2>1, <2>2, MinOfTwo
  <2> HIDE DEF x
  <2>4. x \in Int /\ l \in Int
    BY <2>3
  <2>5. Min({l, x}) = IF l <= x THEN l ELSE x
    BY <2>4, MinOfTwo
  <2> QED
    BY <2>3, <2>5 DEF x
<1>2. u = r \o s
  BY DEF Padded
<1> HIDE DEF pad
<1>3. r = [k \in 1..pad |-> r[k]] /\ \A k \in 1..pad : r[k].at = l - pad + k - 1
  BY DEF BadByte, Item
<1> HIDE DEF r
<1>4. LongAs(r, pad)
  BY <1>1, <1>3, SequenceMeans
<1>5. n \in Nat /\ pad \in Nat
  BY <1>1
<1> HIDE DEF u
<1>6. Joins(u, r, pad, s, n)
  BY <1>2, <1>4, <1>5, JoinSequences
<1>7. /\ LongAs(u, m) /\ \A k \in 1..pad : u[k] = r[k]
      /\ \A k \in 1..n : u[pad + k] = s[k]
  BY <1>6 DEF Joins
<1>8. ASSUME NEW k \in 1..m PROVE u[k].at \in 0..hbeg - 1
  <2>1. CASE k <= pad
    <3>1. u[k] = r[k] /\ r[k].at = l - pad + k - 1
      BY <1>3, <1>5, <1>7, <2>1
    <3> QED
      BY <1>1, <2>1, <3>1
  <2>2. CASE ~(k <= pad)
    <3>1. k - pad \in 1..n /\ pad + (k - pad) = k
      BY <1>5, <2>2
    <3>2. u[k] = s[k - pad] /\ s[k - pad].at \in l..hbeg - 1
      BY <1>7, <3>1
    <3> QED
      BY <3>2
  <2> QED
    BY <2>1, <2>2
<1>9. n >= leading => u = s
  <2> SUFFICES ASSUME n >= leading PROVE u = s
    OBVIOUS
  <2>1. pad = 0 /\ m = n /\ \A k \in 1..n : pad + k = k
    BY <1>1, <1>5
  <2>2. LongAs(u, n) /\ \A k \in 1..n : u[k] = s[k]
    BY <1>7, <2>1
  <2>3. u = [k \in 1..n |-> u[k]] /\ s = [k \in 1..n |-> s[k]]
    BY <1>5, <2>2, SequenceMeans
  <2>4. u = s
    BY <2>2, <2>3
  <2> QED
    BY <2>4
<1>10. m \in n..hbeg /\ (n >= leading => m = n) /\ (n < leading => m <= leading)
  BY <1>1, <1>5
<1> HIDE DEF m
<1>11. IF n >= leading THEN u = s /\ m = n ELSE m <= leading
  BY <1>9, <1>10
<1> QED
  BY <1>7, <1>8, <1>10, <1>11 DEF u, PaddedTo

\* The m items of a leading context, all in front of the hit.
InFront(s, m, hbeg) ==
  m \in 0..hbeg /\ LongAs(s, m) /\ \A k \in 1..m : s[k].at \in 0..hbeg - 1

\* What a candidate is: n items decoded from l on, with so much padding.
Candidate(x, chain, buffer, l, hbeg, leading, n, m) ==
  /\ ItemsFrom(AllItems(chain, buffer, hbeg)[l], n, AllItems(chain, buffer, hbeg), l, hbeg)
  /\ x = Lead(x.items) /\ InFront(x.items, m, hbeg) /\ n <= m
  /\ IF n >= leading THEN x.items = AllItems(chain, buffer, hbeg)[l] /\ m = n ELSE m <= leading

\* Every start gives a candidate.
LEMMA StartShape ==
  ASSUME NEW chain, chain.encoding \in Encodings, NEW buffer, NEW hbeg \in Nat, hbeg <= UIntMax,
         NEW l \in 0..hbeg, NEW leading \in Nat
  PROVE  \E n, m \in 0..hbeg :
           Candidate(LeadingFrom(chain, buffer, l, hbeg, leading), chain, buffer, l, hbeg, leading, n, m)
<1> DEFINE F == AllItems(chain, buffer, hbeg)
           u == Padded(buffer, l, F[l], leading)
           x == LeadingFrom(chain, buffer, l, hbeg, leading)
<1>1. PICK n \in 0..hbeg - l : ItemsFrom(F[l], n, F, l, hbeg)
  BY ItemsShape
<1>2. x = Lead(u)
  <2>1. F[l] = Items(chain, buffer, l, hbeg)
    BY DEF AllItems
  <2> HIDE DEF F
  <2> QED
    BY <2>1 DEF LeadingFrom
<1> HIDE DEF F, u, x
<1>3. LongAs(F[l], n) /\ \A k \in 1..n : F[l][k].at \in l..hbeg - 1
  BY <1>1 DEF ItemsFrom
<1>4. PICK m \in n..hbeg :
        /\ LongAs(u, m) /\ \A k \in 1..m : u[k].at \in 0..hbeg - 1
        /\ IF n >= leading THEN u = F[l] /\ m = n ELSE m <= leading
  <2> DEFINE s == F[l]
  <2>1. LongAs(s, n) /\ \A k \in 1..n : s[k].at \in l..hbeg - 1
    BY <1>3
  <2>2. u = Padded(buffer, l, s, leading)
    BY DEF u
  <2> HIDE DEF s
  <2>3. \E m \in n..hbeg : PaddedTo(u, s, n, m, hbeg, leading)
    BY <2>1, <2>2, PaddedShape
  <2> QED
    BY <2>3 DEF s, PaddedTo
<1>5. n \in 0..hbeg /\ m \in 0..hbeg /\ n <= m
  OBVIOUS
<1>6. Lead(u).items = u
  BY DEF Lead
<1>7. InFront(u, m, hbeg)
  BY <1>4, <1>5 DEF InFront
<1>8. Candidate(x, chain, buffer, l, hbeg, leading, n, m)
  <2>1. x = Lead(x.items) /\ x.items = u
    BY <1>2, <1>6
  <2>2. ItemsFrom(AllItems(chain, buffer, hbeg)[l], n, AllItems(chain, buffer, hbeg), l, hbeg)
    BY <1>1 DEF F
  <2>3. IF n >= leading THEN x.items = AllItems(chain, buffer, hbeg)[l] /\ m = n ELSE m <= leading
    BY <1>4, <2>1 DEF F
  <2> QED
    BY <1>5, <1>7, <2>1, <2>2, <2>3 DEF Candidate
<1> QED
  BY <1>5, <1>8 DEF x

\* A candidate has its numbers of good and of bad items.
LEMMA CandidateCounts ==
  ASSUME NEW x, NEW chain, NEW buffer, NEW l, NEW hbeg \in Nat, hbeg <= UIntMax, NEW leading, NEW n, NEW m,
         Candidate(x, chain, buffer, l, hbeg, leading, n, m)
  PROVE  /\ m \in 0..hbeg /\ m <= UIntMax /\ LongAs(x.items, m) /\ InFront(x.items, m, hbeg)
         /\ x.good \in Nat /\ x.invBad \in Nat /\ x.invBad = UIntMax - CountBad(x.items)
<1> DEFINE s == x.items
<1>1. x = Lead(s) /\ InFront(s, m, hbeg)
  BY DEF Candidate
<1> HIDE DEF s
<1>2. m \in 0..hbeg /\ LongAs(s, m)
  BY <1>1 DEF InFront
<1>3. m \in Nat /\ m <= UIntMax
  BY <1>2, UIntMaxAssumption
<1>4. /\ \E k : LastBad(s, m, k) /\ Lead(s).good = m - k
      /\ Lead(s).invBad = UIntMax - CountBad(s) /\ Lead(s).invBad \in Nat
  BY <1>2, <1>3, LeadMeans
<1>5. PICK k : LastBad(s, m, k) /\ x.good = m - k
  BY <1>1, <1>4
<1>6. k \in 0..m
  BY <1>5 DEF LastBad
<1>7. x.good \in Nat
  BY <1>3, <1>5, <1>6
<1>8. x.invBad = UIntMax - CountBad(s) /\ x.invBad \in Nat
  BY <1>1, <1>4
<1> QED
  BY <1>1, <1>2, <1>3, <1>7, <1>8 DEF s

\* In the best candidate no item is bad that is not shown: behind a bad one there would
\* have been a better start.
LEMMA BestDropsNoBad ==
  ASSUME NEW chain, chain.encoding \in Encodings, NEW buffer, NEW hbeg \in Nat, hbeg <= UIntMax,
         NEW leading \in Nat \ {0}, NEW l \in 0..hbeg, NEW x, NEW n, NEW m \in 0..hbeg,
         Candidate(x, chain, buffer, l, hbeg, leading, n, m),
         \A q \in l + 1..hbeg - 1 : NoBetter(LeadingFrom(chain, buffer, q, hbeg, leading), x)
  PROVE  \A k \in 1..m - leading : ~IsBad(x.items[k])
<1> SUFFICES ASSUME NEW j \in 1..m - leading, IsBad(x.items[j]) PROVE FALSE
  OBVIOUS
<1> DEFINE F == AllItems(chain, buffer, hbeg)
           s == F[l]
<1>1. /\ ItemsFrom(s, n, F, l, hbeg) /\ x = Lead(x.items)
      /\ IF n >= leading THEN x.items = s /\ m = n ELSE m <= leading
  BY DEF Candidate
<1>2. m > leading /\ j \in 1..m /\ j + 1 \in 1..m /\ j + 1 > 1
  OBVIOUS
<1> HIDE DEF s
<1>3. n >= leading /\ x.items = s /\ m = n
  BY <1>1, <1>2
<1>4. /\ LongAs(s, n)
      /\ \A k \in 1..n : s[k].at \in l..hbeg - 1
      /\ \A i, k \in 1..n : i < k => s[i].at < s[k].at
      /\ LongAs(F[s[j + 1].at], n - (j + 1) + 1)
      /\ \A k \in 1..n - (j + 1) + 1 : F[s[j + 1].at][k] = s[(j + 1) - 1 + k]
  <2>1. j + 1 \in 1..n
    BY <1>2, <1>3
  <2> HIDE DEF F
  <2> QED
    BY <1>1, <2>1 DEF ItemsFrom
<1> DEFINE q == s[j + 1].at
           t == F[q]
           y == LeadingFrom(chain, buffer, q, hbeg, leading)
<1>5. q \in l + 1..hbeg - 1 /\ q \in 0..hbeg
  <2>1. /\ j + 1 \in 1..n /\ 1 \in 1..n /\ 1 < j + 1
    BY <1>2, <1>3
  <2>2. s[1].at \in l..hbeg - 1 /\ q \in l..hbeg - 1 /\ s[1].at < q
    BY <1>4, <2>1
  <2> HIDE DEF q
  <2> QED
    BY <2>2
<1>6. IsPart(t, s, j, m)
  <2>1. n - (j + 1) + 1 = m - j /\ \A k \in 1..m - j : (j + 1) - 1 + k = j + k
    BY <1>2, <1>3
  <2>2. LongAs(t, n - (j + 1) + 1) /\ \A k \in 1..n - (j + 1) + 1 : t[k] = s[(j + 1) - 1 + k]
    BY <1>4
  <2> HIDE DEF t
  <2> QED
    BY <2>1, <2>2 DEF IsPart
<1> HIDE DEF q
<1>7. PICK b, c \in 0..hbeg : Candidate(y, chain, buffer, q, hbeg, leading, b, c)
  BY <1>5, StartShape
<1>8. /\ ItemsFrom(t, b, F, q, hbeg) /\ y = Lead(y.items)
      /\ IF b >= leading THEN y.items = t /\ c = b ELSE c <= leading
  BY <1>7 DEF Candidate
<1>9. b = m - j
  <2> HIDE DEF t
  <2>1. LongAs(t, b) /\ LongAs(t, m - j)
    BY <1>6, <1>8 DEF ItemsFrom, IsPart
  <2> QED
    BY <2>1 DEF LongAs
<1>10. b >= leading
  BY <1>9
<1>11. y = Lead(t) /\ x = Lead(s)
  BY <1>1, <1>3, <1>8, <1>10
<1>12. NoBetter(y, x)
  BY <1>5
<1> HIDE DEF t, y
<1>13. Lead(t).good = Lead(s).good /\ Lead(t).invBad > Lead(s).invBad
  <2>0. m \in Nat /\ m <= UIntMax
    BY UIntMaxAssumption
  <2> HIDE DEF F
  <2>2. LongAs(s, n)
    BY <1>4
  <2>3. m = n /\ x.items = s
    BY <1>3
  <2>4. LongAs(s, m)
    BY <2>2, <2>3
  <2>1. LongAs(s, m) /\ IsBad(s[j])
    BY <2>3, <2>4, Zenon
  <2> QED
    BY <1>2, <1>6, <2>0, <2>1, BetterBehindBad
<1>14. x.good \in Nat /\ x.invBad \in Nat /\ y.good \in Nat /\ y.invBad \in Nat
  BY <1>7, CandidateCounts DEF y
<1> QED
  BY <1>11, <1>12, <1>13, <1>14 DEF NoBetter

\* The candidates, one for each start that is tried.
Starts(chain, buffer, hbeg, leading, tried) ==
  [k \in 1..tried |-> LeadingFrom(chain, buffer, hbeg - k, hbeg, leading)]

\* x is the best of the candidates, when a start was tried for them; none is for no context.
BestOfStarts(x, chain, buffer, hbeg, leading, tried) ==
  /\ tried = StartsTried(chain, hbeg, leading)
  /\ tried \in 0..hbeg /\ (hbeg > 0 /\ leading > 0 => tried > 0)
  /\ IF tried = 0 THEN x = NoLead ELSE IsBest(x, Starts(chain, buffer, hbeg, leading, tried), tried)

\* What Leading gives is that.
LEMMA LeadingIsBest ==
  ASSUME NEW chain, chain.encoding \in Encodings, NEW buffer, NEW hbeg \in Nat, hbeg <= UIntMax,
         NEW leading \in Nat
  PROVE  \E tried : BestOfStarts(Leading(chain, buffer, hbeg, leading), chain, buffer, hbeg, leading, tried)
<1> DEFINE tried == StartsTried(chain, hbeg, leading)
           G == Starts(chain, buffer, hbeg, leading, tried)
           B == CHOOSE b : KeepsBest(b, G, tried)
           x == Leading(chain, buffer, hbeg, leading)
<1>1. tried \in 0..hbeg /\ (hbeg > 0 /\ leading > 0 => tried > 0)
  <2> DEFINE w == leading * MaxByteLength(chain)
  <2>1. w \in Nat /\ (leading > 0 => w > 0)
    BY DEF MaxByteLength
  <2> HIDE DEF w
  <2>2. w \in Int /\ hbeg \in Int
    BY <2>1
  <2>3. Min({hbeg, w}) = IF hbeg <= w THEN hbeg ELSE w
    BY <2>2, MinOfTwo
  <2>4. tried = Min({hbeg, w})
    BY DEF StartsTried, w
  <2> QED
    BY <2>1, <2>3, <2>4
<1> HIDE DEF tried
<1>2. x = B[tried]
  <2> DEFINE E(b) == [k \in 0..tried |->
                        IF k = 0 THEN NoLead
                        ELSE NotWorse(LeadingFrom(chain, buffer, hbeg - k, hbeg, leading), b[k - 1])]
  <2>1. x = (CHOOSE b : b = E(b))[tried]
    BY DEF Leading, NoLead, tried
  <2>2. \A b : E(b) = [k \in 0..tried |-> IF k = 0 THEN NoLead ELSE NotWorse(G[k], b[k - 1])]
    <3>1. \A k \in 0..tried : k # 0 => G[k] = LeadingFrom(chain, buffer, hbeg - k, hbeg, leading)
      BY <1>1 DEF Starts
    <3> HIDE DEF G
    <3> QED
      BY <3>1
  <2> HIDE DEF E, G
  <2>3. \A b : (b = E(b)) <=> KeepsBest(b, G, tried)
    BY <2>2 DEF KeepsBest
  <2>4. (CHOOSE b : b = E(b)) = B
    BY <2>3
  <2> QED
    BY <2>1, <2>4
<1>3. KeepsBest(B, G, tried)
  <2>1. tried \in Nat
    BY <1>1
  <2> HIDE DEF G
  <2> QED
    BY <2>1, BestExists
<1>4. \A k \in 1..tried : /\ hbeg - k \in 0..hbeg
                          /\ G[k] = LeadingFrom(chain, buffer, hbeg - k, hbeg, leading)
  BY <1>1 DEF Starts
<1> HIDE DEF G, B, x
<1>5. \A k \in 1..tried : \E n, m \in 0..hbeg :
        Candidate(G[k], chain, buffer, hbeg - k, hbeg, leading, n, m)
  BY <1>4, StartShape
<1>6. \A k \in 1..tried : G[k].good \in Nat /\ G[k].invBad \in Nat
  BY <1>5, CandidateCounts
<1>7. B[0] = NoLead /\ \A n \in 1..tried : IsBest(B[n], G, n)
  <2>1. tried \in Nat
    BY <1>1
  <2> QED
    BY <1>3, <1>6, <2>1, KeptIsBest
<1>8. IF tried = 0 THEN x = NoLead ELSE IsBest(x, G, tried)
  BY <1>1, <1>2, <1>7
<1> QED
  BY <1>1, <1>8 DEF BestOfStarts, x, G, tried

\* The leading context, as it comes from Leading: items in front of the hit, and when one
\* was tried for, its number of bad ones, none of them among those that are not shown.
LEMMA LeadingShape ==
  ASSUME NEW chain, chain.encoding \in Encodings, NEW buffer, NEW hbeg \in Nat, hbeg <= UIntMax,
         NEW leading \in Nat
  PROVE  \E m \in 0..hbeg :
           /\ InFront(Leading(chain, buffer, hbeg, leading).items, m, hbeg)
           /\ hbeg > 0 /\ leading > 0 =>
                /\ Leading(chain, buffer, hbeg, leading).invBad
                     = UIntMax - CountBad(Leading(chain, buffer, hbeg, leading).items)
                /\ \A k \in 1..m - leading : ~IsBad(Leading(chain, buffer, hbeg, leading).items[k])
<1> DEFINE x == Leading(chain, buffer, hbeg, leading)
<1>1. PICK tried : BestOfStarts(x, chain, buffer, hbeg, leading, tried)
  BY LeadingIsBest
<1> DEFINE G == Starts(chain, buffer, hbeg, leading, tried)
<1> HIDE DEF x
<1>2. /\ tried \in 0..hbeg /\ (hbeg > 0 /\ leading > 0 => tried > 0)
      /\ IF tried = 0 THEN x = NoLead ELSE IsBest(x, G, tried)
  BY <1>1 DEF BestOfStarts
<1>4. \A k \in 1..tried : /\ hbeg - k \in 0..hbeg
                          /\ G[k] = LeadingFrom(chain, buffer, hbeg - k, hbeg, leading)
  BY <1>2 DEF Starts
<1> HIDE DEF G
<1>5. \A k \in 1..tried : \E n, m \in 0..hbeg :
        Candidate(G[k], chain, buffer, hbeg - k, hbeg, leading, n, m)
  BY <1>4, StartShape
<1>8. CASE tried = 0
  <2>1. x.items = <<>> /\ ~(hbeg > 0 /\ leading > 0)
    BY <1>2, <1>8 DEF NoLead
  <2>2. InFront(x.items, 0, hbeg) /\ 0 \in 0..hbeg
    BY <2>1, NoElement DEF InFront
  <2> QED
    BY <2>1, <2>2 DEF x
<1>9. CASE tried # 0
  <2>1. IsBest(x, G, tried)
    BY <1>2, <1>9
  <2>2. PICK k \in 1..tried : x = G[k]
    BY <2>1 DEF IsBest
  <2>3. \A i \in 1..tried : NoBetter(G[i], x)
    BY <2>1 DEF IsBest
  <2> DEFINE l == hbeg - k
  <2>4. PICK n \in 0..hbeg, m \in 0..hbeg : Candidate(x, chain, buffer, l, hbeg, leading, n, m)
    BY <1>5, <2>2
  <2>5. InFront(x.items, m, hbeg) /\ x.invBad = UIntMax - CountBad(x.items)
    BY <2>4, CandidateCounts
  <2>6. l \in 0..hbeg
    BY <1>4
  <2>7. ASSUME NEW q \in l + 1..hbeg - 1 PROVE NoBetter(LeadingFrom(chain, buffer, q, hbeg, leading), x)
    <3>1. hbeg - q \in 1..tried /\ hbeg - (hbeg - q) = q
      BY <1>2
    <3>2. G[hbeg - q] = LeadingFrom(chain, buffer, q, hbeg, leading)
      BY <1>4, <3>1
    <3> QED
      BY <2>3, <3>1, <3>2
  <2> HIDE DEF l
  <2>8. leading > 0 => \A i \in 1..m - leading : ~IsBad(x.items[i])
    <3> SUFFICES ASSUME leading \in Nat \ {0} PROVE \A i \in 1..m - leading : ~IsBad(x.items[i])
      OBVIOUS
    <3> QED
      BY <2>4, <2>6, <2>7, BestDropsNoBad
  <2> QED
    BY <2>5, <2>8 DEF x
<1> QED
  BY <1>8, <1>9

-----------------------------------------------------------------------------
\* What is shown of a leading context: its last items, of which none that was dropped is bad
\* when a leading context was asked for.
LEMMA FrontShape ==
  ASSUME NEW chain, chain.encoding \in Encodings, NEW buffer, NEW hbeg \in Nat, hbeg <= UIntMax,
         NEW leading \in Nat, NEW lead, lead = Leading(chain, buffer, hbeg, leading)
  PROVE  \E f \in 0..hbeg :
           /\ InFront(LastOf(lead.items, leading), f, hbeg)
           /\ hbeg > 0 /\ leading > 0 => UIntMax - lead.invBad = CountBad(LastOf(lead.items, leading))
<1> DEFINE s == lead.items
           front == LastOf(s, leading)
<1>1. PICK m \in 0..hbeg :
        /\ InFront(s, m, hbeg)
        /\ hbeg > 0 /\ leading > 0 => /\ lead.invBad = UIntMax - CountBad(s)
                                      /\ \A k \in 1..m - leading : ~IsBad(s[k])
  BY LeadingShape
<1> HIDE DEF s
<1>2. m \in Nat /\ LongAs(s, m) /\ \A k \in 1..m : s[k].at \in 0..hbeg - 1
  BY <1>1 DEF InFront
<1> DEFINE d == IF m > leading THEN m - leading ELSE 0
           f == m - d
<1>3. d \in 0..m /\ d \in Nat /\ f \in 0..hbeg
  OBVIOUS
<1>4. front = SubSeq(s, d + 1, m)
  <2>1. Len(s) = m
    BY <1>2 DEF LongAs
  <2>2. 1 \in Int /\ m - leading + 1 \in Int
    OBVIOUS
  <2>3. Max({1, m - leading + 1}) = IF 1 <= m - leading + 1 THEN m - leading + 1 ELSE 1
    BY <2>2, MinOfTwo
  <2>4. Max({1, m - leading + 1}) = d + 1
    BY <2>3
  <2> QED
    BY <2>1, <2>4 DEF LastOf
<1> HIDE DEF d, front
<1>5. IsPart(front, s, d, m)
  <2>1. d <= m /\ m <= m
    BY <1>3
  <2> QED
    BY <1>2, <1>3, <1>4, <2>1, PartOfSequence
<1>6. LongAs(front, f) /\ \A k \in 1..f : front[k] = s[d + k] /\ d + k \in 1..m
  BY <1>3, <1>5 DEF IsPart
<1>7. InFront(front, f, hbeg)
  BY <1>2, <1>3, <1>6 DEF InFront
<1>8. ASSUME hbeg > 0, leading > 0 PROVE UIntMax - lead.invBad = CountBad(front)
  <2> DEFINE r == SubSeq(s, 0 + 1, d)
  <2>1. IsPart(r, s, 0, d)
    BY <1>2, <1>3, PartOfSequence
  <2> HIDE DEF r
  <2>2. LongAs(r, d) /\ \A k \in 1..d : r[k] = s[k]
    <3>1. d - 0 = d /\ \A k \in 1..d : 0 + k = k
      BY <1>3
    <3> QED
      BY <2>1, <3>1 DEF IsPart
  <2>3. Joins(s, r, d, front, f)
    <3>1. d + f = m
      BY <1>3
    <3> QED
      BY <1>2, <1>6, <2>2, <3>1 DEF Joins
  <2>4. CountBad(s) = CountBad(r) + CountBad(front) /\ CountBad(front) \in 0..f
    <3>1. f \in Nat
      BY <1>3
    <3> HIDE DEF f
    <3> QED
      BY <1>3, <1>6, <2>2, <2>3, <3>1, CountJoined
  <2>5. \A k \in 1..d : ~IsBad(r[k])
    <3>1. \A k \in 1..d : k \in 1..m - leading
      BY <1>3 DEF d
    <3> QED
      BY <1>1, <1>8, <2>2, <3>1
  <2>6. CountBad(r) = 0
    BY <1>3, <2>2, <2>5, CountBadItems
  <2>7. lead.invBad = UIntMax - CountBad(s) /\ CountBad(s) = CountBad(front) /\ CountBad(front) \in Nat
    BY <1>1, <1>3, <1>8, <2>4, <2>6
  <2> QED
    BY <2>7, UIntMaxAssumption
<1> HIDE DEF f
<1> QED
  BY <1>3, <1>7, <1>8 DEF front, s

\* A window: f items in front of the hit, h of the hit, r behind it, and its end.
IsWindow(w, f, h, r, hbeg, hend) ==
  /\ LongAs(w.items, f + h + r + 1) /\ w.begin = f /\ w.end = f + h
  /\ \A k \in 1..f : w.items[k].at \in 0..hbeg - 1
  /\ \A k \in f + 1..f + h : w.items[k].at \in hbeg..hend - 1
  /\ \A k \in f + h + 1..f + h + r + 1 : w.items[k].at \in Nat /\ w.items[k].at >= hend
  /\ hbeg < hend => h >= 1 /\ w.items[f + 1].at = hbeg

\* The bad items of a window but for its end.
BadIn(items, n) == Cardinality({k \in 1..n : IsBad(items[k])})

\* The h items of a hit, and r items behind it.
HitItems(hit, h, hbeg, hend) ==
  /\ LongAs(hit, h) /\ \A k \in 1..h : hit[k].at \in hbeg..hend - 1
  /\ hbeg < hend => h >= 1 /\ hit[1].at = hbeg
RestItems(rest, r, hend) ==
  LongAs(rest, r) /\ \A k \in 1..r : rest[k].at \in Nat /\ rest[k].at >= hend

\* A window with its number of bad items, as it is made of its parts.
MadeOf(w, f, h, taken, hbeg, hend, front, invBad, back) ==
  /\ IsWindow(w, f, h, taken, hbeg, hend)
  /\ w.bad = (UIntMax - invBad + CountBad(back)) % (UIntMax + 1)
  /\ BadIn(w.items, f + h + taken) = CountBad(front) + CountBad(back)
  /\ CountBad(back) \in 0..h + taken

\* A window is made of its parts.
LEMMA WindowParts ==
  ASSUME NEW hbeg \in Nat, NEW hend \in Nat, hbeg <= hend,
         NEW f \in Nat, NEW front, InFront(front, f, hbeg),
         NEW h \in Nat, NEW hit, HitItems(hit, h, hbeg, hend),
         NEW r \in Nat, NEW rest, RestItems(rest, r, hend),
         NEW taken \in 0..r, NEW top \in Nat, top >= hend, NEW invBad
  PROVE  MadeOf(Window(front, invBad, hit, rest, taken, top), f, h, taken, hbeg, hend, front, invBad,
                hit \o SubSeq(rest, 1, taken))
<1> DEFINE w == Window(front, invBad, hit, rest, taken, top)
           some == SubSeq(rest, 1, taken)
           back == hit \o some
           body == front \o back
           x == Item(WindowEnd, IF taken < Len(rest) THEN rest[taken + 1].at ELSE top)
           last == <<x>>
           items == body \o last
<1>1. /\ w.items = items /\ w.begin = Len(front) /\ w.end = Len(front) + Len(hit)
      /\ w.bad = (UIntMax - invBad + CountBad(back)) % (UIntMax + 1)
  BY DEF Window
<1>2. LongAs(front, f) /\ \A k \in 1..f : front[k].at \in 0..hbeg - 1
  BY DEF InFront
<1>0. /\ LongAs(hit, h) /\ \A k \in 1..h : hit[k].at \in hbeg..hend - 1
      /\ hbeg < hend => h >= 1 /\ hit[1].at = hbeg
      /\ LongAs(rest, r) /\ \A k \in 1..r : rest[k].at \in Nat /\ rest[k].at >= hend
  BY DEF HitItems, RestItems
<1>3. Len(front) = f /\ Len(hit) = h /\ Len(rest) = r
  BY <1>0, <1>2 DEF LongAs
<1>4. LongAs(some, taken) /\ \A k \in 1..taken : some[k] = rest[k] /\ k \in 1..r
  <2>0. 0 \in Nat /\ taken \in Nat /\ 0 <= taken /\ taken <= r
    OBVIOUS
  <2>1. IsPart(SubSeq(rest, 0 + 1, taken), rest, 0, taken)
    BY <1>0, <2>0, PartOfSequence
  <2>2. taken - 0 = taken /\ 0 + 1 = 1 /\ \A k \in 1..taken : 0 + k = k /\ k \in 1..r
    OBVIOUS
  <2> QED
    BY <2>1, <2>2 DEF IsPart
<1>5. x.at \in Nat /\ x.at >= hend
  <2>1. x.at = IF taken < r THEN rest[taken + 1].at ELSE top
    BY <1>3 DEF Item
  <2>2. taken < r => taken + 1 \in 1..r
    OBVIOUS
  <2> HIDE DEF x
  <2> QED
    BY <1>0, <2>1, <2>2
<1> HIDE DEF w, x, some
<1>6. Joins(back, hit, h, some, taken)
  BY <1>0, <1>4, JoinSequences
<1> HIDE DEF back
<1>7. LongAs(back, h + taken)
  BY <1>6 DEF Joins
<1>8. Joins(body, front, f, back, h + taken)
  BY <1>2, <1>7, JoinSequences
<1> HIDE DEF body
<1>9. LongAs(body, f + (h + taken))
  BY <1>8 DEF Joins
<1>10. LongAs(last, 1) /\ last[1] = x
  BY OneElement
<1> HIDE DEF last
<1>11. Joins(items, body, f + (h + taken), last, 1)
  BY <1>9, <1>10, JoinSequences
<1> HIDE DEF items
<1>12. LongAs(items, f + h + taken + 1)
  <2>1. f + (h + taken) + 1 = f + h + taken + 1
    OBVIOUS
  <2> QED
    BY <1>11, <2>1 DEF Joins
<1>13. \A k \in 1..f : items[k] = front[k]
  <2>1. \A k \in 1..f : k \in 1..f + (h + taken)
    OBVIOUS
  <2> QED
    BY <1>8, <1>11, <2>1 DEF Joins
<1>14. \A k \in 1..h : items[f + k] = hit[k]
  <2>1. \A k \in 1..h : f + k \in 1..f + (h + taken) /\ k \in 1..h + taken
    OBVIOUS
  <2> QED
    BY <1>6, <1>8, <1>11, <2>1 DEF Joins
<1>15. \A k \in 1..taken : items[f + h + k] = rest[k]
  <2>1. \A k \in 1..taken : /\ f + h + k = f + (h + k) /\ f + (h + k) \in 1..f + (h + taken)
                            /\ h + k \in 1..h + taken
    OBVIOUS
  <2> QED
    BY <1>4, <1>6, <1>8, <1>11, <2>1 DEF Joins
<1>16. items[f + h + taken + 1] = x
  <2>1. f + h + taken + 1 = f + (h + taken) + 1 /\ 1 \in 1..1
    OBVIOUS
  <2> QED
    BY <1>10, <1>11, <2>1 DEF Joins
<1>17. \A k \in 1..f : items[k].at \in 0..hbeg - 1
  BY <1>2, <1>13
<1>18. \A k \in f + 1..f + h : items[k].at \in hbeg..hend - 1
  <2> SUFFICES ASSUME NEW k \in f + 1..f + h PROVE items[k].at \in hbeg..hend - 1
    OBVIOUS
  <2>1. k - f \in 1..h /\ f + (k - f) = k
    OBVIOUS
  <2>2. items[k] = hit[k - f]
    BY <1>14, <2>1
  <2> QED
    BY <1>0, <2>1, <2>2
<1>19. \A k \in f + h + 1..f + h + taken + 1 : items[k].at \in Nat /\ items[k].at >= hend
  <2> SUFFICES ASSUME NEW k \in f + h + 1..f + h + taken + 1
               PROVE  items[k].at \in Nat /\ items[k].at >= hend
    OBVIOUS
  <2>1. CASE k = f + h + taken + 1
    BY <1>5, <1>16, <2>1
  <2>2. CASE k # f + h + taken + 1
    <3>1. k - (f + h) \in 1..taken /\ f + h + (k - (f + h)) = k /\ k - (f + h) \in 1..r
      BY <2>2
    <3>2. items[k] = rest[k - (f + h)]
      BY <1>15, <3>1
    <3> QED
      BY <1>0, <3>1, <3>2
  <2> QED
    BY <2>1, <2>2
<1>20. hbeg < hend => h >= 1 /\ items[f + 1].at = hbeg
  <2>1. h >= 1 => 1 \in 1..h
    OBVIOUS
  <2> QED
    BY <1>0, <1>14, <2>1
<1>21. IsWindow(w, f, h, taken, hbeg, hend)
  BY <1>1, <1>3, <1>12, <1>17, <1>18, <1>19, <1>20 DEF IsWindow
<1>22. BadIn(items, f + h + taken) = CountBad(body)
  <2>0. f + (h + taken) \in Nat /\ f + h + taken = f + (h + taken)
    OBVIOUS
  <2>1. DOMAIN body = 1..f + (h + taken) /\ f + h + taken = f + (h + taken)
    BY <1>9, <2>0, SequenceMeans
  <2>2. \A k \in 1..f + (h + taken) : items[k] = body[k]
    BY <1>11 DEF Joins
  <2> DEFINE n == f + (h + taken)
  <2> HIDE DEF n
  <2>3. {k \in 1..n : IsBad(items[k])} = {k \in DOMAIN body : IsBad(body[k])}
    BY <2>1, <2>2 DEF n
  <2> QED
    BY <2>1, <2>3 DEF BadIn, CountBad, n
<1>23. CountBad(body) = CountBad(front) + CountBad(back) /\ CountBad(back) \in 0..h + taken
  <2>1. h + taken \in Nat
    OBVIOUS
  <2> QED
    BY <1>2, <1>7, <1>8, <2>1, CountJoined
<1> QED
  BY <1>1, <1>21, <1>22, <1>23 DEF w, back, some, MadeOf

\* The items that start before the end of the hit are the first ones.
LEMMA HitPart ==
  ASSUME NEW n \in Nat, NEW s, LongAs(s, n), \A k \in 1..n : s[k].at \in Nat,
         \A i, j \in 1..n : i < j => s[i].at < s[j].at, NEW end \in Nat
  PROVE  HitLength(s, end) \in 0..n /\ \A k \in 1..n : s[k].at < end <=> k <= HitLength(s, end)
<1> DEFINE D == {k \in DOMAIN s : s[k].at < end}
<1>1. DOMAIN s = 1..n
  BY SequenceMeans
<1>2. D \subseteq 1..n /\ \A k \in D : \A i \in 1..k : i \in D
  <2>1. ASSUME NEW k \in D, NEW i \in 1..k PROVE i \in D
    <3>1. k \in 1..n /\ i \in 1..n /\ s[k].at < end /\ s[k].at \in Nat /\ s[i].at \in Nat
      BY <1>1
    <3>2. i = k \/ s[i].at < s[k].at
      BY <3>1
    <3> QED
      BY <1>1, <3>1, <3>2
  <2> QED
    BY <1>1, <2>1
<1>3. HitLength(s, end) = Cardinality(D) /\ \A k \in 1..n : k \in D <=> s[k].at < end
  BY <1>1 DEF HitLength
<1> HIDE DEF D
<1>4. Cardinality(D) \in 0..n /\ D = 1..Cardinality(D)
  BY <1>2, InitialPart
<1> QED
  BY <1>3, <1>4

\* How much is taken of the trailing context.
LEMMA TakenFits ==
  ASSUME NEW r \in Nat, NEW rest, LongAs(rest, r), NEW trailing \in Nat
  PROVE  Taken(rest, trailing) \in 0..r
<1>1. Len(rest) = r
  BY DEF LongAs
<1>2. Min({trailing, r}) = IF trailing <= r THEN trailing ELSE r
  BY MinOfTwo
<1> QED
  BY <1>1, <1>2 DEF Taken

\* A window of a hit, its bad items counted.
WindowOf(w, hbeg, hend, leading) ==
  \E f, h, r \in Nat :
    /\ IsWindow(w, f, h, r, hbeg, hend)
    /\ hbeg > 0 /\ leading > 0 => w.bad = BadIn(w.items, f + h + r)

\* What decode gives is a window, with the number of bad items in it when there was a
\* leading context to look for: the count cannot wrap, for there are no more items than bytes.
LEMMA DecodedIsWindow ==
  ASSUME NEW chain, chain.encoding \in Encodings, NEW buffer, NEW size \in Nat, Len(buffer) = size,
         size <= UIntMax, NEW hbeg \in 0..size, NEW hend \in hbeg..size,
         NEW leading \in Nat, NEW trailing \in Nat, NEW w, w = Decode(chain, buffer, hbeg, hend, leading, trailing)
  PROVE  WindowOf(w, hbeg, hend, leading)
<1> DEFINE lead == Leading(chain, buffer, hbeg, leading)
           top == Min({hend + trailing * MaxByteLength(chain), Len(buffer)})
           F == AllItems(chain, buffer, top)
           all == Items(chain, buffer, hbeg, top)
           h == HitLength(all, hend)
           hit == SubSeq(all, 1, h)
           rest == SubSeq(all, h + 1, Len(all))
           taken == Taken(rest, trailing)
           front == LastOf(lead.items, leading)
<1>0. hbeg \in Nat /\ hend \in Nat /\ hbeg <= hend /\ hbeg <= UIntMax /\ UIntMax \in Nat
  BY UIntMaxAssumption
<1>1. top \in hend..size
  <2> DEFINE x == hend + trailing * MaxByteLength(chain)
  <2>1. x \in Int /\ x >= hend /\ size \in Int
    BY DEF MaxByteLength
  <2> HIDE DEF x
  <2>2. Min({x, size}) = IF x <= size THEN x ELSE size
    BY <2>1, MinOfTwo
  <2> QED
    BY <2>1, <2>2 DEF x
<1>2. w = Window(front, lead.invBad, hit, rest, taken, top)
  BY DEF Decode, WithTrailing, WindowAround
<1> HIDE DEF lead
<1>3. PICK f \in 0..hbeg :
        /\ InFront(front, f, hbeg)
        /\ hbeg > 0 /\ leading > 0 => UIntMax - lead.invBad = CountBad(front)
  BY <1>0, FrontShape DEF lead
<1> HIDE DEF top, front
<1>4. top \in Nat /\ hbeg \in 0..top /\ top >= hend /\ all = F[hbeg]
  BY <1>1 DEF AllItems
<1> HIDE DEF all, F
<1>5. PICK n \in 0..top - hbeg : ItemsFrom(all, n, F, hbeg, top)
  BY <1>4, ItemsShape DEF F
<1>6. /\ n \in Nat /\ LongAs(all, n) /\ Len(all) = n
      /\ hbeg < top => n >= 1 /\ all[1].at = hbeg
      /\ \A k \in 1..n : all[k].at \in hbeg..top - 1
      /\ \A i, j \in 1..n : i < j => all[i].at < all[j].at
  <2>1. LongAs(all, n) /\ n \in Nat
    BY <1>4, <1>5 DEF ItemsFrom
  <2>2. Len(all) = n
    BY <2>1 DEF LongAs
  <2> QED
    BY <1>5, <2>1, <2>2 DEF ItemsFrom
<1>7. h \in 0..n /\ \A k \in 1..n : all[k].at < hend <=> k <= h
  <2>1. \A k \in 1..n : all[k].at \in Nat
    BY <1>0, <1>4, <1>6, SMTT(60)
  <2> QED
    BY <1>0, <1>6, <2>1, HitPart
<1> HIDE DEF h
<1>8. LongAs(hit, h) /\ \A k \in 1..h : hit[k] = all[k] /\ k \in 1..n
  <2>1. h \in Nat /\ 0 \in Nat /\ 0 <= h /\ h <= n
    BY <1>6, <1>7
  <2>2. IsPart(SubSeq(all, 0 + 1, h), all, 0, h)
    BY <1>6, <2>1, PartOfSequence
  <2>3. h - 0 = h /\ 0 + 1 = 1 /\ \A k \in 1..h : 0 + k = k /\ k \in 1..n
    BY <2>1, <1>6
  <2> QED
    BY <2>2, <2>3 DEF IsPart
<1> DEFINE r == n - h
<1>9. LongAs(rest, r) /\ \A k \in 1..r : rest[k] = all[h + k] /\ h + k \in 1..n /\ ~(h + k <= h)
  <2>1. h \in Nat /\ h <= n /\ n <= n
    BY <1>6, <1>7
  <2>2. IsPart(SubSeq(all, h + 1, n), all, h, n)
    BY <1>6, <2>1, PartOfSequence
  <2>3. rest = SubSeq(all, h + 1, n)
    BY <1>6
  <2>4. \A k \in 1..r : h + k \in 1..n /\ ~(h + k <= h)
    BY <1>6, <1>7
  <2> HIDE DEF rest
  <2> QED
    BY <2>2, <2>3, <2>4 DEF IsPart
<1>10. h \in Nat /\ r \in Nat /\ f \in Nat /\ h + r = n
  BY <1>0, <1>6, <1>7
<1> HIDE DEF hit, rest, r
<1>11. taken \in 0..r
  BY <1>9, <1>10, TakenFits
<1> HIDE DEF taken
<1>12. \A k \in 1..h : hit[k].at \in hbeg..hend - 1
  <2> SUFFICES ASSUME NEW k \in 1..h PROVE hit[k].at \in hbeg..hend - 1
    OBVIOUS
  <2>1. hit[k] = all[k] /\ k \in 1..n /\ k <= h
    BY <1>8, <1>10
  <2>2. all[k].at \in hbeg..top - 1 /\ all[k].at < hend
    BY <1>6, <1>7, <2>1
  <2> QED
    BY <1>0, <1>4, <2>1, <2>2, SMTT(60)
<1>13. \A k \in 1..r : rest[k].at \in Nat /\ rest[k].at >= hend
  <2> SUFFICES ASSUME NEW k \in 1..r PROVE rest[k].at \in Nat /\ rest[k].at >= hend
    OBVIOUS
  <2>1. rest[k] = all[h + k] /\ h + k \in 1..n /\ ~(h + k <= h)
    BY <1>9
  <2>2. all[h + k].at \in hbeg..top - 1 /\ ~(all[h + k].at < hend)
    BY <1>6, <1>7, <2>1
  <2> QED
    BY <1>0, <1>4, <2>1, <2>2, SMTT(60)
<1>14. hbeg < hend => h >= 1 /\ hit[1].at = hbeg
  <2> SUFFICES ASSUME hbeg < hend PROVE h >= 1 /\ hit[1].at = hbeg
    OBVIOUS
  <2>1. n >= 1 /\ all[1].at = hbeg
    BY <1>0, <1>4, <1>6
  <2>2. 1 \in 1..n /\ all[1].at < hend
    BY <1>6, <2>1
  <2>3. 1 <= h
    BY <1>7, <2>2
  <2>4. 1 \in 1..h
    BY <1>10, <2>3
  <2> QED
    BY <1>8, <2>1, <2>3, <2>4
<1> DEFINE back == hit \o SubSeq(rest, 1, taken)
<1>15. /\ IsWindow(w, f, h, taken, hbeg, hend)
       /\ w.bad = (UIntMax - lead.invBad + CountBad(back)) % (UIntMax + 1)
       /\ BadIn(w.items, f + h + taken) = CountBad(front) + CountBad(back)
       /\ CountBad(back) \in 0..h + taken
  <2>1. InFront(front, f, hbeg) /\ HitItems(hit, h, hbeg, hend) /\ RestItems(rest, r, hend)
    BY <1>3, <1>8, <1>9, <1>12, <1>13, <1>14 DEF HitItems, RestItems
  <2>2. MadeOf(w, f, h, taken, hbeg, hend, front, lead.invBad, back)
    BY <1>0, <1>2, <1>4, <1>10, <1>11, <2>1, WindowParts
  <2> QED
    BY <2>2 DEF MadeOf
<1> HIDE DEF back
<1>16. CountBad(front) \in 0..f
  BY <1>3, <1>10, CountBadItems DEF InFront
<1>17. CountBad(front) + CountBad(back) \in 0..UIntMax
  <2>1. f <= hbeg /\ h + taken <= n /\ n <= top - hbeg /\ top <= size
    BY <1>1, <1>5, <1>10, <1>11
  <2> QED
    BY <1>0, <1>1, <1>6, <1>10, <1>11, <1>15, <1>16, <2>1, SMTT(60)
<1>18. \A x \in 0..UIntMax : x % (UIntMax + 1) = x
  BY <1>0
<1>19. hbeg > 0 /\ leading > 0 => w.bad = BadIn(w.items, f + h + taken)
  BY <1>3, <1>15, <1>17, <1>18
<1>20. taken \in Nat
  BY <1>10, <1>11
<1> QED
  BY <1>10, <1>15, <1>19, <1>20 DEF WindowOf

-----------------------------------------------------------------------------
\* The window that the client holds is what decode gives for what it asked: what every
\* action keeps.
WindowKept ==
  /\ input \in Inputs
  /\ call.name = "read" =>
       /\ call.begin \in 0..Len(input.buffer) /\ call.end \in call.begin..Len(input.buffer)
       /\ call.leading \in Nat /\ call.trailing \in Nat
       /\ answer = Decode(input.chain, input.buffer, call.begin, call.end, call.leading, call.trailing)

\* Every step keeps it ...
LEMMA WindowKeptByEveryStep == ASSUME WindowKept, [Next]_vars PROVE WindowKept'
<1>1. input \in Inputs
  BY DEF WindowKept
<1>2. CASE UNCHANGED <<input, call, answer>>
  BY <1>2 DEF WindowKept
<1>3. CASE input' = input /\ call'.name # "read"
  BY <1>1, <1>3 DEF WindowKept
<1>4. ASSUME NEW x \in input.first, FirstItem(x) PROVE WindowKept'
  BY <1>2, <1>4 DEF FirstItem
<1>5. ASSUME NEW op \in input.operators, NEW x \in input.next, NextItem(op, x) PROVE WindowKept'
  BY <1>2, <1>5 DEF NextItem
<1>6. ASSUME NEW negated \in input.closes, CloseClass(negated) PROVE WindowKept'
  BY <1>2, <1>6 DEF CloseClass
<1>7. CASE WriteClass
  BY <1>3, <1>7 DEF WriteClass
<1>8. ASSUME NEW hbeg \in 0..Len(input.buffer), NEW hend \in 0..Len(input.buffer),
             NEW leading \in Contexts, NEW trailing \in Contexts, ReadWindow(hbeg, hend, leading, trailing)
      PROVE  WindowKept'
  <2>1. /\ call' = [name |-> "read", begin |-> hbeg, end |-> hend, leading |-> leading, trailing |-> trailing]
        /\ answer' = Decode(input.chain, input.buffer, hbeg, hend, leading, trailing)
        /\ input' = input /\ hbeg <= hend
    BY <1>8 DEF ReadWindow
  <2>2. /\ call'.begin = hbeg /\ call'.end = hend /\ call'.leading = leading /\ call'.trailing = trailing
    BY <2>1
  <2>3. leading \in Nat /\ trailing \in Nat
    BY ChainsAssumption
  <2>4. input.buffer \in Seq(0..255)
    BY <1>1, InputsAssumption
  <2>5. Len(input.buffer) \in Nat
    BY <2>4, LenProperties
  <2>6. hend \in hbeg..Len(input.buffer)
    BY <2>1, <2>5
  <2> QED
    BY <1>1, <2>1, <2>2, <2>3, <2>6 DEF WindowKept
<1>9. ASSUME NEW hbeg, NEW hend, NEW size, NEW replacement, HitContext(hbeg, hend, size, replacement)
      PROVE  WindowKept'
  BY <1>3, <1>9 DEF HitContext
<1>10. CASE Free
  BY <1>3, <1>10 DEF Free, NoCall
<1>11. CASE UNCHANGED vars
  BY <1>2, <1>11 DEF vars
<1> QED
  BY <1>4, <1>5, <1>6, <1>7, <1>8, <1>9, <1>10, <1>11 DEF Next

\* ... and no call is held at first.
LEMMA WindowKeptAlways == Spec => []WindowKept
<1>1. Init => WindowKept
  BY DEF Init, WindowKept, NoCall
<1>2. WindowKept /\ [Next]_vars => WindowKept'
  BY WindowKeptByEveryStep
<1> QED
  BY <1>1, <1>2, PTL DEF Spec

\* So the client's answer is a window.
LEMMA AnswerIsWindow ==
  ASSUME WindowKept, call.name = "read"
  PROVE  WindowOf(answer, call.begin, call.end, call.leading)
<1>1. /\ input \in Inputs
      /\ call.begin \in 0..Len(input.buffer) /\ call.end \in call.begin..Len(input.buffer)
      /\ call.leading \in Nat /\ call.trailing \in Nat
      /\ answer = Decode(input.chain, input.buffer, call.begin, call.end, call.leading, call.trailing)
  BY DEF WindowKept
<1>2. /\ input.chain \in Chains /\ input.buffer \in Seq(0..255) /\ Len(input.buffer) <= UIntMax
  BY <1>1, InputsAssumption
<1>3. input.chain.encoding \in Encodings
  BY <1>2, ChainsAssumption DEF Encodings
<1>4. Len(input.buffer) \in Nat
  BY <1>2, LenProperties
<1> QED
  BY <1>1, <1>2, <1>3, <1>4, DecodedIsWindow

\* The hit of every window is the items that start within the hit, the first at its start.
THEOREM HitDecodedAlways == Spec => []HitDecoded
<1>1. ASSUME WindowKept PROVE HitDecoded
  <2> SUFFICES ASSUME call.name = "read"
               PROVE  LET at == [k \in DOMAIN answer.items |-> answer.items[k].at]
                      IN /\ \A k \in DOMAIN at : k - 1 \in answer.begin..answer.end - 1
                                                   <=> at[k] >= call.begin /\ at[k] < call.end
                         /\ call.begin < call.end => at[answer.begin + 1] = call.begin
    BY DEF HitDecoded
  <2> DEFINE b == call.begin
             e == call.end
             items == answer.items
             at == [k \in DOMAIN items |-> items[k].at]
  <2>0. b \in Nat /\ e \in Nat
    BY <1>1 DEF WindowKept
  <2>1. PICK f \in Nat, h \in Nat, r \in Nat : IsWindow(answer, f, h, r, b, e)
    BY <1>1, AnswerIsWindow DEF WindowOf
  <2> HIDE DEF b, e
  <2>2. /\ LongAs(items, f + h + r + 1) /\ answer.begin = f /\ answer.end = f + h
        /\ \A k \in 1..f : items[k].at \in 0..b - 1
        /\ \A k \in f + 1..f + h : items[k].at \in b..e - 1
        /\ \A k \in f + h + 1..f + h + r + 1 : items[k].at \in Nat /\ items[k].at >= e
        /\ b < e => h >= 1 /\ items[f + 1].at = b
    BY <2>1 DEF IsWindow
  <2> HIDE DEF items
  <2>3. DOMAIN items = 1..f + h + r + 1
    <3>1. f + h + r + 1 \in Nat
      OBVIOUS
    <3> QED
      BY <2>2, <3>1, SequenceMeans
  <2>4. ASSUME NEW k \in 1..f + h + r + 1
        PROVE  k - 1 \in f..f + h - 1 <=> items[k].at >= b /\ items[k].at < e
    <3>1. CASE k \in 1..f
      <4>1. items[k].at \in 0..b - 1
        BY <2>2, <3>1
      <4> QED
        BY <2>0, <3>1, <4>1
    <3>2. CASE k \in f + 1..f + h
      <4>1. items[k].at \in b..e - 1
        BY <2>2, <3>2
      <4> QED
        BY <2>0, <3>2, <4>1
    <3>3. CASE k \in f + h + 1..f + h + r + 1
      <4>1. items[k].at \in Nat /\ items[k].at >= e
        BY <2>2, <3>3
      <4> QED
        BY <2>0, <3>3, <4>1
    <3> QED
      BY <3>1, <3>2, <3>3
  <2>5. b < e => f + 1 \in DOMAIN items /\ at[f + 1] = b
    <3>1. b < e => f + 1 \in 1..f + h + r + 1 /\ items[f + 1].at = b
      BY <2>2
    <3> QED
      BY <2>3, <3>1
  <2>6. \A k \in DOMAIN at : k \in 1..f + h + r + 1 /\ at[k] = items[k].at
    BY <2>3
  <2> HIDE DEF at
  <2>7. /\ \A k \in DOMAIN at : k - 1 \in answer.begin..answer.end - 1 <=> at[k] >= b /\ at[k] < e
        /\ b < e => at[answer.begin + 1] = b
    BY <2>2, <2>4, <2>5, <2>6
  <2> QED
    BY <2>7 DEF at, items, b, e
<1> QED
  BY <1>1, WindowKeptAlways, PTL

\* lg_read_window returns the number of bad items in the window it gives, whatever bytes
\* are in the buffer, when there was something to decode in front of the hit.
THEOREM BadCountedAlways == Spec => []BadCounted
<1>1. ASSUME WindowKept PROVE BadCounted
  <2> SUFFICES ASSUME call.name = "read", call.begin > 0, call.leading > 0 PROVE answer.bad = BadItems
    BY DEF BadCounted
  <2>1. PICK f \in Nat, h \in Nat, r \in Nat :
          /\ IsWindow(answer, f, h, r, call.begin, call.end)
          /\ answer.bad = BadIn(answer.items, f + h + r)
    BY <1>1, AnswerIsWindow DEF WindowOf
  <2>2. LongAs(answer.items, f + h + r + 1)
    BY <2>1 DEF IsWindow
  <2>3. Len(answer.items) - 1 = f + h + r
    BY <2>2 DEF LongAs
  <2> QED
    BY <2>1, <2>3 DEF BadItems, BadIn
<1> QED
  BY <1>1, WindowKeptAlways, PTL

-----------------------------------------------------------------------------
\* The code points are those of two planes' worth of units and more.
LEMMA UnicodeMeans ==
  ASSUME NEW c
  PROVE  /\ IsUnicode(c) => c \in Nat /\ c < CodePointEnd /\ c \notin Surrogates
         /\ c \in Nat /\ c < CodePointEnd /\ c \notin Surrogates => IsUnicode(c)
  BY EndIsNumber DEF IsUnicode

\* A number and its two parts.
LEMMA DigitsOf ==
  ASSUME NEW q \in Nat, NEW r \in Nat
  PROVE  /\ r < 64 => (64 * q + r) \div 64 = q /\ (64 * q + r) % 64 = r
         /\ r < 256 => (256 * q + r) \div 256 = q /\ (256 * q + r) % 256 = r
         /\ r < 1024 => (1024 * q + r) \div 1024 = q /\ (1024 * q + r) % 1024 = r
  BY SMT

\* A number and what is above its lowest twelve bits.
LEMMA TwelveBits == ASSUME NEW q \in Nat, NEW r \in Nat, r < 4096 PROVE (4096 * q + r) \div 4096 = q
  BY SMT

\* A number and what is above its lowest eighteen bits.
LEMMA EighteenBits == ASSUME NEW q \in Nat, NEW r \in Nat, r < 262144 PROVE (262144 * q + r) \div 262144 = q
  BY SMT

\* A sequence of few elements is the tuple of them.
LEMMA FewElements ==
  ASSUME NEW u
  PROVE  /\ LongAs(u, 1) => u = <<u[1]>>
         /\ LongAs(u, 2) => u = <<u[1], u[2]>>
         /\ LongAs(u, 3) => u = <<u[1], u[2], u[3]>>
         /\ LongAs(u, 4) => u = <<u[1], u[2], u[3], u[4]>>
<1>1. \A n \in 1..4 : LongAs(u, n) => u = [k \in 1..n |-> u[k]]
  BY SequenceMeans
<1>2. u = [k \in 1..1 |-> u[k]] => u = <<u[1]>>
  BY SMT
<1>3. u = [k \in 1..2 |-> u[k]] => u = <<u[1], u[2]>>
  BY SMT
<1>4. u = [k \in 1..3 |-> u[k]] => u = <<u[1], u[2], u[3]>>
  BY SMT
<1>5. u = [k \in 1..4 |-> u[k]] => u = <<u[1], u[2], u[3], u[4]>>
  BY SMT
<1> QED
  BY <1>1, <1>2, <1>3, <1>4, <1>5

\* u is the first m elements of s, one by one.
FirstOf(u, s, m) ==
  /\ LongAs(u, m) /\ \A k \in 1..m : u[k] = s[k]
  /\ m = 1 => u = <<s[1]>>
  /\ m = 2 => u = <<s[1], s[2]>>
  /\ m = 3 => u = <<s[1], s[2], s[3]>>
  /\ m = 4 => u = <<s[1], s[2], s[3], s[4]>>

\* The first bytes of a sequence.
LEMMA FirstBytes ==
  ASSUME NEW n \in 1..4, NEW s, LongAs(s, n), NEW m \in 1..n
  PROVE  FirstOf(SubSeq(s, 1, m), s, m)
<1> DEFINE u == SubSeq(s, 0 + 1, m)
<1>1. IsPart(u, s, 0, m)
  BY PartOfSequence
<1>2. u = SubSeq(s, 1, m)
  OBVIOUS
<1> HIDE DEF u
<1>3. LongAs(u, m) /\ \A k \in 1..m : u[k] = s[k]
  <2>1. m - 0 = m /\ \A k \in 1..m : 0 + k = k
    OBVIOUS
  <2> QED
    BY <1>1, <2>1 DEF IsPart
<1>4. 1 <= m => u[1] = s[1]
  BY <1>3
<1>5. 2 <= m => u[2] = s[2]
  BY <1>3
<1>6. 3 <= m => u[3] = s[3]
  BY <1>3
<1>7. 4 <= m => u[4] = s[4]
  BY <1>3
<1>8. m = 1 => u = <<s[1]>>
  BY <1>3, <1>4, FewElements
<1>9. m = 2 => u = <<s[1], s[2]>>
  BY <1>3, <1>4, <1>5, FewElements
<1>10. m = 3 => u = <<s[1], s[2], s[3]>>
  BY <1>3, <1>4, <1>5, <1>6, FewElements
<1>11. m = 4 => u = <<s[1], s[2], s[3], s[4]>>
  BY <1>3, <1>4, <1>5, <1>6, <1>7, FewElements
<1>12. FirstOf(u, s, m)
  BY <1>3, <1>8, <1>9, <1>10, <1>11 DEF FirstOf
<1> QED
  BY <1>2, <1>12

\* The bytes of a sequence of n bytes.
ByteSeq(s, n) == LongAs(s, n) /\ \A k \in 1..n : s[k] \in 0..255

\* The bytes of a code point by its length.
Utf8Shape(c) ==
  /\ c < 128 => Utf8Bytes(c) = <<c>>
  /\ c >= 128 /\ c <= 2047 => Utf8Bytes(c) = <<192 + c \div 64, Continuation(c)>>
  /\ c >= 2048 /\ c <= 65535 =>
       Utf8Bytes(c) = <<224 + c \div 4096, Continuation(c \div 64), Continuation(c)>>
  /\ c > 65535 =>
       Utf8Bytes(c) = <<240 + c \div 262144, Continuation(c \div 4096), Continuation(c \div 64),
                        Continuation(c)>>

\* What a range is.
LEMMA RangeMeans == \A a, b, c \in Int : c \in a..b <=> a <= c /\ c <= b
  OBVIOUS

\* They are those.
LEMMA Utf8Written == ASSUME NEW c \in Nat PROVE Utf8Shape(c)
<1> DEFINE w == <<c>>
           x == <<192 + c \div 64, Continuation(c)>>
           y == <<224 + c \div 4096, Continuation(c \div 64), Continuation(c)>>
           z == <<240 + c \div 262144, Continuation(c \div 4096), Continuation(c \div 64), Continuation(c)>>
           A == c < 128
           B == c >= 128 /\ c <= 2047
           C == c >= 2048 /\ c <= 65535
           D == c > 65535
           B2 == c \in 128..2047
           C2 == c \in 2048..65535
<1>0. Utf8Bytes(c) = CASE A -> w [] B2 -> x [] C2 -> y [] D -> z
  BY SMT DEF Utf8Bytes
<1>2. (A <=> c < 128) /\ (D <=> c > 65535)
  OBVIOUS
<1>3. (B <=> c >= 128 /\ c <= 2047) /\ (C <=> c >= 2048 /\ c <= 65535)
  OBVIOUS
<1>b. B <=> B2
  BY SMTT(60)
<1>c. C <=> C2
  BY RangeMeans, SMTT(60)
<1> HIDE DEF w, x, y, z, A, B, C, D, B2, C2
<1>d. (A => ~B2 /\ ~C2 /\ ~D) /\ (B2 => ~A /\ ~C2 /\ ~D) /\ (C2 => ~A /\ ~B2 /\ ~D) /\ (D => ~A /\ ~B2 /\ ~C2)
  BY <1>2, <1>3, <1>b, <1>c, SMT
<1>7. A => Utf8Bytes(c) = w
  BY <1>0, <1>d, Zenon
<1>4. B => Utf8Bytes(c) = x
  BY <1>0, <1>b, <1>d, Zenon
<1>5. C => Utf8Bytes(c) = y
  BY <1>0, <1>c, <1>d, Zenon
<1>6. D => Utf8Bytes(c) = z
  BY <1>0, <1>d, Zenon
<1> QED
  <2>1. c < 128 => Utf8Bytes(c) = <<c>>
    BY <1>7 DEF A, w
  <2>2. c >= 128 /\ c <= 2047 => Utf8Bytes(c) = <<192 + c \div 64, Continuation(c)>>
    BY <1>4 DEF B, x
  <2>3. c >= 2048 /\ c <= 65535 =>
          Utf8Bytes(c) = <<224 + c \div 4096, Continuation(c \div 64), Continuation(c)>>
    BY <1>5, SMT DEF C, y
  <2>4. c > 65535 =>
          Utf8Bytes(c) = <<240 + c \div 262144, Continuation(c \div 4096), Continuation(c \div 64),
                           Continuation(c)>>
    BY <1>6, SMT DEF D, z
  <2> QED
    BY <2>1, <2>2, <2>3, <2>4, SMT DEF Utf8Shape

\* A UTF-8 code that is read is the one that is written.
LEMMA Utf8Reads ==
  ASSUME NEW n \in 1..4, NEW s, ByteSeq(s, n), Utf8ToCp(s).used # 0
  PROVE  /\ IsUnicode(Utf8ToCp(s).val) /\ Utf8ToCp(s).used \in 1..n
         /\ Utf8Bytes(Utf8ToCp(s).val) = SubSeq(s, 1, Utf8ToCp(s).used)
<1> DEFINE m == Utf8Length(s[1])
           cp == Utf8Point(s, m)
           u == SubSeq(s, 1, m)
           least == <<0, 128, 2048, 65536>>
<1>1. /\ m \in 1..n /\ \A k \in 2..m : s[k] \in 128..191
      /\ cp >= least[m] /\ IsUnicode(cp) /\ Utf8ToCp(s) = Step(cp, m)
  <2>1. Len(s) = n
    BY DEF ByteSeq, LongAs
  <2> DEFINE good == /\ \A k \in 2..m : s[k] \in 128..191
                     /\ cp >= least[m] /\ IsUnicode(cp)
  <2>2. Utf8ToCp(s) = IF m \in 1..n /\ good THEN Step(cp, m) ELSE NoCode
    BY <2>1, SMT DEF Utf8ToCp
  <2>3. NoCode.used = 0
    BY DEF NoCode, Step
  <2> HIDE DEF m, cp, good, least
  <2>4. m \in 1..n /\ good /\ Utf8ToCp(s) = Step(cp, m)
    BY <2>2, <2>3
  <2> QED
    BY <2>4 DEF good
<1>2. Utf8ToCp(s).val = cp /\ Utf8ToCp(s).used = m
  BY <1>1 DEF Step
<1>3. \A k \in 1..n : s[k] \in 0..255
  BY DEF ByteSeq
<1>4. FirstOf(u, s, m)
  BY <1>1, FirstBytes DEF ByteSeq
<1>5. m = 1 => s[1] < 128
  BY <1>3 DEF Utf8Length
<1>6. m = 2 => s[1] \in 194..223
  BY <1>3 DEF Utf8Length
<1>7. m = 3 => s[1] \in 224..239
  BY <1>3 DEF Utf8Length
<1>8. m = 4 => s[1] \in 240..244
  BY <1>3 DEF Utf8Length
<1> HIDE DEF m, u
<1>9. CASE m = 1
  <2>1. cp = s[1] /\ s[1] \in 0..127
    BY <1>3, <1>5, <1>9 DEF Utf8Point
  <2> HIDE DEF cp
  <2>2. Utf8Bytes(cp) = <<s[1]>>
    <3>1. cp \in Nat /\ cp < 128 /\ cp = s[1]
      BY <2>1
    <3>w. Utf8Shape(cp)
      BY <3>1, Utf8Written
    <3>2. Utf8Bytes(cp) = <<cp>>
      <4>1. cp < 128 => Utf8Bytes(cp) = <<cp>>
        BY <3>w, SMT DEF Utf8Shape
      <4> QED
        BY <3>1, <4>1
    <3> QED
      BY <3>1, <3>2
  <2> QED
    BY <1>1, <1>2, <1>4, <1>9, <2>2 DEF FirstOf, u
<1>10. CASE m = 2
  <2> DEFINE a == s[1] % 32
             b == s[2] % 64
  <2>1. /\ s[1] = 192 + a /\ s[2] = 128 + b /\ a \in 2..31 /\ b \in 0..63
    BY <1>1, <1>6, <1>10
  <2>2. cp = 64 * a + b
    BY <1>10 DEF Utf8Point
  <2> HIDE DEF a, b
  <2>3. cp \in Nat /\ cp >= 128 /\ cp <= 2047 /\ cp \div 64 = a /\ cp % 64 = b
    BY <2>1, <2>2
  <2> HIDE DEF cp
  <2>4. Utf8Bytes(cp) = <<192 + a, 128 + b>>
    <3>1. cp \in Nat
      BY <2>3
    <3>w. Utf8Shape(cp)
      BY <3>1, Utf8Written
    <3>2. Utf8Bytes(cp) = <<192 + cp \div 64, Continuation(cp)>>
      BY <2>3, <3>1, <3>w, SMT DEF Utf8Shape
    <3> QED
      BY <2>3, <3>2 DEF Continuation
  <2>5. Utf8Bytes(cp) = <<s[1], s[2]>>
    BY <2>1, <2>4
  <2> QED
    BY <1>1, <1>2, <1>4, <1>10, <2>5 DEF FirstOf, u
<1>11. CASE m = 3
  <2> DEFINE a == s[1] % 16
             b == s[2] % 64
             c == s[3] % 64
  <2>1. /\ s[1] = 224 + a /\ s[2] = 128 + b /\ s[3] = 128 + c
        /\ a \in 0..15 /\ b \in 0..63 /\ c \in 0..63
    BY <1>1, <1>7, <1>11
  <2>2. cp = 4096 * a + 64 * b + c
    BY <1>11 DEF Utf8Point
  <2>3. cp >= 2048
    BY <1>1, <1>11
  <2> HIDE DEF a, b, c
  <2>4. /\ cp \in Nat /\ cp >= 2048 /\ cp <= 65535 /\ cp \div 4096 = a
        /\ (cp \div 64) % 64 = b /\ cp % 64 = c
    <3> DEFINE e == 64 * a + b
               r == 64 * b + c
    <3>1. e \in Nat /\ r \in 0..4095 /\ cp = 64 * e + c /\ cp = 4096 * a + r
      BY <2>1, <2>2
    <3>2. e % 64 = b
      BY <2>1, DigitsOf
    <3> HIDE DEF e, r, cp
    <3>3. cp \div 64 = e /\ cp % 64 = c
      BY <2>1, <3>1, DigitsOf
    <3>4. cp \div 4096 = a
      <4>1. a \in Nat /\ r \in Nat /\ r < 4096
        BY <2>1, <3>1
      <4> QED
        BY <3>1, <4>1, TwelveBits
    <3>5. cp \in Nat /\ cp >= 2048 /\ cp <= 65535
      <4>1. cp <= 65535
        BY <2>1, <2>2, SMT
      <4>2. cp \in Nat
        BY <2>1, <2>2, SMT
      <4>3. cp >= 2048
        BY <2>3
      <4> QED
        BY <4>1, <4>2, <4>3
    <3> QED
      BY <3>2, <3>3, <3>4, <3>5
  <2> HIDE DEF cp
  <2>5. Utf8Bytes(cp) = <<224 + a, 128 + b, 128 + c>>
    <3>1. cp \in Nat
      BY <2>4, SMT
    <3>w. Utf8Shape(cp)
      BY <3>1, Utf8Written
    <3>2. Utf8Bytes(cp) = <<224 + cp \div 4096, Continuation(cp \div 64), Continuation(cp)>>
      BY <2>4, <3>1, <3>w, SMT DEF Utf8Shape
    <3> QED
      BY <2>4, <3>2, SMT DEF Continuation
  <2>6. Utf8Bytes(cp) = <<s[1], s[2], s[3]>>
    BY <2>1, <2>5
  <2> QED
    BY <1>1, <1>2, <1>4, <1>11, <2>6 DEF FirstOf, u
<1>12. CASE m = 4
  <2> DEFINE a == s[1] % 8
             b == s[2] % 64
             c == s[3] % 64
             d == s[4] % 64
  <2>1. /\ s[1] = 240 + a /\ s[2] = 128 + b /\ s[3] = 128 + c /\ s[4] = 128 + d
        /\ a \in 0..7 /\ b \in 0..63 /\ c \in 0..63 /\ d \in 0..63
    BY <1>1, <1>8, <1>12
  <2>2. cp = 262144 * a + 4096 * b + 64 * c + d
    BY <1>12, SMT DEF Utf8Point
  <2>3. cp >= 65536
    BY <1>1, <1>12, SMT
  <2> HIDE DEF a, b, c, d
  <2>4. /\ cp \in Nat /\ cp \div 262144 = a /\ (cp \div 4096) % 64 = b
        /\ (cp \div 64) % 64 = c /\ cp % 64 = d
    <3> DEFINE f == 64 * a + b
               e == 64 * f + c
               r == 64 * c + d
               q == 4096 * b + r
    <3>1. /\ f \in Nat /\ e \in Nat /\ r \in 0..4095 /\ q \in Nat /\ q < 262144
          /\ cp = 64 * e + d /\ cp = 4096 * f + r /\ cp = 262144 * a + q /\ cp \in Nat
      BY <2>1, <2>2, SMT
    <3>2. f % 64 = b /\ e % 64 = c
      BY <2>1, <3>1, DigitsOf
    <3> HIDE DEF f, e, r, q, cp
    <3>3. cp \div 64 = e /\ cp % 64 = d
      BY <2>1, <3>1, DigitsOf, SMT
    <3>4. cp \div 4096 = f
      <4>1. f \in Nat /\ r \in Nat /\ r < 4096
        BY <3>1, SMT
      <4> QED
        BY <3>1, <4>1, TwelveBits, SMT
    <3>5. cp \div 262144 = a
      BY <2>1, <3>1, EighteenBits, SMT
    <3>6. (cp \div 4096) % 64 = b /\ (cp \div 64) % 64 = c
      BY <3>2, <3>3, <3>4
    <3> QED
      BY <3>1, <3>3, <3>5, <3>6
  <2> HIDE DEF cp
  <2>5. Utf8Bytes(cp) = <<240 + a, 128 + b, 128 + c, 128 + d>>
    <3>w. Utf8Shape(cp)
      BY <2>4, Utf8Written, SMT
    <3>1. Utf8Bytes(cp) = <<240 + cp \div 262144, Continuation(cp \div 4096), Continuation(cp \div 64),
                            Continuation(cp)>>
      BY <2>3, <2>4, <3>w, SMT DEF Utf8Shape
    <3> QED
      BY <2>4, <3>1, SMT DEF Continuation
  <2>6. Utf8Bytes(cp) = <<s[1], s[2], s[3], s[4]>>
    BY <2>1, <2>5
  <2> QED
    BY <1>1, <1>2, <1>4, <1>12, <2>6 DEF FirstOf, u
<1>13. m \in 1..4
  BY <1>1
<1> QED
  BY <1>9, <1>10, <1>11, <1>12, <1>13

\* Two elements and two.
LEMMA TwoAndTwo == ASSUME NEW a, NEW b, NEW c, NEW d PROVE <<a, b>> \o <<c, d>> = <<a, b, c, d>>
<1> DEFINE u == <<a, b>> \o <<c, d>>
<1>1. LongAs(<<a, b>>, 2) /\ LongAs(<<c, d>>, 2)
  <2>1. <<a, b>> = [k \in 1..2 |-> <<a, b>>[k]] /\ <<c, d>> = [k \in 1..2 |-> <<c, d>>[k]]
    BY SMT
  <2> QED
    BY <2>1, SequenceMeans
<1>2. Joins(u, <<a, b>>, 2, <<c, d>>, 2)
  BY <1>1, JoinSequences
<1> HIDE DEF u
<1>3. LongAs(u, 4) /\ u[1] = a /\ u[2] = b /\ u[3] = c /\ u[4] = d
  <2>1. 2 + 2 = 4 /\ 1 \in 1..2 /\ 2 \in 1..2 /\ 2 + 1 = 3
    OBVIOUS
  <2>2. <<a, b>>[1] = a /\ <<a, b>>[2] = b /\ <<c, d>>[1] = c /\ <<c, d>>[2] = d
    OBVIOUS
  <2>3. LongAs(u, 2 + 2) /\ (\A k \in 1..2 : u[k] = <<a, b>>[k]) /\ (\A k \in 1..2 : u[2 + k] = <<c, d>>[k])
    BY <1>2 DEF Joins
  <2>4. u[2 + 1] = <<c, d>>[1] /\ u[2 + 2] = <<c, d>>[2]
    BY <2>1, <2>3
  <2> QED
    BY <2>1, <2>2, <2>3, <2>4
<1> QED
  BY <1>3, FewElements DEF u

\* Few elements backwards.
LEMMA ReverseFew ==
  /\ \A a, b : Reverse(<<a, b>>) = <<b, a>>
  /\ \A a, b, c, d : Reverse(<<a, b, c, d>>) = <<d, c, b, a>>
<1>1. ASSUME NEW a, NEW b PROVE Reverse(<<a, b>>) = <<b, a>>
  <2>1. Reverse(<<a, b>>) = [k \in 1..2 |-> <<a, b>>[(2 - k) + 1]]
    BY SMT DEF Reverse
  <2> QED
    BY <2>1, SMT
<1>2. ASSUME NEW a, NEW b, NEW c, NEW d PROVE Reverse(<<a, b, c, d>>) = <<d, c, b, a>>
  <2>1. Reverse(<<a, b, c, d>>) = [k \in 1..4 |-> <<a, b, c, d>>[(4 - k) + 1]]
    BY SMT DEF Reverse
  <2> QED
    BY <2>1, SMT
<1> QED
  BY <1>1, <1>2

\* A unit is written as the two bytes it is read from.
UnitIs(s, k, le) ==
  /\ UnitAt(s, k, le) \in Nat /\ UnitAt(s, k, le) < 65536
  /\ UnitBytes(UnitAt(s, k, le), le) = <<s[k], s[k + 1]>>

\* So is every unit of two bytes.
LEMMA UnitReads ==
  ASSUME NEW s, NEW k, s[k] \in 0..255, s[k + 1] \in 0..255, NEW le \in BOOLEAN
  PROVE  UnitIs(s, k, le)
<1> DEFINE a == s[k]
           b == s[k + 1]
           u == UnitAt(s, k, le)
<1>1. a \in 0..255 /\ b \in 0..255 /\ a \in Nat /\ b \in Nat
  OBVIOUS
<1>2. u = IF le THEN 256 * b + a ELSE 256 * a + b
  BY <1>1 DEF UnitAt
<1> HIDE DEF a, b, u
<1> DEFINE G == u \in Nat /\ u < 65536 /\ UnitBytes(u, le) = <<a, b>>
<1>3. G
  <2>1. CASE le = TRUE
    <3>1. u \div 256 = b /\ u % 256 = a
      BY <1>1, <1>2, <2>1, DigitsOf
    <3>2. UnitBytes(u, le) = Reverse(<<b, a>>)
      BY <2>1, <3>1 DEF UnitBytes, TwoBytes
    <3>3. u \in Nat /\ u < 65536
      BY <1>1, <1>2, <2>1, SMT
    <3>4. UnitBytes(u, le) = <<a, b>>
      BY <3>2, ReverseFew
    <3> QED
      BY <3>3, <3>4, SMT
  <2>2. CASE le = FALSE
    <3>1. u \div 256 = a /\ u % 256 = b
      BY <1>1, <1>2, <2>2, DigitsOf
    <3>2. UnitBytes(u, le) = <<a, b>>
      BY <2>2, <3>1 DEF UnitBytes, TwoBytes
    <3>3. u \in Nat /\ u < 65536
      BY <1>1, <1>2, <2>2, SMT
    <3> QED
      BY <3>2, <3>3, SMT
  <2> HIDE DEF G
  <2> QED
    BY <2>1, <2>2
<1> QED
  BY <1>3, SMT DEF UnitIs, a, b, u

\* A UTF-16 code that is read is the one that is written.
LEMMA Utf16Reads ==
  ASSUME NEW n \in 1..4, NEW s, ByteSeq(s, n), NEW le \in BOOLEAN, Utf16ToCp(s, le).used # 0
  PROVE  /\ IsUnicode(Utf16ToCp(s, le).val) /\ Utf16ToCp(s, le).used \in 1..n
         /\ Utf16Bytes(Utf16ToCp(s, le).val, le) = SubSeq(s, 1, Utf16ToCp(s, le).used)
<1> DEFINE x == UnitAt(s, 1, le)
           z == UnitAt(s, 3, le)
           A == x \notin Surrogates
           B == x \in 55296..56319 /\ z \in 56320..57343
           y == 1024 * (x - (55296 - 64)) + z - 56320
           cp == Utf16ToCp(s, le).val
           m == Utf16ToCp(s, le).used
           u == SubSeq(s, 1, m)
<1>1. Len(s) = n /\ LongAs(s, n) /\ \A k \in 1..n : s[k] \in 0..255
  BY DEF ByteSeq, LongAs
<1>2. \/ n >= 2 /\ A /\ cp = x /\ m = 2
      \/ n >= 4 /\ B /\ cp = y /\ m = 4
  <2>1. Utf16ToCp(s, le) = CASE Len(s) >= 2 /\ A -> Step(x, 2)
                             [] Len(s) >= 4 /\ B -> Step(y, 4)
                             [] OTHER -> NoCode
    BY DEF Utf16ToCp
  <2>0. NoCode.used = 0 /\ \A v, w : Step(v, w).used = w /\ Step(v, w).val = v
    BY DEF NoCode, Step
  <2> HIDE DEF A, B, x, y
  <2>2. \/ Utf16ToCp(s, le) = NoCode
        \/ Len(s) >= 2 /\ A /\ Utf16ToCp(s, le) = Step(x, 2)
        \/ Len(s) >= 4 /\ B /\ Utf16ToCp(s, le) = Step(y, 4)
    BY <2>1, Zenon
  <2> QED
    BY <1>1, <2>0, <2>2
<1>3. m \in 1..n => FirstOf(u, s, m)
  BY <1>1, FirstBytes
<1>4. n >= 2 => x \in Nat /\ x < 65536 /\ UnitBytes(x, le) = <<s[1], s[2]>>
  <2> SUFFICES ASSUME n >= 2 PROVE x \in Nat /\ x < 65536 /\ UnitBytes(x, le) = <<s[1], s[2]>>
    OBVIOUS
  <2>0. 1 \in 1..n /\ 2 \in 1..n
    BY SMT
  <2>1. s[1] \in 0..255 /\ s[2] \in 0..255
    BY <1>1, <2>0
  <2>2. 1 + 1 = 2
    OBVIOUS
  <2>3. UnitIs(s, 1, le)
    BY <2>1, <2>2, UnitReads
  <2> QED
    BY <2>2, <2>3, SMT DEF UnitIs
<1>5. n >= 4 => z \in Nat /\ z < 65536 /\ UnitBytes(z, le) = <<s[3], s[4]>>
  <2> SUFFICES ASSUME n >= 4 PROVE z \in Nat /\ z < 65536 /\ UnitBytes(z, le) = <<s[3], s[4]>>
    OBVIOUS
  <2>0. 3 \in 1..n /\ 4 \in 1..n
    BY SMT
  <2>1. s[3] \in 0..255 /\ s[4] \in 0..255
    BY <1>1, <2>0, SMTT(60)
  <2>2. 3 + 1 = 4
    OBVIOUS
  <2>3. UnitIs(s, 3, le)
    BY <2>1, <2>2, UnitReads
  <2> QED
    BY <2>2, <2>3, SMT DEF UnitIs
<1> HIDE DEF x, z, cp, m, u
<1>6. CASE n >= 2 /\ A /\ cp = x /\ m = 2
  <2>1. cp \in Nat /\ cp < 65536 /\ cp \notin Surrogates /\ UnitBytes(cp, le) = <<s[1], s[2]>>
    BY <1>4, <1>6, SMT
  <2>2. Utf16Units(cp) = <<cp>>
    BY <2>1, SMT DEF Utf16Units
  <2>3. Utf16Bytes(cp, le) = UnitBytes(cp, le)
    BY <2>2, SMT DEF Utf16Bytes
  <2>4. u = <<s[1], s[2]>>
    BY <1>3, <1>6 DEF FirstOf
  <2>5. IsUnicode(cp)
    <3>1. cp < CodePointEnd
      BY <2>1, SMT DEF CodePointEnd
    <3> QED
      BY <2>1, <3>1, UnicodeMeans, SMT
  <2>6. Utf16Bytes(cp, le) = u /\ m \in 1..n
    BY <1>6, <2>1, <2>3, <2>4, SMT
  <2> QED
    BY <2>5, <2>6, Zenon DEF cp, m, u
<1>7. CASE n >= 4 /\ B /\ cp = y /\ m = 4
  <2> DEFINE q == x - (55296 - 64)
             r == z - 56320
  <2>1. q \in 64..1087 /\ r \in 0..1023 /\ x = 55296 - 64 + q /\ z = 56320 + r
    BY <1>7, SMT
  <2>2. cp = 1024 * q + r
    BY <1>7, <2>1, SMT
  <2> HIDE DEF q, r
  <2>3. cp \div 1024 = q /\ cp % 1024 = r
    BY <2>1, <2>2, DigitsOf, SMT
  <2>4. cp \in Nat /\ cp >= 65536 /\ cp <= 1114111
    BY <2>1, <2>2, SMT
  <2> HIDE DEF A, B, y
  <2>5. Utf16Units(cp) = <<x, z>>
    <3>1. ~(cp < 65536)
      BY <2>4, SMT
    <3>2. Utf16Units(cp) = <<55296 - 64 + cp \div 1024, 56320 + (cp % 1024)>>
      BY <3>1, SMT DEF Utf16Units
    <3> QED
      BY <2>1, <2>3, <3>2, SMT
  <2>6. Utf16Bytes(cp, le) = <<s[1], s[2]>> \o <<s[3], s[4]>>
    <3>1. Utf16Bytes(cp, le) = UnitBytes(x, le) \o UnitBytes(z, le)
      BY <2>5, SMT DEF Utf16Bytes
    <3>2. UnitBytes(x, le) = <<s[1], s[2]>>
      BY <1>4, <1>7
    <3>3. UnitBytes(z, le) = <<s[3], s[4]>>
      BY <1>5, <1>7
    <3> QED
      BY <3>1, <3>2, <3>3
  <2>7. <<s[1], s[2]>> \o <<s[3], s[4]>> = <<s[1], s[2], s[3], s[4]>>
    BY TwoAndTwo
  <2>8. u = <<s[1], s[2], s[3], s[4]>>
    BY <1>3, <1>7 DEF FirstOf
  <2>9. IsUnicode(cp)
    <3>1. cp < CodePointEnd
      BY <2>4, SMT DEF CodePointEnd
    <3>2. cp \notin Surrogates
      BY <2>4, SMTT(60) DEF Surrogates
    <3> QED
      BY <2>4, <3>1, <3>2, UnicodeMeans, SMT
  <2>10. Utf16Bytes(cp, le) = u /\ m \in 1..n
    BY <1>7, <2>6, <2>7, <2>8, SMT
  <2> QED
    BY <2>9, <2>10, Zenon DEF cp, m, u
<1>8. (n >= 2 /\ A /\ cp = x /\ m = 2) \/ (n >= 4 /\ B /\ cp = y /\ m = 4)
  BY <1>2
<1> HIDE DEF A, B, y
<1> QED
  BY <1>6, <1>7, <1>8, Zenon

\* A UTF-32 code that is read is the one that is written.
LEMMA Utf32Reads ==
  ASSUME NEW n \in 1..4, NEW s, ByteSeq(s, n), NEW le \in BOOLEAN, Utf32ToCp(s, le).used # 0
  PROVE  /\ IsUnicode(Utf32ToCp(s, le).val) /\ Utf32ToCp(s, le).used \in 1..n
         /\ Utf32Bytes(Utf32ToCp(s, le).val, le) = SubSeq(s, 1, Utf32ToCp(s, le).used)
<1> DEFINE digits == IF le THEN Reverse(s) ELSE s
           a == digits[2]
           b == digits[3]
           c == digits[4]
           cp == 65536 * a + 256 * b + c
           u == SubSeq(s, 1, 4)
<1>1. Len(s) = n /\ LongAs(s, n) /\ \A k \in 1..n : s[k] \in 0..255
  BY DEF ByteSeq, LongAs
<1>2. n = 4 /\ digits[1] = 0 /\ IsUnicode(cp) /\ Utf32ToCp(s, le) = Step(cp, 4)
  <2> DEFINE good == Len(s) = 4 /\ digits[1] = 0 /\ IsUnicode(cp)
  <2>1. Utf32ToCp(s, le) = IF good THEN Step(cp, 4) ELSE NoCode
    BY SMT DEF Utf32ToCp
  <2>2. NoCode.used = 0
    BY DEF NoCode, Step
  <2> HIDE DEF good, cp
  <2>3. good /\ Utf32ToCp(s, le) = Step(cp, 4)
    BY <2>1, <2>2
  <2> QED
    BY <1>1, <2>3 DEF good
<1>3. Utf32ToCp(s, le).val = cp /\ Utf32ToCp(s, le).used = 4
  BY <1>2 DEF Step
<1>4. s = <<s[1], s[2], s[3], s[4]>> /\ u = <<s[1], s[2], s[3], s[4]>>
  <2>1. FirstOf(u, s, 4)
    BY <1>1, <1>2, FirstBytes
  <2> QED
    BY <1>1, <1>2, <2>1, FewElements DEF FirstOf
<1>5. /\ digits = IF le THEN <<s[4], s[3], s[2], s[1]>> ELSE <<s[1], s[2], s[3], s[4]>>
      /\ a \in 0..255 /\ b \in 0..255 /\ c \in 0..255
  <2>1. Reverse(s) = <<s[4], s[3], s[2], s[1]>>
    BY <1>4, ReverseFew
  <2>2. digits = IF le THEN <<s[4], s[3], s[2], s[1]>> ELSE <<s[1], s[2], s[3], s[4]>>
    BY <1>4, <2>1
  <2> HIDE DEF digits
  <2>3. s[1] \in 0..255 /\ s[2] \in 0..255 /\ s[3] \in 0..255 /\ s[4] \in 0..255
    BY <1>1, <1>2
  <2> QED
    BY <2>2, <2>3
<1> HIDE DEF digits
<1>6. digits = <<0, a, b, c>>
  BY <1>2, <1>5
<1> HIDE DEF a, b, c, u
<1>7. FourBytes(cp) = <<0, a, b, c>>
  <2> DEFINE e == 256 * a + b
             f == 256 * 0 + a
  <2>1. e \in Nat /\ e < 65536 /\ cp = 256 * e + c
    BY <1>5, SMT
  <2>2. e \div 256 = a /\ e % 256 = b
    BY <1>5, DigitsOf, SMT
  <2>3. f \div 256 = 0 /\ f % 256 = a
    BY <1>5, DigitsOf, SMT
  <2>4. cp \div 16777216 = 0 /\ cp \div 65536 = a
    BY <1>5, SMT
  <2> HIDE DEF e, cp
  <2>5. cp \div 256 = e /\ cp % 256 = c
    BY <1>5, <2>1, DigitsOf, SMT
  <2>6. f = a
    BY <1>5
  <2> QED
    BY <2>2, <2>3, <2>4, <2>5, <2>6, SMT DEF FourBytes
<1> HIDE DEF cp
<1>8. Utf32Bytes(cp, le) = <<s[1], s[2], s[3], s[4]>>
  <2>1. CASE le = TRUE
    <3>1. Utf32Bytes(cp, le) = <<c, b, a, 0>>
      BY <1>7, <2>1, ReverseFew DEF Utf32Bytes
    <3>2. c = s[1] /\ b = s[2] /\ a = s[3] /\ 0 = s[4]
      BY <1>5, <1>6, <2>1
    <3> QED
      BY <3>1, <3>2
  <2>2. CASE le = FALSE
    BY <1>5, <1>6, <1>7, <2>2 DEF Utf32Bytes
  <2> QED
    BY <2>1, <2>2
<1> QED
  BY <1>2, <1>3, <1>4, <1>8 DEF u

-----------------------------------------------------------------------------
\* The characters of an encoding, and their bytes.
IsChar(encoding, c) == IF encoding = "ASCII" THEN c \in 0..127 ELSE IsUnicode(c)
BytesOf(encoding, c) ==
  CASE encoding = "ASCII"    -> <<c>>
    [] encoding = "UTF-8"    -> Utf8Bytes(c)
    [] encoding = "UTF-16LE" -> Utf16Bytes(c, TRUE)
    [] encoding = "UTF-16BE" -> Utf16Bytes(c, FALSE)
    [] encoding = "UTF-32LE" -> Utf32Bytes(c, TRUE)
    [] encoding = "UTF-32BE" -> Utf32Bytes(c, FALSE)

\* A character is a code point.
LEMMA CharIsNumber ==
  ASSUME NEW encoding, NEW c, IsChar(encoding, c)
  PROVE  c \in Nat /\ IsUnicode(c)
<1>1. CASE encoding = "ASCII"
  <2>1. c \in 0..127
    BY <1>1 DEF IsChar
  <2>2. c \in Nat /\ c < CodePointEnd
    BY <2>1, EndIsLarge
  <2>3. c \in Surrogates => c >= 55296
    BY SMT DEF Surrogates
  <2>4. c \notin Surrogates
    BY <2>1, <2>3, SMT
  <2> QED
    BY <2>2, <2>4, UnicodeMeans
<1>2. CASE encoding # "ASCII"
  BY <1>2, UnicodeMeans DEF IsChar
<1> QED
  BY <1>1, <1>2

\* A step of a decoder that reads the code of a character.
ReadsCode(encoding, s, n, step) ==
  IsChar(encoding, step.val) /\ step.used \in 1..n /\ BytesOf(encoding, step.val) = SubSeq(s, 1, step.used)

\* What a decoder reads is a character that the encoder of the same name has a code for, and
\* the bytes read are that code: nothing overlong, no surrogate, nothing too large.
THEOREM CodeReads ==
  ASSUME NEW encoding \in Encodings, NEW n \in 1..4, NEW s, ByteSeq(s, n),
         CodeAt(encoding, s).used # 0
  PROVE  ReadsCode(encoding, s, n, CodeAt(encoding, s))
<1>1. CASE encoding = "ASCII"
  <2>1. CodeAt(encoding, s) = IF s[1] < 128 THEN Step(s[1], 1) ELSE NoCode
    BY <1>1 DEF CodeAt
  <2>2. CodeAt(encoding, s).val = s[1] /\ CodeAt(encoding, s).used = 1 /\ s[1] < 128
    BY <2>1 DEF NoCode, Step
  <2>3. 1 \in 1..n
    OBVIOUS
  <2>4. s[1] \in 0..255 /\ SubSeq(s, 1, 1) = <<s[1]>>
    BY <2>3, FirstBytes DEF ByteSeq, FirstOf
  <2>5. s[1] \in 0..127
    BY <2>2, <2>4
  <2>6. IsChar(encoding, s[1]) /\ BytesOf(encoding, s[1]) = <<s[1]>>
    BY <1>1, <2>5 DEF IsChar, BytesOf
  <2> QED
    BY <2>2, <2>3, <2>4, <2>6 DEF ReadsCode
<1>2. CASE encoding = "UTF-8"
  <2>1. CodeAt(encoding, s) = Utf8ToCp(s) /\ \A c : BytesOf(encoding, c) = Utf8Bytes(c)
    BY <1>2 DEF CodeAt, BytesOf
  <2>2. \A c : IsChar(encoding, c) = IsUnicode(c)
    BY <1>2 DEF IsChar
  <2> QED
    BY <2>1, <2>2, Utf8Reads DEF ReadsCode
<1>3. CASE encoding \in {"UTF-16LE", "UTF-16BE"}
  <2>1. PICK le \in BOOLEAN : /\ CodeAt(encoding, s) = Utf16ToCp(s, le)
                              /\ \A c : BytesOf(encoding, c) = Utf16Bytes(c, le)
    BY <1>3 DEF CodeAt, BytesOf
  <2>2. \A c : IsChar(encoding, c) = IsUnicode(c)
    BY <1>3 DEF IsChar
  <2> QED
    BY <2>1, <2>2, Utf16Reads DEF ReadsCode
<1>4. CASE encoding \in {"UTF-32LE", "UTF-32BE"}
  <2>1. PICK le \in BOOLEAN : /\ CodeAt(encoding, s) = Utf32ToCp(s, le)
                              /\ \A c : BytesOf(encoding, c) = Utf32Bytes(c, le)
    BY <1>4 DEF CodeAt, BytesOf
  <2>2. \A c : IsChar(encoding, c) = IsUnicode(c)
    BY <1>4 DEF IsChar
  <2> QED
    BY <2>1, <2>2, Utf32Reads DEF ReadsCode
<1> QED
  BY <1>1, <1>2, <1>3, <1>4 DEF Encodings

-----------------------------------------------------------------------------
\* A chain of transformations that the library knows.
KnownChain(chain) ==
  chain.rot \in 0..25 /\ chain.bytes \in {"identity", "OCE"} /\ chain.encoding \in Encodings

\* The bytes of a code as the chain passes them on.
Passed(chain, s) == IF chain.bytes = "OCE" THEN [k \in DOMAIN s |-> OCE[s[k]]] ELSE s

\* The code of a character in a chain.
CodeIn(chain, c) == Passed(chain, BytesOf(chain.encoding, Rotated(chain.rot, c)))

\* y is rot places before x among 26, and z is rot places behind it.
TurnBack(y, z, x, rot) ==
  /\ y \in 0..25 /\ z \in 0..25
  /\ (y + rot) % 26 = x /\ (z + (26 - rot)) % 26 = x /\ (rot = 0 => z = x)

\* Places among 26, back and forth.
LEMMA PlacesBack ==
  ASSUME NEW x \in 0..25, NEW rot \in 0..25
  PROVE  TurnBack((x + (26 - rot)) % 26, (x + rot) % 26, x, rot)
<1> DEFINE y == (x + (26 - rot)) % 26
           z == (x + rot) % 26
<1>0. /\ \A n \in 0..25 : n % 26 = n
      /\ \A n \in 26..51 : n % 26 = n - 26
  BY SMT
<1>1. y = IF x >= rot THEN x - rot ELSE x + (26 - rot)
  <2>1. x >= rot => x + (26 - rot) \in 26..51 /\ x + (26 - rot) - 26 = x - rot
    OBVIOUS
  <2>2. ~(x >= rot) => x + (26 - rot) \in 0..25
    OBVIOUS
  <2> QED
    BY <1>0, <2>1, <2>2
<1>2. z = IF x + rot >= 26 THEN x + rot - 26 ELSE x + rot
  <2>1. x + rot >= 26 => x + rot \in 26..51
    OBVIOUS
  <2>2. ~(x + rot >= 26) => x + rot \in 0..25
    OBVIOUS
  <2> QED
    BY <1>0, <2>1, <2>2
<1> HIDE DEF y, z
<1>3. y \in 0..25 /\ z \in 0..25 /\ (rot = 0 => z = x)
  BY <1>1, <1>2
<1>4. (y + rot) % 26 = x
  <2> DEFINE n == y + rot
  <2>1. x >= rot => n \in 0..25 /\ n = x
    BY <1>1
  <2>2. ~(x >= rot) => n \in 26..51 /\ n - 26 = x
    BY <1>1
  <2> HIDE DEF n
  <2>3. n % 26 = x
    BY <1>0, <2>1, <2>2
  <2> QED
    BY <2>3 DEF n
<1>5. (z + (26 - rot)) % 26 = x
  <2> DEFINE n == z + (26 - rot)
  <2>1. x + rot >= 26 => n \in 0..25 /\ n = x
    BY <1>2
  <2>2. ~(x + rot >= 26) => n \in 26..51 /\ n - 26 = x
    BY <1>2
  <2> HIDE DEF n
  <2>3. n % 26 = x
    BY <1>0, <2>1, <2>2
  <2> QED
    BY <2>3 DEF n
<1> QED
  BY <1>3, <1>4, <1>5 DEF TurnBack, y, z

\* Letters move to letters, and back.
LEMMA RotatedBack ==
  ASSUME NEW rot \in 0..25, NEW c
  PROVE  /\ Rotated(rot, Unrotated(rot, c)) = c /\ Unrotated(rot, Rotated(rot, c)) = c
         /\ rot = 0 => Rotated(rot, c) = c
<1>1. CASE c \in 65..90
  <2> DEFINE x == c - 65
             y == (x + (26 - rot)) % 26
             z == (x + rot) % 26
  <2>1. x \in 0..25 /\ c = 65 + x
    BY <1>1, SMTT(60)
  <2>2. TurnBack(y, z, x, rot)
    <3> HIDE DEF x
    <3> QED
      BY <2>1, PlacesBack
  <2>3. Unrotated(rot, c) = 65 + y /\ Rotated(rot, c) = 65 + z
    BY <1>1 DEF Unrotated, Rotated
  <2> HIDE DEF x, y, z
  <2>4. 65 + y \in 65..90 /\ 65 + z \in 65..90 /\ (65 + y) - 65 = y /\ (65 + z) - 65 = z
    BY <2>2 DEF TurnBack
  <2>5. Rotated(rot, 65 + y) = 65 + x
    BY <2>2, <2>4 DEF TurnBack, Rotated
  <2>6. Unrotated(rot, 65 + z) = 65 + x
    BY <2>2, <2>4 DEF TurnBack, Unrotated, Rotated
  <2>7. 65 + x = c
    BY <2>1
  <2> QED
    BY <2>2, <2>3, <2>5, <2>6, <2>7 DEF TurnBack
<1>2. CASE c \in 97..122
  <2> DEFINE x == c - 97
             y == (x + (26 - rot)) % 26
             z == (x + rot) % 26
  <2>1. x \in 0..25 /\ c = 97 + x
    BY <1>2, SMTT(60)
  <2>2. TurnBack(y, z, x, rot)
    <3> HIDE DEF x
    <3> QED
      BY <2>1, PlacesBack
  <2>3. Unrotated(rot, c) = 97 + y /\ Rotated(rot, c) = 97 + z
    BY <1>2 DEF Unrotated, Rotated
  <2> HIDE DEF x, y, z
  <2>4. 97 + y \in 97..122 /\ 97 + z \in 97..122 /\ (97 + y) - 97 = y /\ (97 + z) - 97 = z
    BY <2>2 DEF TurnBack
  <2>5. Rotated(rot, 97 + y) = 97 + x
    BY <2>2, <2>4 DEF TurnBack, Rotated
  <2>6. Unrotated(rot, 97 + z) = 97 + x
    BY <2>2, <2>4 DEF TurnBack, Unrotated, Rotated
  <2>7. 97 + x = c
    BY <2>1
  <2> QED
    BY <2>2, <2>3, <2>5, <2>6, <2>7 DEF TurnBack
<1>3. CASE c \notin 65..90 /\ c \notin 97..122
  BY <1>3 DEF Unrotated, Rotated
<1> QED
  BY <1>1, <1>2, <1>3

\* A letter is a character of every encoding, and so is what it moves to.
LEMMA RotatedIsChar ==
  ASSUME NEW encoding \in Encodings, NEW rot \in 0..26, NEW c
  PROVE  IsChar(encoding, Rotated(rot, c)) <=> IsChar(encoding, c)
<1>1. \A x \in 0..127 : IsChar(encoding, x)
  <2> SUFFICES ASSUME NEW x \in 0..127, encoding # "ASCII" PROVE IsUnicode(x)
    BY DEF IsChar
  <2>1. x \in Nat /\ x < CodePointEnd
    BY EndIsLarge
  <2>2. x \notin Surrogates
    <3> SUFFICES ASSUME x \in Surrogates PROVE FALSE
      OBVIOUS
    <3>1. x >= 55296
      BY SMT DEF Surrogates
    <3> QED
      BY <3>1, SMT
  <2> QED
    BY <2>1, <2>2, UnicodeMeans
<1>2. CASE c \in 65..90
  <2>1. Rotated(rot, c) = 65 + ((c - 65 + rot) % 26)
    BY <1>2 DEF Rotated
  <2>2. (c - 65 + rot) % 26 \in 0..25
    BY <1>2
  <2>3. Rotated(rot, c) \in 0..127 /\ c \in 0..127
    BY <1>2, <2>1, <2>2
  <2> QED
    BY <1>1, <2>3
<1>3. CASE c \in 97..122
  <2>1. Rotated(rot, c) = 97 + ((c - 97 + rot) % 26)
    BY <1>3 DEF Rotated
  <2>2. (c - 97 + rot) % 26 \in 0..25
    BY <1>3
  <2>3. Rotated(rot, c) \in 0..127 /\ c \in 0..127
    BY <1>3, <2>1, <2>2
  <2> QED
    BY <1>1, <2>3
<1>4. CASE c \notin 65..90 /\ c \notin 97..122
  BY <1>4 DEF Rotated
<1> QED
  BY <1>2, <1>3, <1>4

\* An encoder's codes for the code points of V, before bytes are passed on.
BaseOf(encoding, V) ==
  CASE encoding = "ASCII"    -> Ascii(V)
    [] encoding = "UTF-8"    -> UTF8(V)
    [] encoding = "UTF-16LE" -> UTF16LE(V)
    [] encoding = "UTF-16BE" -> UTF16BE(V)
    [] encoding = "UTF-32LE" -> UTF32LE(V)
    [] encoding = "UTF-32BE" -> UTF32BE(V)

\* They are the bytes of its characters.
LEMMA BaseCodes ==
  ASSUME NEW encoding \in Encodings, NEW V, V \subseteq Nat
  PROVE  BaseOf(encoding, V).code = [c \in {x \in V : IsChar(encoding, x)} |-> BytesOf(encoding, c)]
<1>1. CASE encoding = "ASCII"
  <2>1. BaseOf(encoding, V) = Ascii(V)
    BY <1>1 DEF BaseOf
  <2>2. \A x \in V : IsChar(encoding, x) <=> x < 128
    BY <1>1 DEF IsChar
  <2>3. \A c : BytesOf(encoding, c) = <<c>>
    BY <1>1 DEF BytesOf
  <2>4. Ascii(V).code = [c \in {x \in V : x < 128} |-> <<c>>]
    BY DEF Ascii, Plain
  <2>5. {x \in V : x < 128} = {x \in V : IsChar(encoding, x)}
    BY <2>2
  <2> QED
    BY <2>1, <2>3, <2>4, <2>5
<1>2. ASSUME encoding # "ASCII" PROVE \A x : IsChar(encoding, x) = IsUnicode(x)
  BY <1>2 DEF IsChar
<1> DEFINE U == {x \in V : IsUnicode(x)}
<1>3. encoding # "ASCII" => {x \in V : IsChar(encoding, x)} = U
  BY <1>2
<1> HIDE DEF U
<1>4. CASE encoding = "UTF-8"
  <2>1. BaseOf(encoding, V) = UTF8(V)
    BY <1>4 DEF BaseOf
  <2>2. UTF8(V).code = [c \in U |-> Utf8Bytes(c)]
    BY DEF UTF8, Utf, U
  <2>3. \A c : BytesOf(encoding, c) = Utf8Bytes(c)
    BY <1>4 DEF BytesOf
  <2> QED
    BY <1>3, <1>4, <2>1, <2>2, <2>3
<1>5. CASE encoding = "UTF-16LE"
  <2>1. BaseOf(encoding, V) = UTF16LE(V)
    BY <1>5 DEF BaseOf
  <2>2. UTF16LE(V).code = [c \in U |-> Utf16Bytes(c, TRUE)]
    BY DEF UTF16LE, Utf, U
  <2>3. \A c : BytesOf(encoding, c) = Utf16Bytes(c, TRUE)
    BY <1>5 DEF BytesOf
  <2> QED
    BY <1>3, <1>5, <2>1, <2>2, <2>3
<1>6. CASE encoding = "UTF-16BE"
  <2>1. BaseOf(encoding, V) = UTF16BE(V)
    BY <1>6 DEF BaseOf
  <2>2. UTF16BE(V).code = [c \in U |-> Utf16Bytes(c, FALSE)]
    BY DEF UTF16BE, Utf, U
  <2>3. \A c : BytesOf(encoding, c) = Utf16Bytes(c, FALSE)
    BY <1>6 DEF BytesOf
  <2> QED
    BY <1>3, <1>6, <2>1, <2>2, <2>3
<1>7. CASE encoding = "UTF-32LE"
  <2>1. BaseOf(encoding, V) = UTF32LE(V)
    BY <1>7 DEF BaseOf
  <2>2. UTF32LE(V).code = [c \in U |-> Utf32Bytes(c, TRUE)]
    BY DEF UTF32LE, Utf, U
  <2>3. \A c : BytesOf(encoding, c) = Utf32Bytes(c, TRUE)
    BY <1>7 DEF BytesOf
  <2> QED
    BY <1>3, <1>7, <2>1, <2>2, <2>3
<1>8. CASE encoding = "UTF-32BE"
  <2>1. BaseOf(encoding, V) = UTF32BE(V)
    BY <1>8 DEF BaseOf
  <2>2. UTF32BE(V).code = [c \in U |-> Utf32Bytes(c, FALSE)]
    BY DEF UTF32BE, Utf, U
  <2>3. \A c : BytesOf(encoding, c) = Utf32Bytes(c, FALSE)
    BY <1>8 DEF BytesOf
  <2> QED
    BY <1>3, <1>8, <2>1, <2>2, <2>3
<1> QED
  BY <1>1, <1>4, <1>5, <1>6, <1>7, <1>8 DEF Encodings

\* The codes of the characters among W in a chain.
CodesOfChain(code, chain, W) ==
  /\ \A c : c \in DOMAIN code <=> c \in W /\ IsChar(chain.encoding, c)
  /\ \A c \in DOMAIN code : code[c] = CodeIn(chain, c)

\* Those are the codes of its encoder.
LEMMA EncoderCodes ==
  ASSUME NEW chain, KnownChain(chain), NEW W, W \subseteq Nat
  PROVE  CodesOfChain(EncoderOf(chain, W).code, chain, W)
<1> DEFINE rot == chain.rot
           encoding == chain.encoding
           V == W \cup {Rotated(rot, c) : c \in W}
           base == BaseOf(encoding, V)
           bytewise == IF chain.bytes = "OCE" THEN Bytewise(OCE, base) ELSE base
           Good(c) == IsChar(encoding, c)
           B(c) == BytesOf(encoding, c)
<1>1. EncoderOf(chain, W) = IF rot = 0 THEN bytewise ELSE Rot(rot, bytewise, W)
  BY DEF EncoderOf, BaseOf
<1>2. rot \in 0..25 /\ encoding \in Encodings
  BY DEF KnownChain
<1>3. \A c \in W : Rotated(rot, c) \in Nat
  <2> SUFFICES ASSUME NEW c \in W PROVE Rotated(rot, c) \in Nat
    OBVIOUS
  <2>0. c \in Nat
    OBVIOUS
  <2> HIDE DEF rot
  <2>1. c \in Nat /\ (c \in 65..90 => (c - 65 + rot) % 26 \in 0..25) /\ (c \in 97..122 => (c - 97 + rot) % 26 \in 0..25)
    BY <1>2, <2>0
  <2> QED
    BY <2>1 DEF Rotated
<1>4. V \subseteq Nat
  BY <1>3
<1>5. base.code = [c \in {x \in V : Good(x)} |-> B(c)]
  <2> HIDE DEF V, encoding
  <2> QED
    BY <1>2, <1>4, BaseCodes
<1>6. \A c : c \in DOMAIN base.code <=> c \in V /\ Good(c)
  <2> HIDE DEF V, encoding, base, Good, B
  <2> QED
    BY <1>5
<1>7. \A c \in DOMAIN base.code : base.code[c] = B(c)
  <2> HIDE DEF V, encoding, base, Good, B
  <2> QED
    BY <1>5
<1> HIDE DEF base
<1>8. \A c : c \in DOMAIN bytewise.code <=> c \in V /\ Good(c)
  <2>1. chain.bytes = "OCE" => bytewise.code = [c \in DOMAIN base.code |-> [k \in DOMAIN base.code[c] |-> OCE[base.code[c][k]]]]
    BY DEF Bytewise, Plain
  <2>2. DOMAIN bytewise.code = DOMAIN base.code
    <3>1. chain.bytes # "OCE" => bytewise = base
      OBVIOUS
    <3> HIDE DEF bytewise
    <3> QED
      BY <2>1, <3>1
  <2> HIDE DEF bytewise, V, Good
  <2> QED
    BY <1>6, <2>2
<1>9. \A c \in DOMAIN bytewise.code : bytewise.code[c] = Passed(chain, B(c))
  <2> SUFFICES ASSUME NEW c \in DOMAIN bytewise.code PROVE bytewise.code[c] = Passed(chain, B(c))
    OBVIOUS
  <2>1. c \in DOMAIN base.code
    BY <1>6, <1>8
  <2>2. base.code[c] = B(c)
    BY <1>7, <2>1
  <2>3. CASE chain.bytes = "OCE"
    <3>1. bytewise.code = [d \in DOMAIN base.code |-> [k \in DOMAIN base.code[d] |-> OCE[base.code[d][k]]]]
      BY <2>3 DEF Bytewise, Plain
    <3> HIDE DEF bytewise, B
    <3>2. bytewise.code[c] = [k \in DOMAIN base.code[c] |-> OCE[base.code[c][k]]]
      BY <2>1, <3>1
    <3> QED
      BY <2>2, <2>3, <3>2 DEF Passed
  <2>4. CASE chain.bytes # "OCE"
    BY <2>2, <2>4 DEF Passed
  <2> QED
    BY <2>3, <2>4
<1> HIDE DEF bytewise
<1>10. \A c \in W : c \in V /\ Rotated(rot, c) \in V
  OBVIOUS
<1>11. \A c : Good(Rotated(rot, c)) <=> Good(c)
  <2>1. rot \in 0..26
    BY <1>2
  <2> QED
    BY <1>2, <2>1, RotatedIsChar
<1>12. \A c : CodeIn(chain, c) = Passed(chain, B(Rotated(rot, c)))
  BY DEF CodeIn
<1>13. CASE rot = 0
  <2>1. \A c : Rotated(rot, c) = c
    BY <1>2, <1>13, RotatedBack
  <2>2. V = W
    BY <2>1
  <2>3. \A c : c \in DOMAIN bytewise.code <=> c \in W /\ IsChar(chain.encoding, c)
    BY <1>8, <2>2
  <2>4. \A c \in DOMAIN bytewise.code : bytewise.code[c] = CodeIn(chain, c)
    BY <1>9, <1>12, <2>1
  <2>5. EncoderOf(chain, W) = bytewise
    BY <1>1, <1>13
  <2> QED
    BY <2>3, <2>4, <2>5 DEF CodesOfChain
<1>14. CASE rot # 0
  <2> DEFINE D == {x \in W : {x, Rotated(rot, x)} \subseteq DOMAIN bytewise.code}
             code == [c \in D |-> bytewise.code[Rotated(rot, c)]]
  <2>1. EncoderOf(chain, W).code = code
    <3>1. EncoderOf(chain, W) = Rot(rot, bytewise, W)
      BY <1>1, <1>14
    <3> QED
      BY <3>1 DEF Rot, Plain
  <2>2. \A c : c \in D <=> c \in W /\ Good(c)
    <3> HIDE DEF V, Good
    <3>1. \A c \in W : {c, Rotated(rot, c)} \subseteq DOMAIN bytewise.code <=> Good(c)
      BY <1>8, <1>10, <1>11
    <3> QED
      BY <3>1
  <2>3. \A c \in D : code[c] = CodeIn(chain, c)
    <3>1. \A c \in D : Rotated(rot, c) \in DOMAIN bytewise.code
      OBVIOUS
    <3> HIDE DEF B
    <3> QED
      BY <1>9, <1>12, <3>1
  <2>4. DOMAIN code = D
    OBVIOUS
  <2> HIDE DEF D, code
  <2>5. CodesOfChain(code, chain, W)
    BY <2>2, <2>3, <2>4 DEF CodesOfChain
  <2> QED
    BY <2>1, <2>5
<1> QED
  BY <1>13, <1>14

-----------------------------------------------------------------------------
\* A byte is undone to a byte, which OCE turns back.
LEMMA UndoneByte ==
  ASSUME NEW b \in 0..255, NEW chain
  PROVE  Undone(chain, b) \in 0..255 /\ (chain.bytes = "OCE" => OCE[Undone(chain, b)] = b)
<1> DEFINE S == 0..255
<1>1. /\ OCE \in [S -> S] /\ unOCE \in [S -> S]
      /\ \A x \in S : unOCE[OCE[x]] = x /\ OCE[unOCE[x]] = x
  BY TablesInvert, Zenon DEF S
<1>2. b \in S
  OBVIOUS
<1> HIDE DEF S
<1>3. unOCE[b] \in S /\ OCE[unOCE[b]] = b
  BY <1>1, <1>2
<1>4. Undone(chain, b) \in S
  BY <1>2, <1>3 DEF Undone
<1>5. chain.bytes = "OCE" => OCE[Undone(chain, b)] = b
  BY <1>3, SMTT(60) DEF Undone
<1> QED
  BY <1>4, <1>5 DEF S

\* What the decoder looks at is bytes.
LEMMA AheadIsBytes ==
  ASSUME NEW chain, KnownChain(chain), NEW buffer \in Seq(0..255),
         NEW to \in 0..Len(buffer), NEW p \in 0..to - 1
  PROVE  \E n \in 1..4 : /\ ByteSeq(Ahead(chain, buffer, p, to), n) /\ n <= to - p /\ (n = 4 \/ n = to - p)
                         /\ \A k \in 1..n : Ahead(chain, buffer, p, to)[k] = Undone(chain, buffer[p + k])
<1> DEFINE n == Min({4, to - p})
           s == Ahead(chain, buffer, p, to)
<1>0. Len(buffer) \in Nat /\ \A k \in 1..Len(buffer) : buffer[k] \in 0..255
  BY LenProperties, ElementOfSeq, SMTT(60)
<1>1. n \in 1..4 /\ n <= to - p /\ (n = 4 \/ n = to - p)
  <2>1. 4 \in Int /\ to - p \in Int /\ 1 <= to - p
    BY <1>0
  <2>2. Min({4, to - p}) = IF 4 <= to - p THEN 4 ELSE to - p
    BY <2>1, MinOfTwo
  <2> QED
    BY <2>1, <2>2
<1>2. s = [k \in 1..n |-> Undone(chain, buffer[p + k])]
  BY DEF Ahead
<1> HIDE DEF n, s
<1>3. LongAs(s, n) /\ \A k \in 1..n : s[k] = Undone(chain, buffer[p + k])
  <2>1. s = [k \in 1..n |-> s[k]] /\ n \in Nat
    BY <1>1, <1>2
  <2> QED
    BY <1>2, <2>1, SequenceMeans
<1>4. \A k \in 1..n : s[k] \in 0..255
  <2> SUFFICES ASSUME NEW k \in 1..n PROVE s[k] \in 0..255
    OBVIOUS
  <2>1. p + k \in 1..Len(buffer)
    BY <1>0, <1>1
  <2>2. buffer[p + k] \in 0..255
    BY <1>0, <2>1
  <2>3. Undone(chain, buffer[p + k]) \in 0..255
    BY <2>2, UndoneByte
  <2> QED
    BY <1>3, <2>3, SMTT(60)
<1> QED
  BY <1>1, <1>3, <1>4 DEF ByteSeq, s

\* u is m bytes undone.
UndoneTo(u, bytes, chain, m) == \A k \in 1..m : bytes[k] \in 0..255 /\ u[k] = Undone(chain, bytes[k])

\* Bytes that were undone, and a code passed on, are the bytes of the buffer.
LEMMA PassedBack ==
  ASSUME NEW chain, KnownChain(chain), NEW m \in Nat, NEW u, LongAs(u, m), NEW bytes, LongAs(bytes, m),
         UndoneTo(u, bytes, chain, m)
  PROVE  Passed(chain, u) = bytes
<1>1. DOMAIN u = 1..m /\ u = [k \in 1..m |-> u[k]] /\ bytes = [k \in 1..m |-> bytes[k]]
  BY SequenceMeans
<1>2. CASE chain.bytes = "OCE"
  <2>1. Passed(chain, u) = [k \in 1..m |-> OCE[u[k]]]
    BY <1>1, <1>2 DEF Passed
  <2>2. \A k \in 1..m : OCE[u[k]] = bytes[k]
    <3> SUFFICES ASSUME NEW k \in 1..m PROVE OCE[u[k]] = bytes[k]
      OBVIOUS
    <3>1. bytes[k] \in 0..255 /\ u[k] = Undone(chain, bytes[k])
      BY SMTT(60) DEF UndoneTo
    <3>2. OCE[Undone(chain, bytes[k])] = bytes[k]
      BY <1>2, <3>1, UndoneByte
    <3> QED
      BY <3>1, <3>2
  <2> QED
    BY <1>1, <2>1, <2>2
<1>3. CASE chain.bytes # "OCE"
  <2>1. Passed(chain, u) = u /\ \A k \in 1..m : u[k] = bytes[k]
    BY <1>3 DEF Passed, Undone, UndoneTo
  <2> QED
    BY <1>1, <2>1
<1> QED
  BY <1>2, <1>3

\* A bad item covers one byte, ...
LEMMA BadCovers ==
  ASSUME NEW chain, NEW buffer, NEW item, NEW next, IsBad(item),
         Len(SubSeq(buffer, item.at + 1, next)) = 1,
         -item.val - 1 \in {SubSeq(buffer, item.at + 1, next)[1],
                           Undone(chain, SubSeq(buffer, item.at + 1, next)[1])}
  PROVE  Covers(chain, buffer, item, next)
<1> DEFINE bytes == SubSeq(buffer, item.at + 1, next)
           code  == EncoderOf(chain, {item.val}).code
           bad   == Len(bytes) = 1 /\ -item.val - 1 \in {bytes[1], Undone(chain, bytes[1])}
           good  == item.val \in DOMAIN code /\ bytes = code[item.val]
<1>1. Covers(chain, buffer, item, next) <=> (IF IsBad(item) THEN bad ELSE good)
  BY Zenon DEF Covers
<1>2. bad
  OBVIOUS
<1> HIDE DEF bad, good
<1> QED
  BY <1>1, <1>2, Zenon

\* ... a character its code.
LEMMA CodeCovers ==
  ASSUME NEW chain, NEW buffer, NEW item, NEW next, ~IsBad(item),
         item.val \in DOMAIN EncoderOf(chain, {item.val}).code,
         SubSeq(buffer, item.at + 1, next) = EncoderOf(chain, {item.val}).code[item.val]
  PROVE  Covers(chain, buffer, item, next)
<1> DEFINE bytes == SubSeq(buffer, item.at + 1, next)
           code  == EncoderOf(chain, {item.val}).code
           bad   == Len(bytes) = 1 /\ -item.val - 1 \in {bytes[1], Undone(chain, bytes[1])}
           good  == item.val \in DOMAIN code /\ bytes = code[item.val]
<1>1. Covers(chain, buffer, item, next) <=> (IF IsBad(item) THEN bad ELSE good)
  BY Zenon DEF Covers
<1>2. good
  OBVIOUS
<1> HIDE DEF bad, good
<1> QED
  BY <1>1, <1>2, Zenon

\* The places to turn back by.
LEMMA PlacesLeft == ASSUME NEW r \in 0..25 PROVE 26 - r \in 0..26
  OBVIOUS

\* An item is of a code point, or of none.
Known(v) == v \in Int /\ (v >= 0 => IsUnicode(v))

\* It stands for its bytes.
Placed(chain, buffer, item, next) == Covers(chain, buffer, item, next) /\ Known(item.val)

\* Every item does, for those that it takes.
LEMMA ItemPlaced ==
  ASSUME NEW chain, KnownChain(chain), NEW buffer \in Seq(0..255),
         NEW to \in 0..Len(buffer), NEW p \in 0..to - 1
  PROVE  Placed(chain, buffer, ItemAt(chain, buffer, p, to), p + Width(chain, buffer, p, to))
<1> DEFINE s == Ahead(chain, buffer, p, to)
           step == StepAt(chain, buffer, p, to)
           item == ItemAt(chain, buffer, p, to)
           w == Width(chain, buffer, p, to)
           bytes == SubSeq(buffer, p + 1, p + w)
<1>0. Len(buffer) \in Nat /\ \A k \in 1..Len(buffer) : buffer[k] \in 0..255
  BY LenProperties, ElementOfSeq
<1>e. chain.encoding \in Encodings
  BY DEF KnownChain
<1>1. PICK n \in 1..4 : /\ ByteSeq(s, n) /\ n <= to - p
                        /\ \A k \in 1..n : s[k] = Undone(chain, buffer[p + k])
  BY AheadIsBytes
<1>2. step = CodeAt(chain.encoding, s)
  BY DEF StepAt
<1>3. item.at = p /\ w \in 1..to - p
  <2>1. to \in Nat
    BY <1>0
  <2> QED
    BY <1>e, <2>1, ItemFits
<1> HIDE DEF s, step
<1>4. /\ step.used = 0 => item = BadByte(s[1], p) /\ w = 1
      /\ step.used # 0 => item = Item(Unrotated(chain.rot, step.val), p) /\ w = step.used
  BY DEF ItemAt, Width, step, s
<1> HIDE DEF item, w
<1>5. LongAs(bytes, w) /\ \A k \in 1..w : bytes[k] = buffer[p + k] /\ bytes[k] \in 0..255
  <2>1. LongAs(buffer, Len(buffer))
    BY SeqIsSequence DEF LongAs
  <2>2. p \in Nat /\ w \in Nat /\ p + w \in Nat /\ p <= p + w /\ p + w <= Len(buffer)
    BY <1>0, <1>3
  <2>3. IsPart(SubSeq(buffer, p + 1, p + w), buffer, p, p + w)
    BY <1>0, <2>1, <2>2, PartOfSequence
  <2>4. (p + w) - p = w /\ \A k \in 1..w : p + k \in 1..Len(buffer)
    BY <1>0, <2>2
  <2> QED
    BY <1>0, <2>3, <2>4, ZenonT(60) DEF IsPart
<1> HIDE DEF bytes
<1>6. bytes = SubSeq(buffer, item.at + 1, p + w)
  BY <1>3 DEF bytes
<1>7. CASE step.used = 0
  <2>1. item.val = -s[1] - 1 /\ w = 1
    BY <1>4, <1>7 DEF BadByte, Item
  <2>2. s[1] \in 0..255 /\ s[1] = Undone(chain, buffer[p + 1])
    <3>1. 1 \in 1..n
      OBVIOUS
    <3> QED
      BY <1>1, <3>1 DEF ByteSeq
  <2> DEFINE x == s[1]
             v == item.val
             B == SubSeq(buffer, item.at + 1, p + w)
  <2>3. IsBad(item) /\ -v - 1 = x /\ Known(v)
    <3>1. v < 0 /\ -v - 1 = x /\ v \in Int /\ ~(v >= 0)
      <4>0. v = -x - 1
        BY <2>1
      <4>1. x \in Nat
        <5>1. x \in 0..255
          BY <2>2
        <5> HIDE DEF x
        <5> QED
          BY <5>1
      <4> HIDE DEF x, v
      <4> QED
        BY <4>0, <4>1
    <3> HIDE DEF v
    <3>2. Known(v)
      BY <3>1 DEF Known
    <3> QED
      BY <3>1, <3>2 DEF IsBad, v
  <2>4. Len(B) = 1 /\ B[1] = buffer[p + 1]
    <3>1. B = bytes
      BY <1>6
    <3>2. LongAs(B, 1)
      BY <1>5, <2>1, <3>1
    <3>3. 1 \in 1..w
      BY <1>3
    <3> QED
      BY <1>5, <3>1, <3>2, <3>3 DEF LongAs
  <2>5. -v - 1 \in {B[1], Undone(chain, B[1])}
    BY <2>2, <2>3, <2>4
  <2>6. Covers(chain, buffer, item, p + w)
    BY <2>3, <2>4, <2>5, BadCovers
  <2> QED
    BY <2>3, <2>6 DEF item, w, Placed
<1>8. CASE step.used # 0
  <2> DEFINE c == Unrotated(chain.rot, step.val)
             code == EncoderOf(chain, {c}).code
             u == SubSeq(s, 1, w)
  <2>1. item.val = c /\ w = step.used
    BY <1>4, <1>8 DEF Item
  <2>2. /\ IsChar(chain.encoding, step.val) /\ w \in 1..n
        /\ BytesOf(chain.encoding, step.val) = u
    <3>1. ReadsCode(chain.encoding, s, n, step)
      BY <1>e, <1>1, <1>2, <1>8, CodeReads
    <3> QED
      BY <2>1, <3>1 DEF ReadsCode
  <2>3. IsChar(chain.encoding, c)
    <3>1. 26 - chain.rot \in 0..26 /\ c = Rotated(26 - chain.rot, step.val)
      <4>1. chain.rot \in 0..25
        BY DEF KnownChain
      <4>2. c = Rotated(26 - chain.rot, step.val)
        BY DEF Unrotated
      <4>3. 26 - chain.rot \in 0..26
        BY <4>1, PlacesLeft
      <4> QED
        BY <4>2, <4>3
    <3> HIDE DEF c
    <3> QED
      BY <1>e, <2>2, <3>1, RotatedIsChar
  <2>4. Rotated(chain.rot, c) = step.val
    BY RotatedBack DEF KnownChain
  <2> HIDE DEF c
  <2>5. c \in Nat /\ Known(c)
    BY <2>3, CharIsNumber DEF Known
  <2>6. CodesOfChain(code, chain, {c})
    <3>1. {c} \subseteq Nat
      BY <2>5
    <3> QED
      BY <3>1, EncoderCodes
  <2> HIDE DEF code
  <2>7. c \in DOMAIN code /\ code[c] = Passed(chain, u)
    BY <2>2, <2>3, <2>4, <2>6 DEF CodesOfChain, CodeIn
  <2>8. Passed(chain, u) = bytes
    <3>1. FirstOf(u, s, w)
      BY <1>1, <2>2, FirstBytes DEF ByteSeq
    <3> HIDE DEF u
    <3>2. LongAs(u, w) /\ \A k \in 1..w : u[k] = s[k] /\ k \in 1..n
      BY <2>2, <3>1 DEF FirstOf
    <3>3. UndoneTo(u, bytes, chain, w)
      BY <1>1, <1>5, <3>2 DEF UndoneTo
    <3>4. w \in Nat
      BY <1>0, <1>3
    <3> QED
      BY <1>5, <3>2, <3>3, <3>4, PassedBack
  <2>9. ~IsBad(item)
    BY <2>1, <2>5, SMTT(60) DEF IsBad
  <2>10. code = EncoderOf(chain, {item.val}).code
    BY <2>1 DEF code
  <2> DEFINE B == SubSeq(buffer, item.at + 1, p + w)
             v == item.val
  <2>11. v \in DOMAIN EncoderOf(chain, {v}).code /\ B = EncoderOf(chain, {v}).code[v]
    BY <1>6, <2>1, <2>7, <2>8, <2>10
  <2>12. Covers(chain, buffer, item, p + w)
    BY <2>9, <2>11, CodeCovers
  <2> QED
    BY <2>1, <2>5, <2>12 DEF item, w, Placed
<1> QED
  BY <1>7, <1>8 DEF item, w

-----------------------------------------------------------------------------
\* Where the k-th of the n items of a range up to to ends: where the next one begins.
EndOf(s, n, k, to) == IF k < n THEN s[k + 1].at ELSE to

\* The items lie side by side up to to.
Tiles(chain, buffer, s, n, to) == \A k \in 1..n : Placed(chain, buffer, s[k], EndOf(s, n, k, to))

\* The n items begin at place q, if there are any, and q is the end when there is none.
Begins(s, n, q, to) == IF n = 0 THEN q = to ELSE s[1].at = q

\* So do two such parts end to end.
LEMMA TilesJoined ==
  ASSUME NEW chain, NEW buffer, NEW a \in Nat, NEW b \in Nat, NEW s, NEW t, NEW u, Joins(u, s, a, t, b),
         NEW q, NEW to, Tiles(chain, buffer, s, a, q), Tiles(chain, buffer, t, b, to), Begins(t, b, q, to)
  PROVE  Tiles(chain, buffer, u, a + b, to)
<1> SUFFICES ASSUME NEW k \in 1..a + b PROVE Placed(chain, buffer, u[k], EndOf(u, a + b, k, to))
  BY DEF Tiles
<1>0. /\ \A i \in 1..a : u[i] = s[i] /\ Placed(chain, buffer, s[i], EndOf(s, a, i, q))
      /\ \A i \in 1..b : u[a + i] = t[i] /\ Placed(chain, buffer, t[i], EndOf(t, b, i, to))
  BY DEF Joins, Tiles
<1>1. CASE k < a
  <2>1. k \in 1..a /\ k + 1 \in 1..a /\ k < a + b
    BY <1>1
  <2>2. EndOf(u, a + b, k, to) = u[k + 1] .at /\ EndOf(s, a, k, q) = s[k + 1].at
    BY <1>1, <2>1, Zenon DEF EndOf
  <2> QED
    BY <1>0, <2>1, <2>2
<1>2. CASE k = a
  <2>1. k \in 1..a
    BY <1>2
  <2>2. EndOf(s, a, k, q) = q
    BY <1>2 DEF EndOf
  <2>3. EndOf(u, a + b, k, to) = q
    <3>1. CASE b = 0
      <4>1. ~(k < a + b)
        BY <1>2, <3>1
      <4>2. q = to
        BY <3>1 DEF Begins
      <4> QED
        BY <4>1, <4>2, Zenon DEF EndOf
    <3>2. CASE b # 0
      <4>1. k < a + b /\ k + 1 = a + 1 /\ 1 \in 1..b
        BY <1>2, <3>2
      <4>2. u[k + 1] = t[1]
        BY <1>0, <4>1
      <4>3. t[1].at = q
        BY <3>2 DEF Begins
      <4> QED
        BY <4>1, <4>2, <4>3, Zenon DEF EndOf
    <3> QED
      BY <3>1, <3>2
  <2> QED
    BY <1>0, <2>1, <2>2, <2>3
<1>3. CASE k > a
  <2> DEFINE i == k - a
  <2>1. i \in 1..b /\ a + i = k /\ (i < b <=> k < a + b) /\ (i < b => i + 1 \in 1..b /\ a + (i + 1) = k + 1)
    BY <1>3
  <2> HIDE DEF i
  <2>2. u[k] = t[i] /\ Placed(chain, buffer, t[i], EndOf(t, b, i, to)) /\ (i < b => u[k + 1] = t[i + 1])
    BY <1>0, <2>1
  <2>3. EndOf(u, a + b, k, to) = EndOf(t, b, i, to)
    BY <2>1, <2>2, Zenon DEF EndOf
  <2> QED
    BY <2>2, <2>3
<1>4. k < a \/ k = a \/ k > a
  OBVIOUS
<1> QED
  BY <1>1, <1>2, <1>3, <1>4

\* So does any part.
LEMMA TilesPart ==
  ASSUME NEW chain, NEW buffer, NEW s, NEW n \in Nat, NEW to, Tiles(chain, buffer, s, n, to),
         NEW d \in Nat, NEW e \in Nat, d <= e, e <= n, NEW u, IsPart(u, s, d, e)
  PROVE  Tiles(chain, buffer, u, e - d, EndOf(s, n, e, to))
<1> DEFINE q == EndOf(s, n, e, to)
<1> SUFFICES ASSUME NEW k \in 1..e - d PROVE Placed(chain, buffer, u[k], EndOf(u, e - d, k, q))
  BY DEF Tiles
<1>1. \A i \in 1..e - d : u[i] = s[d + i]
  BY DEF IsPart
<1> DEFINE j == d + k
<1>2. j \in 1..n /\ u[k] = s[j]
  BY <1>1
<1>3. Placed(chain, buffer, s[j], EndOf(s, n, j, to))
  BY <1>2 DEF Tiles
<1>4. EndOf(u, e - d, k, q) = EndOf(s, n, j, to)
  <2>1. CASE k < e - d
    <3>1. k + 1 \in 1..e - d /\ d + (k + 1) = j + 1 /\ j < n
      BY <2>1
    <3>2. u[k + 1] = s[j + 1]
      BY <1>1, <3>1
    <3> HIDE DEF j, q
    <3> QED
      BY <2>1, <3>1, <3>2, Zenon DEF EndOf
  <2>2. CASE ~(k < e - d)
    <3>1. j = e
      BY <2>2
    <3>2. EndOf(u, e - d, k, q) = q
      BY <2>2, Zenon DEF EndOf
    <3> QED
      BY <3>1, <3>2
  <2> QED
    BY <2>1, <2>2
<1> HIDE DEF j, q
<1> QED
  BY <1>2, <1>3, <1>4 DEF q

\* The items of a range tile it, from any place on.
LEMMA ItemsTiled ==
  ASSUME NEW chain, KnownChain(chain), NEW buffer \in Seq(0..255), NEW to \in 0..Len(buffer)
  PROVE  \A p \in 0..to : \A n \in Nat :
           LongAs(AllItems(chain, buffer, to)[p], n)
             => Tiles(chain, buffer, AllItems(chain, buffer, to)[p], n, to)
<1> DEFINE F == AllItems(chain, buffer, to)
           Good(p) == \A n \in Nat : LongAs(F[p], n) => Tiles(chain, buffer, F[p], n, to)
           T == {d \in Nat : \A p \in 0..to : to - p <= d => Good(p)}
<1>e. chain.encoding \in Encodings
  BY DEF KnownChain
<1>n. to \in Nat
  BY LenProperties
<1>f. \A p \in 0..to : F[p] = Items(chain, buffer, p, to)
  BY DEF AllItems
<1>b. \A p \in 0..to : \E n \in Nat : LongAs(F[p], n) /\ Begins(F[p], n, p, to)
  <2> SUFFICES ASSUME NEW p \in 0..to PROVE \E n \in Nat : LongAs(F[p], n) /\ Begins(F[p], n, p, to)
    OBVIOUS
  <2>1. PICK n \in 0..to - p : ItemsFrom(F[p], n, F, p, to)
    BY <1>e, <1>n, ItemsShape
  <2> HIDE DEF F
  <2>2. LongAs(F[p], n) /\ n \in Nat
    BY <1>n, <2>1 DEF ItemsFrom
  <2>3. p < to => n >= 1 /\ F[p][1].at = p
    BY <2>1 DEF ItemsFrom
  <2>4. p = to => n = 0
    BY <1>n
  <2>5. Begins(F[p], n, p, to)
    BY <1>n, <2>3, <2>4 DEF Begins
  <2> QED
    BY <2>2, <2>5
<1> HIDE DEF F, Good
<1>1. \A p \in 0..to : p = to => Good(p)
  <2> SUFFICES ASSUME NEW p \in 0..to, p = to PROVE Good(p)
    OBVIOUS
  <2> SUFFICES ASSUME NEW n \in Nat, LongAs(F[p], n) PROVE Tiles(chain, buffer, F[p], n, to)
    BY DEF Good
  <2>1. F[p] = <<>>
    BY <1>e, <1>f, <1>n, ItemsUnfold, ZenonT(60)
  <2>2. LongAs(F[p], 0)
    BY <2>1, NoElement
  <2>3. n = 0
    BY <2>2 DEF LongAs
  <2>4. 1..0 = {}
    OBVIOUS
  <2> QED
    BY <2>3, <2>4 DEF Tiles
<1>2. 0 \in T
  <2>1. \A p \in 0..to : to - p <= 0 => p = to
    BY <1>n
  <2> QED
    BY <1>1, <2>1
<1>3. ASSUME NEW d \in T PROVE d + 1 \in T
  <2>0. d \in Nat /\ d + 1 \in Nat /\ \A p \in 0..to : to - p <= d => Good(p)
    OBVIOUS
  <2> SUFFICES ASSUME NEW p \in 0..to, to - p <= d + 1 PROVE Good(p)
    BY <2>0
  <2>1. CASE p = to
    BY <1>1, <2>1
  <2>2. CASE p # to
    <3> DEFINE w == Width(chain, buffer, p, to)
               x == ItemAt(chain, buffer, p, to)
               q == p + w
    <3>1. p \in 0..to - 1
      BY <1>n, <2>2
    <3>2. w \in 1..to - p
      BY <1>e, <1>n, <3>1, ItemFits
    <3>3. F[p] = <<x>> \o Items(chain, buffer, q, to)
      BY <1>e, <1>f, <1>n, <2>2, ItemsUnfold
    <3>c. Placed(chain, buffer, x, q)
      BY <3>1, ItemPlaced
    <3> HIDE DEF w, x
    <3>4. q \in 0..to /\ to - q <= d
      BY <1>n, <2>0, <3>2
    <3> HIDE DEF q
    <3>5. Good(q)
      BY <2>0, <3>4
    <3>6. F[p] = <<x>> \o F[q]
      BY <1>f, <3>3, <3>4
    <3>7. PICK m \in Nat : LongAs(F[q], m) /\ Begins(F[q], m, q, to)
      BY <1>b, <3>4
    <3>8. Tiles(chain, buffer, F[q], m, to)
      BY <3>5, <3>7 DEF Good
    <3>9. LongAs(<<x>>, 1) /\ <<x>>[1] = x /\ 1 \in Nat
      BY OneElement
    <3> DEFINE t == F[q]
               one == <<x>>
    <3> HIDE DEF t, one
    <3>10. Joins(F[p], one, 1, t, m)
      <4>1. Joins(one \o t, one, 1, t, m)
        BY <3>7, <3>9, JoinSequences DEF t, one
      <4> QED
        BY <3>6, <4>1 DEF t, one
    <3>11. Tiles(chain, buffer, one, 1, q)
      <4>1. \A k \in 1..1 : k = 1
        OBVIOUS
      <4>2. EndOf(one, 1, 1, q) = q
        BY DEF EndOf
      <4> QED
        BY <3>c, <3>9, <4>1, <4>2 DEF Tiles, one
    <3>12. Tiles(chain, buffer, F[p], 1 + m, to)
      BY <3>7, <3>8, <3>9, <3>10, <3>11, TilesJoined DEF t
    <3>13. \A n : LongAs(F[p], n) => n = 1 + m
      BY <3>10 DEF Joins, LongAs
    <3> QED
      BY <3>12, <3>13 DEF Good
  <2> QED
    BY <2>1, <2>2
<1>4. T \subseteq Nat
  OBVIOUS
<1> HIDE DEF T
<1>5. \A d \in Nat : d \in T
  BY <1>2, <1>3, <1>4, InductionOnNat
<1>6. ASSUME NEW p \in 0..to PROVE Good(p)
  <2>1. to \in T /\ to - p <= to
    BY <1>5, <1>n
  <2> QED
    BY <2>1 DEF T
<1> QED
  BY <1>6 DEF Good, F

\* Padding is bytes as they are in the buffer, side by side.
LEMMA PaddingTiles ==
  ASSUME NEW chain, NEW buffer \in Seq(0..255), NEW l \in 0..Len(buffer), NEW pad \in 0..l
  PROVE  LET r == [k \in 1..pad |-> BadByte(buffer[l - pad + k], l - pad + k - 1)]
         IN LongAs(r, pad) /\ Tiles(chain, buffer, r, pad, l)
<1> DEFINE r == [k \in 1..pad |-> BadByte(buffer[l - pad + k], l - pad + k - 1)]
<1>0. Len(buffer) \in Nat /\ \A k \in 1..Len(buffer) : buffer[k] \in 0..255
  BY LenProperties, ElementOfSeq, SMTT(60)
<1>1. l \in Nat /\ pad \in Nat
  BY <1>0
<1>2. \A k \in 1..pad : r[k] = BadByte(buffer[l - pad + k], l - pad + k - 1)
  OBVIOUS
<1>3. LongAs(r, pad)
  <2>1. r = [k \in 1..pad |-> r[k]]
    OBVIOUS
  <2> HIDE DEF r
  <2> QED
    BY <1>1, <2>1, SequenceMeans
<1> HIDE DEF r
<1>4. ASSUME NEW k \in 1..pad PROVE Placed(chain, buffer, r[k], EndOf(r, pad, k, l))
  <2> DEFINE j == l - pad + k
             item == r[k]
             b == buffer[j]
             next == EndOf(r, pad, k, l)
  <2>1. j \in 1..Len(buffer) /\ (k = pad => j = l)
    BY <1>0, <1>1
  <2>2. item = BadByte(b, j - 1)
    BY <1>2
  <2>3. item.val = -b - 1 /\ item.at = j - 1
    BY <2>2 DEF BadByte, Item
  <2>4. next = j
    <3>1. CASE k < pad
      <4>1. k + 1 \in 1..pad /\ l - pad + (k + 1) - 1 = j
        BY <1>1, <3>1
      <4>2. r[k + 1].at = l - pad + (k + 1) - 1
        <5>1. r[k + 1] = BadByte(buffer[l - pad + (k + 1)], l - pad + (k + 1) - 1)
          BY <1>2, <4>1
        <5> QED
          BY <5>1 DEF BadByte, Item
      <4> QED
        BY <3>1, <4>1, <4>2 DEF EndOf
    <3>2. CASE ~(k < pad)
      BY <1>1, <2>1, <3>2 DEF EndOf
    <3> QED
      BY <3>1, <3>2
  <2>5. b \in 0..255
    BY <1>0, <2>1
  <2> DEFINE B == SubSeq(buffer, (j - 1) + 1, j)
  <2> HIDE DEF item, b, next
  <2>6. Len(B) = 1 /\ B[1] = b
    <3> DEFINE i == j - 1
    <3>1. i \in Nat /\ j \in Nat /\ i <= j /\ j <= Len(buffer) /\ j - i = 1 /\ i + 1 = j
      BY <1>0, <2>1
    <3> HIDE DEF j, i
    <3>2. LongAs(buffer, Len(buffer))
      BY SeqIsSequence DEF LongAs
    <3>3. IsPart(SubSeq(buffer, i + 1, j), buffer, i, j)
      BY <1>0, <3>1, <3>2, PartOfSequence
    <3>4. LongAs(SubSeq(buffer, i + 1, j), 1) /\ SubSeq(buffer, i + 1, j)[1] = buffer[i + 1]
      <4> DEFINE u == SubSeq(buffer, i + 1, j)
      <4>1. LongAs(u, j - i) /\ \A k0 \in 1..j - i : u[k0] = buffer[i + k0]
        BY <3>3 DEF IsPart
      <4> HIDE DEF u
      <4>2. LongAs(u, 1) /\ \A k0 \in 1..1 : u[k0] = buffer[i + k0]
        BY <3>1, <4>1
      <4>3. 1 \in 1..1
        OBVIOUS
      <4> QED
        BY <4>2, <4>3 DEF u
    <3> QED
      BY <3>1, <3>4 DEF LongAs, b, i
  <2>7. B = SubSeq(buffer, item.at + 1, next)
    BY <2>3, <2>4
  <2>8. item.val < 0 /\ -item.val - 1 = b /\ Known(item.val)
    <3> DEFINE v == item.val
    <3>1. v = -b - 1 /\ b \in Nat
      BY <2>3, <2>5
    <3> HIDE DEF v
    <3>2. v < 0 /\ -v - 1 = b /\ v \in Int /\ ~(v >= 0)
      BY <3>1
    <3>3. Known(v)
      BY <3>2 DEF Known
    <3> QED
      BY <3>2, <3>3 DEF v
  <2> HIDE DEF B
  <2>9. IsBad(item)
    BY <2>8 DEF IsBad
  <2>10. Len(SubSeq(buffer, item.at + 1, next)) = 1 /\ -item.val - 1 = SubSeq(buffer, item.at + 1, next)[1]
    BY <2>6, <2>7, <2>8
  <2>11. Placed(chain, buffer, item, next)
    BY <2>8, <2>9, <2>10, BadCovers DEF Placed
  <2> QED
    BY <2>11 DEF item, next
<1> QED
  BY <1>3, <1>4 DEF Tiles, r

\* Every candidate lies side by side up to the hit.
LEMMA CandidateTiles ==
  ASSUME NEW chain, KnownChain(chain), NEW buffer \in Seq(0..255), NEW hbeg \in 0..Len(buffer),
         NEW l \in 0..hbeg, NEW leading \in Nat
  PROVE  \E m \in Nat : LET s == LeadingFrom(chain, buffer, l, hbeg, leading).items
                        IN LongAs(s, m) /\ Tiles(chain, buffer, s, m, hbeg)
<1> DEFINE t == Items(chain, buffer, l, hbeg)
           pad == Min({l, Max({0, leading - Len(t)})})
           r == [k \in 1..pad |-> BadByte(buffer[l - pad + k], l - pad + k - 1)]
           s == LeadingFrom(chain, buffer, l, hbeg, leading).items
<1>0. hbeg \in Nat /\ l \in 0..Len(buffer) /\ l \in Nat /\ chain.encoding \in Encodings
  BY LenProperties DEF KnownChain
<1>1. s = r \o t
  BY DEF LeadingFrom, Padded, Lead
<1>2. PICK n \in 0..hbeg - l : ItemsFrom(AllItems(chain, buffer, hbeg)[l], n, AllItems(chain, buffer, hbeg), l, hbeg)
  BY <1>0, ItemsShape
<1>3. AllItems(chain, buffer, hbeg)[l] = t
  BY <1>0 DEF AllItems
<1> HIDE DEF t
<1>4. LongAs(t, n) /\ n \in Nat /\ Begins(t, n, l, hbeg)
  <2>1. LongAs(t, n) /\ (l < hbeg => n >= 1 /\ t[1].at = l)
    BY <1>2, <1>3 DEF ItemsFrom
  <2>2. n \in Nat /\ (l = hbeg => n = 0) /\ (l < hbeg \/ l = hbeg)
    BY <1>0
  <2> QED
    BY <2>1, <2>2 DEF Begins
<1>5. Tiles(chain, buffer, t, n, hbeg)
  BY <1>0, <1>3, <1>4, ItemsTiled
<1>6. pad \in 0..l
  <2> DEFINE x == Max({0, leading - Len(t)})
  <2>1. Len(t) = n
    BY <1>4 DEF LongAs
  <2>2. leading - n \in Int /\ 0 \in Int
    BY <1>4
  <2>3. x = IF 0 <= leading - n THEN leading - n ELSE 0
    BY <2>1, <2>2, MinOfTwo
  <2> HIDE DEF x
  <2>4. x \in Int /\ x >= 0 /\ l \in Int
    BY <1>0, <2>2, <2>3
  <2>5. Min({l, x}) = IF l <= x THEN l ELSE x
    BY <2>4, MinOfTwo
  <2> QED
    BY <1>0, <2>4, <2>5 DEF x
<1> HIDE DEF pad
<1>7. LongAs(r, pad) /\ Tiles(chain, buffer, r, pad, l)
  BY <1>0, <1>6, PaddingTiles
<1> HIDE DEF r, s
<1>8. pad \in Nat
  BY <1>0, <1>6
<1>9. Joins(s, r, pad, t, n)
  BY <1>1, <1>4, <1>7, <1>8, JoinSequences
<1>10. LongAs(s, pad + n) /\ pad + n \in Nat
  BY <1>4, <1>8, <1>9 DEF Joins
<1>11. Tiles(chain, buffer, s, pad + n, hbeg)
  BY <1>4, <1>5, <1>7, <1>8, <1>9, TilesJoined
<1> QED
  BY <1>10, <1>11 DEF s

\* So does what is shown of a leading context.
LEMMA FrontTiles ==
  ASSUME NEW chain, KnownChain(chain), NEW buffer \in Seq(0..255), Len(buffer) <= UIntMax,
         NEW hbeg \in 0..Len(buffer), NEW leading \in Nat
  PROVE  \E f \in Nat : LET s == LastOf(Leading(chain, buffer, hbeg, leading).items, leading)
                        IN LongAs(s, f) /\ Tiles(chain, buffer, s, f, hbeg)
<1> DEFINE x == Leading(chain, buffer, hbeg, leading)
           s == x.items
           front == LastOf(s, leading)
<1>0. Len(buffer) \in Nat /\ hbeg \in Nat /\ hbeg <= UIntMax /\ chain.encoding \in Encodings
  BY LenProperties, UIntMaxAssumption DEF KnownChain
<1>1. PICK tried : BestOfStarts(x, chain, buffer, hbeg, leading, tried)
  BY <1>0, LeadingIsBest
<1> HIDE DEF x
<1>2. \E m \in Nat : LongAs(s, m) /\ Tiles(chain, buffer, s, m, hbeg)
  <2>1. CASE tried = 0
    <3>1. s = <<>>
      BY <1>1, <2>1 DEF BestOfStarts, NoLead
    <3>2. LongAs(s, 0) /\ 0 \in Nat
      BY <3>1, NoElement
    <3>3. Tiles(chain, buffer, s, 0, hbeg)
      <4>1. 1..0 = {}
        OBVIOUS
      <4> QED
        BY <4>1 DEF Tiles
    <3> QED
      BY <3>2, <3>3
  <2>2. CASE tried # 0
    <3>1. tried \in 0..hbeg /\ IsBest(x, Starts(chain, buffer, hbeg, leading, tried), tried)
      BY <1>1, <2>2 DEF BestOfStarts
    <3>2. PICK k \in 1..tried : x = Starts(chain, buffer, hbeg, leading, tried)[k]
      BY <3>1 DEF IsBest
    <3>3. x = LeadingFrom(chain, buffer, hbeg - k, hbeg, leading)
      BY <3>2 DEF Starts
    <3>4. hbeg - k \in 0..hbeg
      BY <1>0, <3>1
    <3> QED
      BY <3>3, <3>4, CandidateTiles
  <2> QED
    BY <2>1, <2>2
<1>3. PICK m \in Nat : LongAs(s, m) /\ Tiles(chain, buffer, s, m, hbeg)
  BY <1>2
<1> HIDE DEF s
<1> DEFINE d == IF m > leading THEN m - leading ELSE 0
           f == m - d
<1>4. d \in Nat /\ d <= m /\ f \in Nat /\ m <= m
  OBVIOUS
<1>5. front = SubSeq(s, d + 1, m)
  <2>1. Len(s) = m
    BY <1>3 DEF LongAs
  <2>2. 1 \in Int /\ m - leading + 1 \in Int
    OBVIOUS
  <2>3. Max({1, m - leading + 1}) = IF 1 <= m - leading + 1 THEN m - leading + 1 ELSE 1
    BY <2>2, MinOfTwo
  <2>4. Max({1, m - leading + 1}) = d + 1
    BY <2>3
  <2> QED
    BY <2>1, <2>4 DEF LastOf
<1> HIDE DEF d, front
<1>6. IsPart(front, s, d, m)
  BY <1>3, <1>4, <1>5, PartOfSequence
<1>7. LongAs(front, f)
  BY <1>6 DEF IsPart
<1>8. Tiles(chain, buffer, front, f, hbeg)
  <2>1. EndOf(s, m, m, hbeg) = hbeg
    BY DEF EndOf
  <2>2. Tiles(chain, buffer, front, m - d, EndOf(s, m, m, hbeg))
    BY <1>3, <1>4, <1>6, TilesPart
  <2> QED
    BY <2>1, <2>2
<1> QED
  BY <1>4, <1>7, <1>8 DEF front, s, x

\* A window of parts side by side is tiled.
LEMMA WindowTiles ==
  ASSUME NEW chain, NEW buffer, NEW hbeg, NEW top, NEW invBad,
         NEW f \in Nat, NEW front, LongAs(front, f), Tiles(chain, buffer, front, f, hbeg),
         NEW n \in Nat, NEW all, LongAs(all, n), Tiles(chain, buffer, all, n, top), Begins(all, n, hbeg, top),
         NEW h \in 0..n, NEW hit, hit = SubSeq(all, 1, h), NEW rest, rest = SubSeq(all, h + 1, n),
         NEW taken \in 0..n - h, NEW items, items = Window(front, invBad, hit, rest, taken, top).items
  PROVE  \A k \in 1..Len(items) - 1 : Placed(chain, buffer, items[k], items[k + 1].at)
<1> DEFINE some == SubSeq(rest, 1, taken)
           back == hit \o some
           body == front \o back
           x == Item(WindowEnd, IF taken < Len(rest) THEN rest[taken + 1].at ELSE top)
           last == <<x>>
           b == h + taken
           q == EndOf(all, n, b, top)
<1>0. h \in Nat /\ taken \in Nat /\ b \in Nat /\ b <= n /\ h <= n /\ h <= b /\ 0 \in Nat /\ 0 <= h /\ n <= n
  OBVIOUS
<1>1. items = body \o last
  BY DEF Window
<1>2. LongAs(hit, h) /\ \A k \in 1..h : hit[k] = all[k]
  <2>1. IsPart(SubSeq(all, 0 + 1, h), all, 0, h)
    BY <1>0, PartOfSequence
  <2>2. h - 0 = h /\ 0 + 1 = 1 /\ \A k \in 1..h : 0 + k = k
    BY <1>0
  <2> QED
    BY <2>1, <2>2 DEF IsPart
<1>3. LongAs(rest, n - h) /\ \A k \in 1..n - h : rest[k] = all[h + k]
  <2>1. IsPart(SubSeq(all, h + 1, n), all, h, n)
    BY <1>0, PartOfSequence
  <2> QED
    BY <2>1 DEF IsPart
<1>4. LongAs(some, taken) /\ \A k \in 1..taken : some[k] = all[h + k]
  <2>0. taken <= n - h /\ n - h \in Nat /\ 0 <= taken
    BY <1>0
  <2>1. IsPart(SubSeq(rest, 0 + 1, taken), rest, 0, taken)
    BY <1>0, <1>3, <2>0, PartOfSequence
  <2>2. taken - 0 = taken /\ 0 + 1 = 1 /\ \A k \in 1..taken : 0 + k = k /\ k \in 1..n - h
    BY <1>0, <2>0
  <2>3. LongAs(some, taken) /\ \A k \in 1..taken : some[k] = rest[k]
    BY <2>1, <2>2 DEF IsPart
  <2> HIDE DEF some
  <2> QED
    BY <1>3, <2>2, <2>3
<1>5. x.at = q
  <2>1. Len(rest) = n - h
    BY <1>3 DEF LongAs
  <2>2. taken < n - h <=> b < n
    BY <1>0
  <2>3. taken < n - h => taken + 1 \in 1..n - h /\ h + (taken + 1) = b + 1
    BY <1>0
  <2>4. taken < n - h => rest[taken + 1] = all[b + 1]
    BY <1>3, <2>3
  <2>5. x.at = IF taken < n - h THEN rest[taken + 1].at ELSE top
    BY <2>1 DEF Item
  <2> HIDE DEF x, b
  <2> QED
    BY <2>2, <2>4, <2>5 DEF EndOf
<1> HIDE DEF some
<1>6. Joins(back, hit, h, some, taken)
  BY <1>0, <1>2, <1>4, JoinSequences
<1> HIDE DEF back
<1>7. LongAs(back, b) /\ \A k \in 1..b : back[k] = all[k]
  <2>1. LongAs(back, b)
    BY <1>6 DEF Joins
  <2> SUFFICES ASSUME NEW k \in 1..b PROVE back[k] = all[k]
    BY <2>1
  <2>2. CASE k \in 1..h
    <3>1. back[k] = hit[k]
      BY <1>6, <2>2 DEF Joins
    <3> QED
      BY <1>2, <2>2, <3>1
  <2>3. CASE k \notin 1..h
    <3>1. k - h \in 1..taken /\ h + (k - h) = k
      BY <1>0, <2>3
    <3>2. back[h + (k - h)] = some[k - h]
      BY <1>6, <3>1 DEF Joins
    <3> QED
      BY <1>4, <3>1, <3>2
  <2> QED
    BY <2>2, <2>3
<1>8. Tiles(chain, buffer, back, b, q)
  <2>1. b - 0 = b /\ \A k \in 1..b : 0 + k = k
    BY <1>0
  <2>2. IsPart(back, all, 0, b)
    BY <1>7, <2>1 DEF IsPart
  <2>3. 0 <= b
    BY <1>0
  <2> HIDE DEF b
  <2>4. Tiles(chain, buffer, back, b - 0, q)
    BY <1>0, <2>2, <2>3, TilesPart
  <2> QED
    BY <2>1, <2>4
<1>9. Begins(back, b, hbeg, q)
  <2>1. CASE b = 0
    <3>1. q = IF 0 < n THEN all[1].at ELSE top
      <4>1. 0 + 1 = 1
        OBVIOUS
      <4> QED
        BY <2>1, <4>1 DEF EndOf
    <3>2. n = 0 \/ 0 < n
      OBVIOUS
    <3>3. q = hbeg
      BY <3>1, <3>2 DEF Begins
    <3> QED
      BY <2>1, <3>3 DEF Begins
  <2>2. CASE b # 0
    <3>1. 1 \in 1..b /\ n # 0
      BY <1>0, <2>2
    <3>2. back[1].at = hbeg
      BY <1>7, <3>1 DEF Begins
    <3> QED
      BY <2>2, <3>2 DEF Begins
  <2> QED
    BY <2>1, <2>2
<1> HIDE DEF body, b, q, x
<1>10. Joins(body, front, f, back, b)
  BY <1>0, <1>7, JoinSequences DEF body
<1> DEFINE m == f + b
<1>11. LongAs(body, m) /\ m \in Nat
  BY <1>0, <1>10 DEF Joins
<1>12. Tiles(chain, buffer, body, m, q)
  BY <1>0, <1>8, <1>9, <1>10, TilesJoined
<1> HIDE DEF m
<1>13. LongAs(last, 1) /\ last[1] = x
  BY OneElement
<1> HIDE DEF last
<1>14. Joins(items, body, m, last, 1)
  BY <1>1, <1>11, <1>13, JoinSequences
<1>15. /\ Len(items) - 1 = m /\ \A k \in 1..m : items[k] = body[k]
       /\ items[m + 1].at = q
  <2>1. LongAs(items, m + 1) /\ 1 \in 1..1
    BY <1>14 DEF Joins
  <2>2. Len(items) = m + 1
    BY <2>1 DEF LongAs
  <2>3. items[m + 1] = last[1]
    BY <1>14, <2>1 DEF Joins
  <2>4. \A k \in 1..m : items[k] = body[k]
    BY <1>14 DEF Joins
  <2> QED
    BY <1>5, <1>11, <1>13, <2>2, <2>3, <2>4
<1>16. ASSUME NEW k \in 1..m PROVE Placed(chain, buffer, items[k], items[k + 1].at)
  <2>1. Placed(chain, buffer, body[k], EndOf(body, m, k, q))
    BY <1>12 DEF Tiles
  <2>2. EndOf(body, m, k, q) = items[k + 1].at
    <3>1. CASE k < m
      <4>1. k + 1 \in 1..m
        BY <1>11, <3>1
      <4> QED
        BY <1>15, <3>1, <4>1 DEF EndOf
    <3>2. CASE ~(k < m)
      <4>1. k = m
        BY <1>11, <3>2
      <4> QED
        BY <1>15, <3>2, <4>1 DEF EndOf
    <3> QED
      BY <3>1, <3>2
  <2>3. items[k] = body[k]
    BY <1>15
  <2> QED
    BY <2>1, <2>2, <2>3
<1> QED
  BY <1>15, <1>16, SMTT(60)

\* What decode gives is such a window.
LEMMA DecodedTiles ==
  ASSUME NEW chain, KnownChain(chain), NEW buffer \in Seq(0..255), Len(buffer) <= UIntMax,
         NEW hbeg \in 0..Len(buffer), NEW hend \in hbeg..Len(buffer),
         NEW leading \in Nat, NEW trailing \in Nat,
         NEW w, w = Decode(chain, buffer, hbeg, hend, leading, trailing)
  PROVE  \A k \in 1..Len(w.items) - 1 : Placed(chain, buffer, w.items[k], w.items[k + 1].at)
<1> DEFINE lead == Leading(chain, buffer, hbeg, leading)
           top == Min({hend + trailing * MaxByteLength(chain), Len(buffer)})
           all == Items(chain, buffer, hbeg, top)
           h == HitLength(all, hend)
           hit == SubSeq(all, 1, h)
           rest == SubSeq(all, h + 1, Len(all))
           taken == Taken(rest, trailing)
           front == LastOf(lead.items, leading)
           items == w.items
<1>0. Len(buffer) \in Nat /\ hbeg \in Nat /\ hend \in Nat /\ hbeg <= hend /\ hend <= Len(buffer)
      /\ chain.encoding \in Encodings
  BY LenProperties DEF KnownChain
<1>1. top \in hend..Len(buffer)
  <2> DEFINE x == hend + trailing * MaxByteLength(chain)
             size == Len(buffer)
  <2> HIDE DEF size
  <2>1. x \in Int /\ x >= hend
    BY <1>0 DEF MaxByteLength
  <2> HIDE DEF x
  <2>2. size \in Int
    BY <1>0 DEF size
  <2>3. Min({x, size}) = IF x <= size THEN x ELSE size
    BY <2>1, <2>2, MinOfTwo
  <2> QED
    BY <1>0, <2>1, <2>2, <2>3 DEF x, size
<1>2. items = Window(front, lead.invBad, hit, rest, taken, top).items
  BY DEF Decode, WithTrailing, WindowAround
<1>3. PICK f \in Nat : LongAs(front, f) /\ Tiles(chain, buffer, front, f, hbeg)
  BY FrontTiles
<1> HIDE DEF top, front, lead
<1>4. top \in Nat /\ hbeg \in 0..top /\ top \in 0..Len(buffer) /\ all = AllItems(chain, buffer, top)[hbeg]
  BY <1>0, <1>1 DEF AllItems
<1> HIDE DEF all
<1>5. PICK n \in 0..top - hbeg :
        ItemsFrom(AllItems(chain, buffer, top)[hbeg], n, AllItems(chain, buffer, top), hbeg, top)
  BY <1>0, <1>4, ItemsShape
<1>6. /\ n \in Nat /\ LongAs(all, n) /\ Begins(all, n, hbeg, top)
      /\ \A k \in 1..n : all[k].at \in Nat
      /\ \A i, j \in 1..n : i < j => all[i].at < all[j].at
  <2>1. /\ LongAs(all, n) /\ (hbeg < top => n >= 1 /\ all[1].at = hbeg)
        /\ \A k \in 1..n : all[k].at \in hbeg..top - 1
        /\ \A i, j \in 1..n : i < j => all[i].at < all[j].at
    BY <1>4, <1>5 DEF ItemsFrom
  <2>2. n \in Nat /\ (hbeg = top => n = 0) /\ (hbeg < top \/ hbeg = top)
    BY <1>0, <1>4
  <2>3. Begins(all, n, hbeg, top)
    BY <2>1, <2>2 DEF Begins
  <2>4. \A a \in hbeg..top - 1 : a \in Nat
    BY <1>0, <1>4
  <2> QED
    BY <2>1, <2>2, <2>3, <2>4
<1>7. Tiles(chain, buffer, all, n, top)
  BY <1>4, <1>6, ItemsTiled
<1>8. h \in 0..n
  BY <1>0, <1>6, HitPart
<1> HIDE DEF h
<1>9. rest = SubSeq(all, h + 1, n) /\ LongAs(rest, n - h)
  <2>1. Len(all) = n
    BY <1>6 DEF LongAs
  <2>2. h \in Nat /\ h <= n /\ n <= n
    BY <1>6, <1>8
  <2>3. IsPart(SubSeq(all, h + 1, n), all, h, n)
    BY <1>6, <2>2, PartOfSequence
  <2> QED
    BY <2>1, <2>3 DEF IsPart
<1> HIDE DEF rest
<1>10. taken \in 0..n - h
  <2>1. n - h \in Nat
    BY <1>6, <1>8
  <2> QED
    BY <1>9, <2>1, TakenFits
<1> HIDE DEF taken, hit, items
<1>11. hit = SubSeq(all, 1, h)
  BY DEF hit
<1>12. \A k \in 1..Len(items) - 1 : Placed(chain, buffer, items[k], items[k + 1].at)
  BY <1>2, <1>3, <1>6, <1>7, <1>8, <1>9, <1>10, <1>11, WindowTiles, ZenonT(60)
<1> QED
  BY <1>12 DEF items

\* The items of every window lie side by side, whatever is in the buffer and wherever decoding
\* began: a character fills the bytes up to the next item with its code, as the encoder of the
\* chain writes it, what is bad fills one byte.
THEOREM ItemsTileAlways == Spec => []ItemsTile
<1>1. ASSUME WindowKept PROVE ItemsTile
  <2> SUFFICES ASSUME call.name = "read"
               PROVE  \A k \in 1..Len(answer.items) - 1 :
                        Covers(input.chain, input.buffer, answer.items[k], answer.items[k + 1].at)
    BY DEF ItemsTile
  <2>1. /\ input \in Inputs
        /\ call.begin \in 0..Len(input.buffer) /\ call.end \in call.begin..Len(input.buffer)
        /\ call.leading \in Nat /\ call.trailing \in Nat
        /\ answer = Decode(input.chain, input.buffer, call.begin, call.end, call.leading, call.trailing)
    BY <1>1 DEF WindowKept
  <2>2. /\ input.chain \in Chains /\ input.buffer \in Seq(0..255) /\ Len(input.buffer) <= UIntMax
    BY <2>1, InputsAssumption
  <2>3. KnownChain(input.chain)
    BY <2>2, ChainsAssumption DEF KnownChain, Encodings
  <2> QED
    BY <2>1, <2>2, <2>3, DecodedTiles, SMTT(60) DEF Placed
<1> QED
  BY <1>1, WindowKeptAlways, PTL
=============================================================================
