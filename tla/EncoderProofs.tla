------------------------------ MODULE EncoderProofs ------------------------------
(***************************************************************************)
(* Proofs about what an encoder writes for a set of code points: the codes *)
(* of its members and nothing else, however these were collected in ranges *)
(* and collapsed; hence what a class, and the negated class, accepts.      *)
(***************************************************************************)
EXTENDS ContextProofs
-----------------------------------------------------------------------------
(* Lists of the elements of a finite set.                                  *)

\* s has the elements of S and no other.
Lists(s, S) ==
  \E n \in Nat : /\ LongAs(s, n)
                 /\ \A k \in 1..n : s[k] \in S
                 /\ \A x \in S : \E k \in 1..n : s[k] = x

\* What a function makes of a finite set is finite.
LEMMA FiniteImage ==
  ASSUME NEW S, IsFiniteSet(S), NEW f, DOMAIN f = S
  PROVE  IsFiniteSet({f[x] : x \in S})
<1> DEFINE T == {f[x] : x \in S}
           g == [x \in S |-> f[x]]
<1>1. g \in Surjection(S, T)
  BY DEF Surjection
<1> HIDE DEF T, g
<1>2. IsFiniteSet(T)
  BY <1>1, FS_Surjection
<1> QED
  BY <1>2 DEF T

\* Numbers by their rank.
LEMMA AscendingLists ==
  ASSUME NEW S, S \subseteq Int, IsFiniteSet(S)
  PROVE  Lists(Ascending(S), S)
<1> DEFINE n == Cardinality(S)
           UpTo(x) == {y \in S : y <= x}
           rank == [x \in S |-> Cardinality(UpTo(x))]
           s == Ascending(S)
<1>1. n \in Nat
  BY FS_CardinalityType
<1>2. ASSUME NEW x \in S
      PROVE  IsFiniteSet(UpTo(x)) /\ Cardinality(UpTo(x)) \in 1..n
  <2>1. UpTo(x) \in SUBSET S /\ x \in UpTo(x)
    BY <1>2
  <2> HIDE DEF UpTo
  <2>2. IsFiniteSet(UpTo(x)) /\ Cardinality(UpTo(x)) <= n
    BY <2>1, FS_Subset
  <2>3. Cardinality(UpTo(x)) \in Nat /\ Cardinality(UpTo(x)) # 0
    BY <2>1, <2>2, FS_CardinalityType, FS_EmptySet
  <2> HIDE DEF n
  <2> QED
    BY <1>1, <2>2, <2>3
<1>3. ASSUME NEW x \in S, NEW y \in S, x < y
      PROVE  Cardinality(UpTo(x)) # Cardinality(UpTo(y))
  <2>1. UpTo(x) \in SUBSET UpTo(y) /\ y \in UpTo(y) /\ y \notin UpTo(x)
    <3>1. \A z \in S : z \in Int
      OBVIOUS
    <3>2. \A z \in S : z <= x => z <= y
      BY <1>3, <3>1
    <3>3. ~(y <= x) /\ y <= y
      BY <1>3, <3>1
    <3> HIDE DEF rank, s
    <3> QED
      BY <3>2, <3>3
  <2>2. IsFiniteSet(UpTo(y))
    BY <1>2
  <2> HIDE DEF UpTo
  <2> QED
    BY <2>1, <2>2, FS_Subset
<1>4. rank \in Injection(S, 1..n)
  <2>1. ASSUME NEW x \in S, NEW y \in S, rank[x] = rank[y] PROVE x = y
    <3>1. ~(x < y) /\ ~(y < x)
      BY <1>3, <2>1
    <3> QED
      BY <3>1
  <2>2. rank \in [S -> 1..n]
    BY <1>2
  <2> HIDE DEF rank, n
  <2> QED
    BY <2>1, <2>2 DEF Injection, IsInjective
<1>5. rank \in Surjection(S, 1..n)
  <2>1. IsFiniteSet(1..n) /\ Cardinality(1..n) = n
    BY <1>1, FS_Interval
  <2> HIDE DEF rank
  <2> QED
    BY <1>4, <2>1, FS_Injection
<1>6. s = [k \in 1..n |-> CHOOSE x \in S : rank[x] = k]
  BY DEF Ascending
<1> HIDE DEF rank, s, n
<1>7. ASSUME NEW k \in 1..n PROVE s[k] \in S /\ rank[s[k]] = k
  <2>1. \E x \in S : rank[x] = k
    BY <1>5 DEF Surjection
  <2> QED
    BY <1>6, <2>1
<1>8. ASSUME NEW x \in S PROVE rank[x] \in 1..n /\ s[rank[x]] = x
  <2>1. rank[x] \in 1..n
    BY <1>4 DEF Injection
  <2> QED
    BY <1>4, <1>7, <2>1 DEF Injection, IsInjective
<1>9. LongAs(s, n)
  BY <1>1, <1>6, SequenceMeans
<1> QED
  BY <1>1, <1>7, <1>8, <1>9 DEF Lists, s

\* A set without one of its elements, the one that is taken first.
FirstTaken(T) == CHOOSE x \in T : TRUE
OneLess(T) == T \ {FirstTaken(T)}

\* f is what is left of S as n elements are taken one by one, as Listed takes them.
TakesFrom(f, S, n) == f = [k \in 0..n |-> IF k = 0 THEN S ELSE OneLess(f[k - 1])]

\* There is such a function for every number of elements.
LEMMA TakesExist ==
  ASSUME NEW S PROVE \A n \in Nat : \E f : TakesFrom(f, S, n)
<1> DEFINE T == {n \in Nat : \E f : TakesFrom(f, S, n)}
<1>1. 0 \in T
  <2> DEFINE f == [k \in 0..0 |-> S]
  <2>1. f = [k \in 0..0 |-> IF k = 0 THEN S ELSE OneLess(f[k - 1])]
    OBVIOUS
  <2> HIDE DEF f
  <2> QED
    BY <2>1 DEF TakesFrom
<1>2. ASSUME NEW n \in T PROVE n + 1 \in T
  <2>1. PICK f : TakesFrom(f, S, n)
    OBVIOUS
  <2>2. \A k \in 0..n : f[k] = IF k = 0 THEN S ELSE OneLess(f[k - 1])
    BY <2>1 DEF TakesFrom
  <2> DEFINE z == OneLess(f[n])
             g == [k \in 0..n + 1 |-> IF k <= n THEN f[k] ELSE z]
  <2>3. ASSUME NEW k \in 0..n + 1
        PROVE  g[k] = IF k = 0 THEN S ELSE OneLess(g[k - 1])
    <3>1. CASE k <= n
      <4>1. k \in 0..n /\ (k # 0 => k - 1 \in 0..n + 1 /\ k - 1 <= n)
        BY <3>1
      <4> QED
        BY <2>2, <3>1, <4>1
    <3>2. CASE k = n + 1
      <4>1. k - 1 = n /\ k # 0 /\ ~(k <= n) /\ n \in 0..n + 1 /\ n <= n
        BY <3>2
      <4>2. g[k - 1] = f[n] /\ g[k] = z
        BY <4>1
      <4> QED
        BY <3>2, <4>1, <4>2
    <3> QED
      BY <3>1, <3>2
  <2>4. g = [k \in 0..n + 1 |-> g[k]]
    OBVIOUS
  <2> HIDE DEF g
  <2>5. g = [k \in 0..n + 1 |-> IF k = 0 THEN S ELSE OneLess(g[k - 1])]
    BY <2>3, <2>4
  <2>6. TakesFrom(g, S, n + 1)
    BY <2>5 DEF TakesFrom
  <2> QED
    BY <2>6
<1>3. T \subseteq Nat
  OBVIOUS
<1> HIDE DEF T
<1>4. \A n \in Nat : n \in T
  BY <1>1, <1>2, <1>3, InductionOnNat
<1> QED
  BY <1>4 DEF T

\* Elements taken until none is left.
LEMMA ListedLists ==
  ASSUME NEW S, IsFiniteSet(S)
  PROVE  Lists(Listed(S), S) /\ LongAs(Listed(S), Cardinality(S))
<1> DEFINE n == Cardinality(S)
           Left == CHOOSE f : TakesFrom(f, S, n)
           s == Listed(S)
<1>1. n \in Nat
  BY FS_CardinalityType
<1>2. s = [k \in 1..n |-> FirstTaken(Left[k - 1])]
  BY DEF Listed, TakesFrom, OneLess, FirstTaken
<1>3. TakesFrom(Left, S, n)
  <2> HIDE DEF n
  <2> QED
    BY <1>1, TakesExist
<1> HIDE DEF Left, s, n
<1>4. \A k \in 0..n : Left[k] = IF k = 0 THEN S ELSE OneLess(Left[k - 1])
  BY <1>3 DEF TakesFrom
<1> DEFINE Good(k) ==
             /\ Left[k] \subseteq S /\ IsFiniteSet(Left[k]) /\ Cardinality(Left[k]) = n - k
             /\ \A x \in S : x \in Left[k] \/ \E j \in 1..k : s[j] = x
           T == {k \in Nat : k <= n => Good(k)}
<1>5. 0 \in T
  <2>1. Left[0] = S
    BY <1>1, <1>4
  <2>2. Cardinality(S) = n - 0
    BY <1>1 DEF n
  <2> QED
    BY <2>1, <2>2
<1>6. ASSUME NEW k \in T PROVE k + 1 \in T
  <2> SUFFICES ASSUME k + 1 <= n PROVE Good(k + 1)
    OBVIOUS
  <2>1. k \in Nat /\ k <= n /\ k + 1 \in 0..n /\ k + 1 # 0 /\ (k + 1) - 1 = k /\ k + 1 \in 1..n
    BY <1>1
  <2>2. Good(k)
    BY <2>1
  <2>3. Left[k + 1] = OneLess(Left[k])
    BY <1>4, <2>1
  <2>4. s[k + 1] = FirstTaken(Left[k])
    BY <1>2, <2>1
  <2>5. Left[k] # {}
    <3>1. n - k # 0
      BY <1>1, <2>1
    <3> QED
      BY <2>2, <3>1, FS_EmptySet
  <2>6. FirstTaken(Left[k]) \in Left[k]
    BY <2>5 DEF FirstTaken
  <2>7. IsFiniteSet(Left[k + 1]) /\ Cardinality(Left[k + 1]) = Cardinality(Left[k]) - 1
    BY <2>2, <2>3, <2>6, FS_RemoveElement, SMTT(60) DEF OneLess
  <2>8. Cardinality(Left[k + 1]) = n - (k + 1)
    BY <1>1, <2>1, <2>2, <2>7
  <2>9. Left[k + 1] \subseteq S
    BY <2>2, <2>3 DEF OneLess
  <2>10. ASSUME NEW x \in S PROVE x \in Left[k + 1] \/ \E j \in 1..k + 1 : s[j] = x
    <3>1. x \in Left[k] => x \in Left[k + 1] \/ x = s[k + 1]
      BY <2>3, <2>4 DEF OneLess
    <3>2. \A j \in 1..k : j \in 1..k + 1
      BY <2>1
    <3>3. k + 1 \in 1..k + 1
      BY <2>1
    <3> QED
      BY <2>2, <3>1, <3>2, <3>3
  <2> QED
    BY <2>7, <2>8, <2>9, <2>10
<1>7. T \subseteq Nat
  OBVIOUS
<1> HIDE DEF T
<1>8. \A k \in Nat : k \in T
  BY <1>5, <1>6, <1>7, InductionOnNat
<1>9. \A k \in 0..n : Good(k)
  <2> SUFFICES ASSUME NEW k \in 0..n PROVE Good(k)
    OBVIOUS
  <2>1. k \in Nat /\ k <= n
    BY <1>1
  <2> HIDE DEF Good
  <2> QED
    BY <1>8, <2>1 DEF T
<1>10. ASSUME NEW x \in S PROVE \E k \in 1..n : s[k] = x
  <2>1. n \in 0..n /\ n - n = 0
    BY <1>1
  <2>2. Good(n)
    BY <1>9, <2>1
  <2>3. Left[n] = {}
    BY <2>1, <2>2, FS_EmptySet
  <2> QED
    BY <2>2, <2>3
<1>11. ASSUME NEW k \in 1..n PROVE s[k] \in S
  <2>1. k - 1 \in 0..n /\ n - (k - 1) # 0
    BY <1>1
  <2>2. Left[k - 1] # {} /\ Left[k - 1] \subseteq S
    BY <1>9, <2>1, FS_EmptySet
  <2>3. s[k] = FirstTaken(Left[k - 1])
    BY <1>2
  <2> QED
    BY <2>2, <2>3 DEF FirstTaken
<1>12. LongAs(s, n)
  BY <1>1, <1>2, SequenceMeans
<1> QED
  BY <1>1, <1>10, <1>11, <1>12 DEF Lists, s, n

-----------------------------------------------------------------------------
(* Codes, which are sequences of sets of bytes, and what they accept.      *)

IsCode(u) == \E n \in 1..4 : LongAs(u, n)
AreCodes(codes) == \A u \in codes : IsCode(u)
AcceptedBy(codes, s) == \E u \in codes : Fits(u, s)

\* A code fits byte by byte.
LEMMA FitsMeans ==
  ASSUME NEW n \in Nat, NEW u, LongAs(u, n), NEW m \in Nat, NEW s, LongAs(s, m)
  PROVE  Fits(u, s) <=> m = n /\ \A j \in 1..n : s[j] \in u[j]
<1>1. DOMAIN s = 1..m /\ Len(s) = m /\ Len(u) = n
  BY SequenceMeans DEF LongAs
<1> QED
  BY <1>1 DEF Fits

\* w is the code u with what the codes like it but at place p have there.
MergedAt(codes, n, u, w) ==
  LET p == Len(u) - n
  IN /\ LongAs(w, Len(u))
     /\ \A j \in 1..Len(u) : j # p => w[j] = u[j]
     /\ \A b : b \in w[p] <=> \E v \in codes : EqualExceptAt(n, u, v) /\ b \in v[p]

\* What CollapseAt makes of a code that has such a place.
LEMMA MergeMeans ==
  ASSUME NEW n \in Nat, NEW codes, NEW u, IsCode(u), n < Len(u)
  PROVE  MergedAt(codes, n, u,
           [u EXCEPT ![Len(u) - n] = UNION {v[Len(u) - n] : v \in {v \in codes : EqualExceptAt(n, u, v)}}])
<1> DEFINE p == Len(u) - n
           x == UNION {v[p] : v \in {v \in codes : EqualExceptAt(n, u, v)}}
           w == [u EXCEPT ![p] = x]
<1>1. PICK m \in 1..4 : LongAs(u, m)
  BY DEF IsCode
<1>2. m \in Nat /\ Len(u) = m /\ DOMAIN u = 1..m
  BY <1>1, SequenceMeans DEF LongAs
<1>3. p \in 1..m
  BY <1>2
<1>4. \A b : b \in x <=> \E v \in codes : EqualExceptAt(n, u, v) /\ b \in v[p]
  OBVIOUS
<1> HIDE DEF p, x
<1>5. DOMAIN w = 1..m /\ w[p] = x /\ \A j \in 1..m : j # p => w[j] = u[j]
  BY <1>2, <1>3
<1>6. w = [j \in 1..m |-> w[j]]
  BY <1>2, <1>3
<1> HIDE DEF w
<1>7. LongAs(w, m)
  BY <1>2, <1>6, SequenceMeans
<1>8. MergedAt(codes, n, u, w)
  BY <1>2, <1>4, <1>5, <1>7 DEF MergedAt, p
<1> QED
  BY <1>8 DEF w, x, p

\* Codes that are equal but at one place are as long.
LEMMA EqualExceptMeans ==
  ASSUME NEW n \in Nat, NEW m \in Nat, NEW u, LongAs(u, m), NEW k \in Nat, NEW v, LongAs(v, k)
  PROVE  EqualExceptAt(n, u, v) <=> k = m /\ \A j \in 1..m : j # m - n => u[j] = v[j]
<1>1. DOMAIN u = 1..m /\ Len(u) = m /\ Len(v) = k
  BY SequenceMeans DEF LongAs
<1> QED
  BY <1>1 DEF EqualExceptAt

\* The merged code accepts what the codes merged into it do.
LEMMA MergedAccepts ==
  ASSUME NEW n \in Nat, NEW codes, AreCodes(codes), NEW u \in codes, n < Len(u),
         NEW w, MergedAt(codes, n, u, w), NEW m \in Nat, NEW s, LongAs(s, m)
  PROVE  Fits(w, s) <=> \E v \in codes : EqualExceptAt(n, u, v) /\ Fits(v, s)
<1>1. PICK l \in 1..4 : LongAs(u, l)
  BY DEF AreCodes, IsCode
<1> DEFINE p == l - n
<1>2. l \in Nat /\ Len(u) = l /\ p \in 1..l
  BY <1>1 DEF LongAs
<1>3. /\ LongAs(w, l) /\ \A j \in 1..l : j # p => w[j] = u[j]
      /\ \A b : b \in w[p] <=> \E v \in codes : EqualExceptAt(n, u, v) /\ b \in v[p]
  BY <1>2 DEF MergedAt
<1>4. ASSUME NEW v \in codes, EqualExceptAt(n, u, v)
      PROVE  LongAs(v, l) /\ \A j \in 1..l : j # p => u[j] = v[j]
  <2>1. PICK k \in 1..4 : LongAs(v, k)
    BY DEF AreCodes, IsCode
  <2>2. k \in Nat
    OBVIOUS
  <2> QED
    BY <1>1, <1>2, <1>4, <2>1, <2>2, EqualExceptMeans
<1> HIDE DEF p
<1>5. Fits(w, s) <=> m = l /\ \A j \in 1..l : s[j] \in w[j]
  BY <1>2, <1>3, FitsMeans
<1>6. ASSUME Fits(w, s) PROVE \E v \in codes : EqualExceptAt(n, u, v) /\ Fits(v, s)
  <2>1. m = l /\ \A j \in 1..l : s[j] \in w[j]
    BY <1>5, <1>6
  <2>2. PICK v \in codes : EqualExceptAt(n, u, v) /\ s[p] \in v[p]
    BY <1>2, <1>3, <2>1
  <2>3. \A j \in 1..l : s[j] \in v[j]
    BY <1>3, <1>4, <2>1, <2>2
  <2>4. Fits(v, s)
    BY <1>2, <1>4, <2>1, <2>2, <2>3, FitsMeans, ZenonT(60)
  <2> QED
    BY <2>2, <2>4
<1>7. ASSUME NEW v \in codes, EqualExceptAt(n, u, v), Fits(v, s) PROVE Fits(w, s)
  <2>1. LongAs(v, l) /\ \A j \in 1..l : j # p => u[j] = v[j]
    BY <1>4, <1>7
  <2>2. m = l /\ \A j \in 1..l : s[j] \in v[j]
    BY <1>2, <1>7, <2>1, FitsMeans, SMTT(60)
  <2>3. s[p] \in w[p]
    BY <1>2, <1>3, <1>7, <2>2
  <2>4. \A j \in 1..l : s[j] \in w[j]
    BY <1>3, <2>1, <2>2, <2>3
  <2> QED
    BY <1>5, <2>2, <2>4
<1> QED
  BY <1>6, <1>7

\* What CollapseAt makes of one code.
Collapsed(n, codes, u) ==
  IF n < Len(u)
  THEN [u EXCEPT ![Len(u) - n] = UNION {v[Len(u) - n] : v \in {v \in codes : EqualExceptAt(n, u, v)}}]
  ELSE u

\* The codes collapsed at a place are the codes, each collapsed.
LEMMA CollapseMeans ==
  ASSUME NEW n, NEW codes PROVE CollapseAt(n, codes) = {Collapsed(n, codes, u) : u \in codes}
  BY DEF CollapseAt, Collapsed

\* Collapsing codes changes nothing of what they accept.
LEMMA CollapseKeeps ==
  ASSUME NEW n \in Nat, NEW codes, AreCodes(codes)
  PROVE  /\ AreCodes(CollapseAt(n, codes))
         /\ \A m \in Nat : \A s : LongAs(s, m) =>
              (AcceptedBy(CollapseAt(n, codes), s) <=> AcceptedBy(codes, s))
<1>1. ASSUME NEW u \in codes
      PROVE  /\ IsCode(Collapsed(n, codes, u))
             /\ n < Len(u) => MergedAt(codes, n, u, Collapsed(n, codes, u))
             /\ ~(n < Len(u)) => Collapsed(n, codes, u) = u
  <2>1. PICK l \in 1..4 : LongAs(u, l)
    BY DEF AreCodes, IsCode
  <2>2. Len(u) = l
    BY <2>1 DEF LongAs
  <2>3. CASE n < Len(u)
    <3>1. MergedAt(codes, n, u, Collapsed(n, codes, u))
      <4>1. IsCode(u)
        BY DEF AreCodes
      <4>2. Collapsed(n, codes, u)
          = [u EXCEPT ![Len(u) - n] = UNION {v[Len(u) - n] : v \in {v \in codes : EqualExceptAt(n, u, v)}}]
        BY <2>3 DEF Collapsed
      <4>3. MergedAt(codes, n, u, [u EXCEPT ![Len(u) - n] =
            UNION {v[Len(u) - n] : v \in {v \in codes : EqualExceptAt(n, u, v)}}])
        BY <2>3, <4>1, MergeMeans
      <4> QED
        BY <4>2, <4>3, Zenon
    <3>2. LongAs(Collapsed(n, codes, u), l)
      BY <2>2, <3>1 DEF MergedAt
    <3> QED
      BY <2>3, <3>1, <3>2 DEF IsCode
  <2>4. CASE ~(n < Len(u))
    <3>1. Collapsed(n, codes, u) = u
      BY <2>4 DEF Collapsed
    <3> QED
      BY <2>1, <2>4, <3>1 DEF IsCode
  <2> QED
    BY <2>3, <2>4
<1>2. AreCodes(CollapseAt(n, codes))
  BY <1>1, CollapseMeans DEF AreCodes
<1>3. ASSUME NEW m \in Nat, NEW s, LongAs(s, m)
      PROVE  AcceptedBy(CollapseAt(n, codes), s) <=> AcceptedBy(codes, s)
  <2>1. ASSUME NEW u \in codes, Fits(u, s) PROVE Fits(Collapsed(n, codes, u), s)
    <3>1. CASE n < Len(u)
      <4>1. MergedAt(codes, n, u, Collapsed(n, codes, u))
        BY <1>1, <3>1
      <4>2. EqualExceptAt(n, u, u)
        BY DEF EqualExceptAt
      <4> QED
        BY <1>3, <2>1, <3>1, <4>1, <4>2, MergedAccepts
    <3> QED
      BY <1>1, <2>1, <3>1
  <2>2. ASSUME NEW u \in codes, Fits(Collapsed(n, codes, u), s) PROVE AcceptedBy(codes, s)
    <3>1. CASE n < Len(u)
      <4>1. MergedAt(codes, n, u, Collapsed(n, codes, u))
        BY <1>1, <3>1
      <4> QED
        BY <1>3, <2>2, <3>1, <4>1, MergedAccepts DEF AcceptedBy
    <3> QED
      BY <1>1, <2>2, <3>1 DEF AcceptedBy
  <2> QED
    BY <2>1, <2>2, CollapseMeans DEF AcceptedBy
<1> QED
  BY <1>2, <1>3

\* Collapsing leaves finitely many codes finitely many, and at the last place leaves one code
\* of one byte at most; later it leaves such codes alone.
OneOfOne(codes) == \A u, v \in codes : LongAs(u, 1) /\ LongAs(v, 1) => u = v

\* Collapsing keeps the codes finitely many; once there is one code of one byte, there is.
LEMMA CollapseCounts ==
  ASSUME NEW n \in Nat, NEW codes, AreCodes(codes), IsFiniteSet(codes)
  PROVE  /\ IsFiniteSet(CollapseAt(n, codes))
         /\ n = 0 \/ OneOfOne(codes) => OneOfOne(CollapseAt(n, codes))
<1>1. IsFiniteSet(CollapseAt(n, codes))
  <2> DEFINE f == [u \in codes |-> Collapsed(n, codes, u)]
  <2>1. DOMAIN f = codes /\ {f[u] : u \in codes} = {Collapsed(n, codes, u) : u \in codes}
    OBVIOUS
  <2> HIDE DEF f
  <2>2. IsFiniteSet({f[u] : u \in codes})
    BY <2>1, FiniteImage
  <2> QED
    BY <2>1, <2>2, CollapseMeans
<1>2. ASSUME n = 0 \/ OneOfOne(codes), NEW u \in codes, NEW v \in codes,
             LongAs(Collapsed(n, codes, u), 1), LongAs(Collapsed(n, codes, v), 1)
      PROVE  Collapsed(n, codes, u) = Collapsed(n, codes, v)
  <2>1. ASSUME NEW x \in codes, LongAs(Collapsed(n, codes, x), 1) PROVE LongAs(x, 1) /\ Len(x) = 1
    <3>1. PICK l \in 1..4 : LongAs(x, l)
      BY DEF AreCodes, IsCode
    <3>2. Len(x) = l
      BY <3>1 DEF LongAs
    <3>3. CASE n < Len(x)
      <4>1. IsCode(x)
        BY DEF AreCodes
      <4>2. Collapsed(n, codes, x)
          = [x EXCEPT ![Len(x) - n] = UNION {w[Len(x) - n] : w \in {w \in codes : EqualExceptAt(n, x, w)}}]
        BY <3>3 DEF Collapsed
      <4>3. MergedAt(codes, n, x, Collapsed(n, codes, x))
        <5>1. MergedAt(codes, n, x, [x EXCEPT ![Len(x) - n] =
            UNION {w[Len(x) - n] : w \in {w \in codes : EqualExceptAt(n, x, w)}}])
          BY <3>3, <4>1, MergeMeans
        <5> QED
          BY <4>2, <5>1, Zenon
      <4>4. LongAs(Collapsed(n, codes, x), l)
        BY <3>2, <4>3 DEF MergedAt
      <4>5. l = 1
        BY <2>1, <4>4 DEF LongAs
      <4> QED
        BY <3>1, <3>2, <4>5
    <3>4. CASE ~(n < Len(x))
      BY <2>1, <3>4 DEF Collapsed, LongAs
    <3> QED
      BY <3>3, <3>4
  <2>2. LongAs(u, 1) /\ LongAs(v, 1) /\ Len(u) = 1 /\ Len(v) = 1
    BY <1>2, <2>1
  <2>3. CASE OneOfOne(codes)
    BY <2>2, <2>3 DEF OneOfOne
  <2>4. CASE n = 0
    <3>1. ASSUME NEW x \in codes, LongAs(x, 1), Len(x) = 1, NEW w \in codes
          PROVE  EqualExceptAt(n, x, w) <=> LongAs(w, 1)
      <4>1. PICK l \in 1..4 : LongAs(w, l)
        BY DEF AreCodes, IsCode
      <4>2. EqualExceptAt(n, x, w) <=> l = 1 /\ \A j \in 1..1 : j # 1 - n => x[j] = w[j]
        <5>1. 1 \in Nat /\ l \in Nat
          OBVIOUS
        <5> QED
          BY <3>1, <4>1, <5>1, EqualExceptMeans
      <4>3. \A j \in 1..1 : ~(j # 1 - n)
        BY <2>4
      <4> QED
        BY <4>1, <4>2, <4>3 DEF LongAs
    <3> DEFINE X == UNION {w[1] : w \in {w \in codes : LongAs(w, 1)}}
    <3>2. ASSUME NEW x \in codes, LongAs(x, 1), Len(x) = 1
          PROVE  Collapsed(n, codes, x) = [j \in 1..1 |-> X]
      <4>1. {w \in codes : EqualExceptAt(n, x, w)} = {w \in codes : LongAs(w, 1)}
        BY <3>1, <3>2
      <4>2. Collapsed(n, codes, x) = [x EXCEPT ![1] = X]
        <5>1. Len(x) - n = 1 /\ n < Len(x)
          BY <2>4, <3>2
        <5> QED
          BY <4>1, <5>1 DEF Collapsed
      <4>3. DOMAIN x = 1..1
        <5>1. 1 \in Nat
          OBVIOUS
        <5> QED
          BY <3>2, <5>1, SequenceMeans
      <4> HIDE DEF X
      <4>4. [x EXCEPT ![1] = X] = [j \in DOMAIN x |-> IF j = 1 THEN X ELSE x[j]]
        OBVIOUS
      <4>5. \A j \in 1..1 : j = 1
        OBVIOUS
      <4>6. [j \in 1..1 |-> IF j = 1 THEN X ELSE x[j]] = [j \in 1..1 |-> X]
        BY <4>5
      <4> QED
        BY <4>2, <4>3, <4>4, <4>6
    <3> HIDE DEF X
    <3> QED
      BY <2>2, <3>2
  <2> QED
    BY <1>2, <2>3, <2>4
<1>3. ASSUME n = 0 \/ OneOfOne(codes) PROVE OneOfOne(CollapseAt(n, codes))
  BY <1>2, <1>3, CollapseMeans DEF OneOfOne
<1> QED
  BY <1>1, <1>3

-----------------------------------------------------------------------------
(* The ranges that codes are collected in.                                 *)

\* Where the run that begins at k ends, of n numbers with runs that begin at B.
RunEnd(B, n, k) == Min({m \in B : k < m} \cup {n + 1})

\* Runs begin and end, and everything is in one of them.
LEMMA RunsCover ==
  ASSUME NEW n \in Nat, NEW B, B \subseteq 1..n, n > 0 => 1 \in B
  PROVE  /\ \A k \in B : /\ RunEnd(B, n, k) \in k + 1..n + 1
                         /\ \A m \in k + 1..RunEnd(B, n, k) - 1 : m \notin B
         /\ \A j \in 1..n : \E k \in B : j \in k..RunEnd(B, n, k) - 1
<1>1. ASSUME NEW k \in B
      PROVE  /\ RunEnd(B, n, k) \in k + 1..n + 1
             /\ RunEnd(B, n, k) \in B \/ RunEnd(B, n, k) = n + 1
             /\ \A m \in k + 1..RunEnd(B, n, k) - 1 : m \notin B
  <2> DEFINE T == {m \in B : k < m} \cup {n + 1}
             x == RunEnd(B, n, k)
  <2>1. T \subseteq Nat /\ T # {} /\ k \in 1..n
    <3>1. \A m \in B : m \in 1..n /\ m \in Nat
      OBVIOUS
    <3>2. n + 1 \in Nat
      OBVIOUS
    <3> QED
      BY <3>1, <3>2
  <2>2. \E m \in T : \A y \in T : m <= y
    <3> HIDE DEF T
    <3> QED
      BY <2>1, LeastNatural
  <2>3. x \in T /\ \A y \in T : x <= y
    <3>1. x = CHOOSE m \in T : \A y \in T : m <= y
      BY DEF RunEnd, Min
    <3> HIDE DEF x, T
    <3> QED
      BY <2>2, <3>1
  <2> HIDE DEF x
  <2>4. x \in k + 1..n + 1 /\ (x \in B \/ x = n + 1)
    BY <2>1, <2>3
  <2>5. ASSUME NEW m \in k + 1..x - 1 PROVE m \notin B
    <3>1. m \in Int /\ k < m /\ ~(x <= m)
      BY <2>1, <2>4
    <3> QED
      BY <2>3, <3>1
  <2> QED
    BY <2>4, <2>5 DEF x
<1> DEFINE T == {j \in Nat : j + 1 <= n => \E k \in B : j + 1 \in k..RunEnd(B, n, k) - 1}
<1>2. ASSUME NEW k \in B PROVE k \in k..RunEnd(B, n, k) - 1
  <2>1. k \in Nat /\ RunEnd(B, n, k) \in k + 1..n + 1
    BY <1>1
  <2> QED
    BY <2>1
<1>3. 0 \in T
  BY <1>2
<1>4. ASSUME NEW j \in T PROVE j + 1 \in T
  <2> SUFFICES ASSUME (j + 1) + 1 <= n PROVE \E k \in B : (j + 1) + 1 \in k..RunEnd(B, n, k) - 1
    OBVIOUS
  <2>1. CASE (j + 1) + 1 \in B
    BY <1>2, <2>1
  <2>2. CASE (j + 1) + 1 \notin B
    <3>1. PICK k \in B : j + 1 \in k..RunEnd(B, n, k) - 1
      OBVIOUS
    <3>2. k \in 1..n /\ RunEnd(B, n, k) \in k + 1..n + 1 /\ (RunEnd(B, n, k) \in B \/ RunEnd(B, n, k) = n + 1)
      BY <1>1
    <3>3. RunEnd(B, n, k) # (j + 1) + 1
      BY <2>2, <3>2
    <3> QED
      BY <3>1, <3>2, <3>3
  <2> QED
    BY <2>1, <2>2
<1>5. T \subseteq Nat
  OBVIOUS
<1> HIDE DEF T
<1>6. \A j \in Nat : j \in T
  BY <1>3, <1>4, <1>5, InductionOnNat
<1>7. ASSUME NEW j \in 1..n PROVE \E k \in B : j \in k..RunEnd(B, n, k) - 1
  <2>1. j - 1 \in Nat /\ (j - 1) + 1 = j /\ j <= n
    OBVIOUS
  <2> QED
    BY <1>6, <2>1 DEF T
<1> QED
  BY <1>1, <1>7

\* s and u differ at one place only.
AlikeBut(s, u, at) == Len(s) = Len(u) /\ \A k \in 1..Len(s) : k # at => s[k] = u[k]

\* An encoder whose codes are bytes, and differ in the running byte only within a range.
IsEncoder(e) ==
  /\ \A c \in DOMAIN e.code : c \in Nat /\ ByteCode(e.code[c])
                              /\ RunningByte(e, e.code[c]) \in 1..Len(e.code[c])
  /\ \A p, c \in DOMAIN e.code :
       JoinsRange(e, p, c) => AlikeBut(e.code[p], e.code[c], RunningByte(e, e.code[c]))

\* r is the code s with the bytes at place at of all codes from k to m of v.
IsRange(r, v, k, m, at) ==
  /\ LongAs(r, Len(v[k]))
  /\ \A j \in 1..Len(v[k]) : j # at => r[j] = {v[k][j]}
  /\ r[at] = {v[i][at] : i \in k..m}

\* A range accepts the codes it was made of.
LEMMA RangeAccepts ==
  ASSUME NEW k \in Nat, NEW m \in Nat, k <= m, NEW v, \A i \in k..m : ByteCode(v[i]),
         NEW at \in 1..Len(v[k]), \A i \in k..m : AlikeBut(v[k], v[i], at),
         NEW r, IsRange(r, v, k, m, at), NEW l \in Nat, NEW s, LongAs(s, l)
  PROVE  Fits(r, s) <=> \E i \in k..m : v[i] = s
<1>1. PICK n \in 1..4 : LongAs(v[k], n)
  <2>1. k \in k..m
    OBVIOUS
  <2> QED
    BY <2>1 DEF ByteCode, ByteSeq
<1>2. n \in Nat /\ Len(v[k]) = n
  BY <1>1 DEF LongAs
<1>3. LongAs(r, n) /\ (\A j \in 1..n : j # at => r[j] = {v[k][j]}) /\ r[at] = {v[i][at] : i \in k..m}
  BY <1>2 DEF IsRange
<1>4. ASSUME NEW i \in k..m
      PROVE  LongAs(v[i], n) /\ \A j \in 1..n : j # at => v[k][j] = v[i][j]
  <2>1. Len(v[i]) = n /\ \A j \in 1..n : j # at => v[k][j] = v[i][j]
    BY <1>2, SMTT(60) DEF AlikeBut
  <2>2. IsSequence(v[i])
    BY DEF ByteCode, ByteSeq, LongAs
  <2> QED
    BY <2>1, <2>2 DEF LongAs
<1>5. Fits(r, s) <=> l = n /\ \A j \in 1..n : s[j] \in r[j]
  BY <1>2, <1>3, FitsMeans
<1>6. ASSUME Fits(r, s) PROVE \E i \in k..m : v[i] = s
  <2>1. l = n /\ \A j \in 1..n : s[j] \in r[j]
    BY <1>5, <1>6
  <2>2. PICK i \in k..m : s[at] = v[i][at]
    BY <1>2, <1>3, <2>1
  <2>3. \A j \in 1..n : s[j] = v[i][j]
    BY <1>3, <1>4, <2>1, <2>2, SMTT(60)
  <2>4. s = [j \in 1..n |-> s[j]] /\ v[i] = [j \in 1..n |-> v[i][j]]
    BY <1>2, <1>4, <2>1, SequenceMeans
  <2>5. v[i] = s
    BY <2>3, <2>4
  <2> QED
    BY <2>5
<1>7. ASSUME NEW i \in k..m, v[i] = s PROVE Fits(r, s)
  <2>1. LongAs(s, n) /\ \A j \in 1..n : j # at => v[k][j] = s[j]
    BY <1>4, <1>7
  <2>2. l = n
    BY <2>1 DEF LongAs
  <2>3. s[at] \in r[at]
    BY <1>3, <1>7
  <2>4. \A j \in 1..n : s[j] \in r[j]
    BY <1>3, <2>1, <2>3
  <2> QED
    BY <1>5, <2>2, <2>4
<1> QED
  BY <1>6, <1>7, SMTT(60)

\* The codes of a list of code points, which of them begin a range, and the range from k.
CodesInOrder(e, cps) == [k \in DOMAIN cps |-> e.code[cps[k]]]
RangeBegins(e, cps) == {k \in DOMAIN cps : k = 1 \/ ~JoinsRange(e, cps[k - 1], cps[k])}
RangeAt(e, cps, k) ==
  LET s  == e.code[cps[k]]
      at == RunningByte(e, s)
  IN [Singles(s) EXCEPT ![at] =
        {e.code[cps[m]][at] : m \in k..RunEnd(RangeBegins(e, cps), Len(cps), k) - 1}]

\* What is collected are the ranges from their beginnings.
LEMMA CollectMeans ==
  ASSUME NEW e, NEW S
  PROVE  LET cps == Ascending(S \cap DOMAIN e.code)
         IN CollectRanges(e, S) = {RangeAt(e, cps, k) : k \in RangeBegins(e, cps)}
  BY DEF CollectRanges, RangeAt, RangeBegins, RunEnd

\* Within a range, the codes differ in the running byte only.
LEMMA RunAlike ==
  ASSUME NEW e, IsEncoder(e), NEW n \in Nat, NEW cps, LongAs(cps, n),
         \A k \in 1..n : cps[k] \in DOMAIN e.code,
         NEW k \in 1..n, NEW last \in k..n, \A i \in k + 1..last : i \notin RangeBegins(e, cps)
  PROVE  \A i \in k..last : AlikeBut(e.code[cps[k]], e.code[cps[i]], RunningByte(e, e.code[cps[k]]))
<1> DEFINE u == e.code[cps[k]]
           at == RunningByte(e, u)
           T == {d \in Nat : k + d <= last => AlikeBut(u, e.code[cps[k + d]], at)}
<1>1. 0 \in T
  <2>1. AlikeBut(u, u, at)
    BY DEF AlikeBut
  <2>2. k + 0 = k
    OBVIOUS
  <2> QED
    BY <2>1, <2>2
<1>2. ASSUME NEW d \in T PROVE d + 1 \in T
  <2> SUFFICES ASSUME k + (d + 1) <= last PROVE AlikeBut(u, e.code[cps[k + (d + 1)]], at)
    OBVIOUS
  <2> DEFINE i == k + (d + 1)
             p == e.code[cps[k + d]]
             c == e.code[cps[i]]
  <2>1. AlikeBut(u, p, at)
    OBVIOUS
  <2>2. i \in k + 1..last /\ i \in 1..n /\ i # 1 /\ i - 1 = k + d /\ k + d \in 1..n
    OBVIOUS
  <2>3. DOMAIN cps = 1..n
    BY SequenceMeans
  <2>4. JoinsRange(e, cps[i - 1], cps[i])
    <3>1. i \notin RangeBegins(e, cps)
      BY <2>2
    <3> HIDE DEF i
    <3> QED
      BY <2>2, <2>3, <3>1 DEF RangeBegins
  <2>5. AlikeBut(p, c, RunningByte(e, c))
    <3>1. cps[i - 1] \in DOMAIN e.code /\ cps[i] \in DOMAIN e.code /\ cps[i - 1] = cps[k + d]
      BY <2>2
    <3> QED
      BY <2>4, <3>1 DEF IsEncoder
  <2>6. Len(u) = Len(p) /\ Len(p) = Len(c)
    BY <2>1, <2>5 DEF AlikeBut
  <2>7. RunningByte(e, c) = at
    BY <2>6 DEF RunningByte
  <2> HIDE DEF u, p, c, at
  <2>8. AlikeBut(u, c, at)
    BY <2>1, <2>5, <2>6, <2>7 DEF AlikeBut
  <2> QED
    BY <2>8 DEF c, i
<1>3. T \subseteq Nat
  OBVIOUS
<1> HIDE DEF T
<1>4. \A d \in Nat : d \in T
  BY <1>1, <1>2, <1>3, InductionOnNat
<1>5. ASSUME NEW i \in k..last PROVE AlikeBut(u, e.code[cps[i]], at)
  <2>1. i - k \in Nat /\ k + (i - k) = i /\ i <= last
    OBVIOUS
  <2> QED
    BY <1>4, <2>1 DEF T
<1> QED
  BY <1>5

\* The ranges of the codes of a set accept these codes, and nothing else.
LEMMA RangesExact ==
  ASSUME NEW e, IsEncoder(e), NEW S, IsFiniteSet(S)
  PROVE  /\ AreCodes(CollectRanges(e, S)) /\ IsFiniteSet(CollectRanges(e, S))
         /\ \A m \in Nat : \A s : LongAs(s, m) =>
              (AcceptedBy(CollectRanges(e, S), s) <=> \E c \in S \cap DOMAIN e.code : e.code[c] = s)
<1> DEFINE W == S \cap DOMAIN e.code
           cps == Ascending(W)
           v == CodesInOrder(e, cps)
           B == RangeBegins(e, cps)
           End(k) == RunEnd(B, Len(cps), k)
           At(k) == RunningByte(e, v[k])
<1>1. CollectRanges(e, S) = {RangeAt(e, cps, k) : k \in B}
  BY CollectMeans
<1>2. Lists(cps, W)
  <2>1. W \in SUBSET S
    OBVIOUS
  <2>2. IsFiniteSet(W)
    BY <2>1, FS_Subset
  <2>3. W \subseteq Int
    BY DEF IsEncoder
  <2> HIDE DEF W
  <2> QED
    BY <2>2, <2>3, AscendingLists
<1>3. PICK n \in Nat : LongAs(cps, n) /\ (\A k \in 1..n : cps[k] \in W) /\ \A x \in W : \E k \in 1..n : cps[k] = x
  BY <1>2 DEF Lists
<1> HIDE DEF cps
<1>4. Len(cps) = n /\ DOMAIN cps = 1..n
  BY <1>3, SequenceMeans DEF LongAs
<1>5. \A k \in 1..n : v[k] = e.code[cps[k]] /\ ByteCode(v[k]) /\ At(k) \in 1..Len(v[k])
  <2>1. \A k \in 1..n : v[k] = e.code[cps[k]] /\ cps[k] \in DOMAIN e.code
    BY <1>3, <1>4 DEF CodesInOrder
  <2> HIDE DEF v, cps
  <2> QED
    BY <2>1 DEF IsEncoder
<1>6. B \subseteq 1..n /\ (n > 0 => 1 \in B)
  BY <1>4 DEF RangeBegins
<1>7. /\ \A k \in B : /\ End(k) \in k + 1..n + 1
                      /\ \A m \in k + 1..End(k) - 1 : m \notin B
      /\ \A j \in 1..n : \E k \in B : j \in k..End(k) - 1
  <2> HIDE DEF B
  <2> QED
    BY <1>4, <1>6, RunsCover
<1>8. ASSUME NEW k \in B
      PROVE  /\ k \in 1..n /\ End(k) - 1 \in k..n
             /\ IsCode(RangeAt(e, cps, k))
             /\ \A m \in Nat : \A s : LongAs(s, m) =>
                  (Fits(RangeAt(e, cps, k), s) <=> \E i \in k..End(k) - 1 : v[i] = s)
  <2> DEFINE r == RangeAt(e, cps, k)
             last == End(k) - 1
             at == At(k)
  <2>1. k \in 1..n /\ last \in k..n /\ \A i \in k + 1..last : i \notin B
    <3> HIDE DEF B
    <3>1. k \in 1..n /\ End(k) \in k + 1..n + 1
      BY <1>6, <1>7
    <3> HIDE DEF End
    <3>2. last \in k..n
      BY <3>1
    <3> QED
      BY <1>7, <3>1, <3>2
  <2>2. \A i \in k..last : i \in 1..n
    BY <2>1
  <2>3. \A i \in k..last : AlikeBut(v[k], v[i], at)
    <3> HIDE DEF End, last
    <3>1. \A i \in 1..n : cps[i] \in DOMAIN e.code
      BY <1>3
    <3>2. \A i \in k..last : AlikeBut(e.code[cps[k]], e.code[cps[i]], RunningByte(e, e.code[cps[k]]))
      BY <1>3, <2>1, <3>1, RunAlike, ZenonT(60)
    <3> HIDE DEF v
    <3> QED
      BY <1>5, <2>1, <2>2, <3>2
  <2>4. PICK l \in 1..4 : LongAs(v[k], l)
    BY <1>5, <2>1 DEF ByteCode, ByteSeq
  <2>5. l \in Nat /\ Len(v[k]) = l /\ DOMAIN v[k] = 1..l
    BY <2>4, SequenceMeans DEF LongAs
  <2>6. r = [Singles(v[k]) EXCEPT ![at] = {v[m][at] : m \in k..last}]
    <3> DEFINE u == e.code[cps[k]]
               place == RunningByte(e, u)
    <3>1. r = [Singles(u) EXCEPT ![place] = {e.code[cps[m]][place] : m \in k..last}]
      BY DEF RangeAt
    <3>2. v[k] = u /\ place = at
      BY <1>5, <2>1
    <3> HIDE DEF last, At, v, u, place
    <3>3. \A m \in k..last : v[m] = e.code[cps[m]]
      BY <1>5, <2>2
    <3>4. {e.code[cps[m]][place] : m \in k..last} = {v[m][at] : m \in k..last}
      BY <3>2, <3>3
    <3> QED
      BY <3>1, <3>2, <3>4
  <2>7. at \in 1..l
    BY <1>5, <2>1, <2>5
  <2> HIDE DEF r, v, last, at
  <2>8. IsRange(r, v, k, last, at)
    <3> DEFINE R == {v[i][at] : i \in k..last}
    <3>0. r = [Singles(v[k]) EXCEPT ![at] = R]
      BY <2>6
    <3> HIDE DEF R
    <3>1. Singles(v[k]) = [j \in 1..l |-> {v[k][j]}]
      BY <2>5 DEF Singles
    <3>2. r = [j \in 1..l |-> IF j = at THEN R ELSE {v[k][j]}]
      BY <2>7, <3>0, <3>1
    <3>3. LongAs(r, l)
      <4>1. r = [j \in 1..l |-> r[j]]
        BY <3>2
      <4> QED
        BY <2>5, <4>1, SequenceMeans
    <3>4. \A j \in 1..l : j # at => r[j] = {v[k][j]}
      BY <3>2
    <3>5. r[at] = R
      BY <2>7, <3>2
    <3> QED
      BY <2>5, <3>3, <3>4, <3>5 DEF IsRange, R
  <2>9. IsCode(r)
    BY <2>5, <2>8 DEF IsRange, IsCode
  <2>10. ASSUME NEW m \in Nat, NEW s, LongAs(s, m)
         PROVE  Fits(r, s) <=> \E i \in k..last : v[i] = s
    <3>1. k \in Nat /\ last \in Nat /\ k <= last
      BY <2>1
    <3>2. \A i \in k..last : ByteCode(v[i])
      BY <1>5, <2>2
    <3>3. at \in 1..Len(v[k])
      BY <2>5, <2>7
    <3> QED
      BY <2>3, <2>8, <2>10, <3>1, <3>2, <3>3, RangeAccepts, SMTT(60)
  <2> QED
    BY <2>1, <2>9, <2>10 DEF r, last
<1> HIDE DEF B, v, End
<1>9. AreCodes(CollectRanges(e, S))
  BY <1>1, <1>8 DEF AreCodes
<1>10. IsFiniteSet(CollectRanges(e, S))
  <2> DEFINE f == [k \in B |-> RangeAt(e, cps, k)]
  <2>1. DOMAIN f = B /\ {f[k] : k \in B} = {RangeAt(e, cps, k) : k \in B}
    OBVIOUS
  <2>2. IsFiniteSet(B)
    <3>1. IsFiniteSet(1..n) /\ B \in SUBSET (1..n)
      BY <1>6, FS_Interval
    <3> QED
      BY <3>1, FS_Subset
  <2> HIDE DEF f
  <2>3. IsFiniteSet({f[k] : k \in B})
    BY <2>1, <2>2, FiniteImage
  <2> QED
    BY <1>1, <2>1, <2>3
<1>11. ASSUME NEW m \in Nat, NEW s, LongAs(s, m)
       PROVE  AcceptedBy(CollectRanges(e, S), s) <=> \E c \in W : e.code[c] = s
  <2>1. ASSUME NEW k \in B, Fits(RangeAt(e, cps, k), s) PROVE \E c \in W : e.code[c] = s
    <3>1. PICK i \in k..End(k) - 1 : v[i] = s
      BY <1>8, <1>11, <2>1
    <3>2. i \in 1..n
      <4>1. k \in 1..n /\ End(k) - 1 \in k..n
        BY <1>8
      <4> QED
        BY <3>1, <4>1
    <3> QED
      BY <1>3, <1>5, <3>1, <3>2
  <2>2. ASSUME NEW c \in W, e.code[c] = s PROVE \E k \in B : Fits(RangeAt(e, cps, k), s)
    <3>1. PICK j \in 1..n : cps[j] = c
      BY <1>3
    <3>2. PICK k \in B : j \in k..End(k) - 1
      BY <1>7
    <3>3. v[j] = s
      BY <1>5, <2>2, <3>1
    <3> QED
      BY <1>8, <1>11, <3>2, <3>3
  <2> HIDE DEF W
  <2> QED
    BY <1>1, <2>1, <2>2 DEF AcceptedBy
<1> QED
  BY <1>9, <1>10, <1>11

-----------------------------------------------------------------------------
(* The codes that are written.                                             *)

\* Only the first of the codes may be of one byte.
OneFirst(s) == \A k \in 2..Len(s) : Len(s[k]) # 1

\* Longer codes behind.
LEMMA JoinLists ==
  ASSUME NEW s, NEW S, Lists(s, S), OneFirst(s), NEW t, NEW T, Lists(t, T), \A x \in T : Len(x) # 1
  PROVE  Lists(s \o t, S \cup T) /\ OneFirst(s \o t)
<1>1. PICK a \in Nat : LongAs(s, a) /\ (\A k \in 1..a : s[k] \in S) /\ \A x \in S : \E k \in 1..a : s[k] = x
  BY DEF Lists
<1>2. PICK b \in Nat : LongAs(t, b) /\ (\A k \in 1..b : t[k] \in T) /\ \A x \in T : \E k \in 1..b : t[k] = x
  BY DEF Lists
<1> DEFINE u == s \o t
<1>3. Joins(u, s, a, t, b)
  BY <1>1, <1>2, JoinSequences
<1> HIDE DEF u
<1>4. LongAs(u, a + b) /\ (\A k \in 1..a : u[k] = s[k]) /\ \A k \in 1..b : u[a + k] = t[k]
  BY <1>3 DEF Joins
<1>5. \A k \in 1..a + b : k \in 1..a \/ (k - a \in 1..b /\ a + (k - a) = k)
  OBVIOUS
<1>6. ASSUME NEW k \in 1..a + b PROVE u[k] \in S \cup T
  <2>1. CASE k \in 1..a
    BY <1>1, <1>4, <2>1
  <2>2. CASE k - a \in 1..b /\ a + (k - a) = k
    BY <1>2, <1>4, <2>2
  <2> QED
    BY <1>5, <2>1, <2>2
<1>7. \A k \in 1..a : k \in 1..a + b
  OBVIOUS
<1>8. \A k \in 1..b : a + k \in 1..a + b
  OBVIOUS
<1>9. ASSUME NEW x \in S \cup T PROVE \E k \in 1..a + b : u[k] = x
  <2>1. CASE x \in S
    BY <1>1, <1>4, <1>7, <2>1
  <2>2. CASE x \in T
    BY <1>2, <1>4, <1>8, <2>2
  <2> QED
    BY <2>1, <2>2
<1>10. Lists(u, S \cup T)
  <2>1. a + b \in Nat
    OBVIOUS
  <2> QED
    BY <1>4, <1>6, <1>9, <2>1 DEF Lists
<1>11. OneFirst(u)
  <2>1. Len(u) = a + b /\ Len(s) = a
    BY <1>1, <1>4 DEF LongAs
  <2> SUFFICES ASSUME NEW k \in 2..a + b PROVE Len(u[k]) # 1
    BY <2>1 DEF OneFirst
  <2>2. k \in 1..a + b
    OBVIOUS
  <2>3. CASE k \in 1..a
    <3>1. k \in 2..Len(s)
      BY <2>1, <2>3
    <3> QED
      BY <1>4, <2>3, <3>1 DEF OneFirst
  <2>4. CASE k - a \in 1..b /\ a + (k - a) = k
    BY <1>2, <1>4, <2>4
  <2> QED
    BY <1>5, <2>2, <2>3, <2>4
<1> QED
  BY <1>10, <1>11 DEF u

\* Codes in an order in which only the first may be of one byte.
InOrder(w) ==
  \E n \in Nat : LongAs(w, n) /\ (\A k \in 1..n : IsCode(w[k])) /\ \A k \in 2..n : Len(w[k]) # 1

\* A set of codes in such an order.
LEMMA InOrderOf ==
  ASSUME NEW codes, AreCodes(codes), IsFiniteSet(codes), OneOfOne(codes), NEW w,
         w = Listed({u \in codes : Len(u) = 1}) \o Listed({u \in codes : Len(u) = 2})
             \o Listed({u \in codes : Len(u) = 3}) \o Listed({u \in codes : Len(u) = 4})
  PROVE  InOrder(w) /\ \A s : Accepts(w, s) <=> AcceptedBy(codes, s)
<1> DEFINE Of(n) == {u \in codes : Len(u) = n}
           L(n) == Listed(Of(n))
<1>1. \A n : IsFiniteSet(Of(n))
  <2>1. \A n : Of(n) \in SUBSET codes
    OBVIOUS
  <2> HIDE DEF Of
  <2> QED
    BY <2>1, FS_Subset
<1>2. \A n : Lists(L(n), Of(n)) /\ LongAs(L(n), Cardinality(Of(n)))
  <2> HIDE DEF Of
  <2> QED
    BY <1>1, ListedLists
<1>3. OneFirst(L(1))
  <2>1. \A u \in codes : Len(u) = 1 => LongAs(u, 1)
    BY DEF AreCodes, IsCode, LongAs
  <2>2. \A u, v \in Of(1) : u = v
    BY <2>1 DEF OneOfOne
  <2>3. Of(1) = {} \/ \E x : Of(1) = {x}
    <3> HIDE DEF Of
    <3> QED
      BY <2>2
  <2> HIDE DEF Of
  <2>4. Cardinality(Of(1)) \in {0, 1}
    BY <2>3, FS_EmptySet, FS_Singleton
  <2>5. Len(L(1)) = Cardinality(Of(1))
    BY <1>2 DEF LongAs
  <2> HIDE DEF L
  <2>6. \A k \in 2..Len(L(1)) : FALSE
    BY <2>4, <2>5
  <2> QED
    BY <2>6 DEF OneFirst
<1>4. /\ \A x \in Of(2) : Len(x) # 1
      /\ \A x \in Of(3) : Len(x) # 1
      /\ \A x \in Of(4) : Len(x) # 1
  <2>1. /\ \A x \in Of(2) : Len(x) = 2
        /\ \A x \in Of(3) : Len(x) = 3
        /\ \A x \in Of(4) : Len(x) = 4
    OBVIOUS
  <2> HIDE DEF Of
  <2>2. 2 # 1 /\ 3 # 1 /\ 4 # 1
    OBVIOUS
  <2> QED
    BY <2>1, <2>2, Zenon
<1>5. w = ((L(1) \o L(2)) \o L(3)) \o L(4)
  OBVIOUS
<1> HIDE DEF Of, L
<1> DEFINE w2 == L(1) \o L(2)
           w3 == w2 \o L(3)
<1>6. Lists(w2, Of(1) \cup Of(2)) /\ OneFirst(w2)
  BY <1>2, <1>3, <1>4, JoinLists
<1> HIDE DEF w2
<1>7. Lists(w3, (Of(1) \cup Of(2)) \cup Of(3)) /\ OneFirst(w3)
  BY <1>2, <1>4, <1>6, JoinLists
<1> HIDE DEF w3
<1>8. Lists(w, ((Of(1) \cup Of(2)) \cup Of(3)) \cup Of(4)) /\ OneFirst(w)
  <2>1. w = w3 \o L(4)
    BY <1>5 DEF w3, w2
  <2>2. Lists(L(4), Of(4)) /\ \A x \in Of(4) : Len(x) # 1
    BY <1>2, <1>4, Zenon
  <2> DEFINE U == (Of(1) \cup Of(2)) \cup Of(3)
  <2>3. Lists(w3, U) /\ OneFirst(w3)
    BY <1>7
  <2> HIDE DEF U
  <2>4. Lists(w3 \o L(4), U \cup Of(4)) /\ OneFirst(w3 \o L(4))
    BY <2>2, <2>3, JoinLists
  <2> QED
    BY <2>1, <2>4 DEF U
<1>9. ((Of(1) \cup Of(2)) \cup Of(3)) \cup Of(4) = codes
  <2>1. \A u \in codes : Len(u) \in 1..4
    BY DEF AreCodes, IsCode, LongAs
  <2>2. \A u \in codes : Len(u) = 1 \/ Len(u) = 2 \/ Len(u) = 3 \/ Len(u) = 4
    BY <2>1
  <2> QED
    BY <2>2 DEF Of
<1>10. PICK n \in Nat : LongAs(w, n) /\ (\A k \in 1..n : w[k] \in codes) /\ \A x \in codes : \E k \in 1..n : w[k] = x
  BY <1>8, <1>9 DEF Lists
<1>11. Len(w) = n /\ DOMAIN w = 1..n
  BY <1>10, SequenceMeans DEF LongAs
<1>12. InOrder(w)
  BY <1>8, <1>10, <1>11 DEF InOrder, OneFirst, AreCodes
<1>13. \A s : Accepts(w, s) <=> AcceptedBy(codes, s)
  BY <1>10, <1>11 DEF Accepts, AcceptedBy
<1> QED
  BY <1>12, <1>13

\* What is written for a set accepts the codes of its members, and nothing else.
LEMMA WriteExact ==
  ASSUME NEW e, IsEncoder(e), NEW S, IsFiniteSet(S)
  PROVE  /\ InOrder(Write(e, S))
         /\ \A m \in Nat : \A s : LongAs(s, m) =>
              (Accepts(Write(e, S), s) <=> \E c \in S \cap DOMAIN e.code : e.code[c] = s)
<1> DEFINE R == CollectRanges(e, S)
           C0 == CollapseAt(0, R)
           C1 == CollapseAt(1, C0)
           C2 == CollapseAt(2, C1)
           C3 == CollapseAt(3, C2)
           w == Write(e, S)
<1>0. 0 \in Nat /\ 1 \in Nat /\ 2 \in Nat /\ 3 \in Nat
  OBVIOUS
<1>1. AreCodes(R) /\ IsFiniteSet(R)
  BY RangesExact
<1>2. \A m \in Nat : \A s : LongAs(s, m) => (AcceptedBy(R, s) <=> \E c \in S \cap DOMAIN e.code : e.code[c] = s)
  BY RangesExact
<1>3. w = Listed({u \in C3 : Len(u) = 1}) \o Listed({u \in C3 : Len(u) = 2})
             \o Listed({u \in C3 : Len(u) = 3}) \o Listed({u \in C3 : Len(u) = 4})
  BY DEF Write
<1> HIDE DEF R, w
<1>4. AreCodes(C0) /\ IsFiniteSet(C0) /\ OneOfOne(C0)
  BY <1>0, <1>1, CollapseKeeps, CollapseCounts
<1>5. \A m \in Nat : \A s : LongAs(s, m) => (AcceptedBy(C0, s) <=> AcceptedBy(R, s))
  BY <1>0, <1>1, CollapseKeeps
<1> HIDE DEF C0
<1>6. AreCodes(C1) /\ IsFiniteSet(C1) /\ OneOfOne(C1)
  BY <1>0, <1>4, CollapseKeeps, CollapseCounts
<1>7. \A m \in Nat : \A s : LongAs(s, m) => (AcceptedBy(C1, s) <=> AcceptedBy(C0, s))
  BY <1>0, <1>4, CollapseKeeps
<1> HIDE DEF C1
<1>8. AreCodes(C2) /\ IsFiniteSet(C2) /\ OneOfOne(C2)
  BY <1>0, <1>6, CollapseKeeps, CollapseCounts
<1>9. \A m \in Nat : \A s : LongAs(s, m) => (AcceptedBy(C2, s) <=> AcceptedBy(C1, s))
  BY <1>0, <1>6, CollapseKeeps
<1> HIDE DEF C2
<1>10. AreCodes(C3) /\ IsFiniteSet(C3) /\ OneOfOne(C3)
  BY <1>0, <1>8, CollapseKeeps, CollapseCounts
<1>11. \A m \in Nat : \A s : LongAs(s, m) => (AcceptedBy(C3, s) <=> AcceptedBy(C2, s))
  BY <1>0, <1>8, CollapseKeeps
<1> HIDE DEF C3
<1>12. InOrder(w) /\ \A s : Accepts(w, s) <=> AcceptedBy(C3, s)
  BY <1>3, <1>10, InOrderOf
<1>13. ASSUME NEW m \in Nat, NEW s, LongAs(s, m)
       PROVE  Accepts(w, s) <=> \E c \in S \cap DOMAIN e.code : e.code[c] = s
  BY <1>2, <1>5, <1>7, <1>9, <1>11, <1>12, <1>13
<1> QED
  BY <1>12, <1>13 DEF w

-----------------------------------------------------------------------------
(* Blocks of the UTF encodings: within one, only the running byte changes. *)

\* Tuples that differ at one place only.
LEMMA AlikeTuples ==
  /\ \A a, b : AlikeBut(<<a>>, <<b>>, 1)
  /\ \A x, a, b : AlikeBut(<<x, a>>, <<x, b>>, 2)
  /\ \A x, a, b : AlikeBut(<<a, x>>, <<b, x>>, 1)
  /\ \A x, y, a, b : AlikeBut(<<x, y, a>>, <<x, y, b>>, 3)
  /\ \A x, y, z, a, b : AlikeBut(<<x, y, z, a>>, <<x, y, z, b>>, 4)
  /\ \A x, y, z, a, b : AlikeBut(<<x, y, a, z>>, <<x, y, b, z>>, 3)
  /\ \A x, y, z, a, b : AlikeBut(<<a, x, y, z>>, <<b, x, y, z>>, 1)
<1>1. ASSUME NEW a, NEW b PROVE AlikeBut(<<a>>, <<b>>, 1)
  BY SMT DEF AlikeBut
<1>2. ASSUME NEW a, NEW b, NEW x PROVE AlikeBut(<<x, a>>, <<x, b>>, 2) /\ AlikeBut(<<a, x>>, <<b, x>>, 1)
  BY SMT DEF AlikeBut
<1>3. ASSUME NEW a, NEW b, NEW x, NEW y PROVE AlikeBut(<<x, y, a>>, <<x, y, b>>, 3)
  BY SMT DEF AlikeBut
<1>4. ASSUME NEW a, NEW b, NEW x, NEW y, NEW z
      PROVE  AlikeBut(<<x, y, z, a>>, <<x, y, z, b>>, 4) /\ AlikeBut(<<x, y, a, z>>, <<x, y, b, z>>, 3)
  BY SMT DEF AlikeBut
<1>5. ASSUME NEW a, NEW b, NEW x, NEW y, NEW z PROVE AlikeBut(<<a, x, y, z>>, <<b, x, y, z>>, 1)
  BY SMT DEF AlikeBut
<1> QED
  BY <1>1, <1>2, <1>3, <1>4, <1>5, Zenon

\* The lengths of tuples.
LEMMA TupleLengths ==
  /\ \A a : Len(<<a>>) = 1
  /\ \A a, b : Len(<<a, b>>) = 2
  /\ \A a, b, c : Len(<<a, b, c>>) = 3
  /\ \A a, b, c, d : Len(<<a, b, c, d>>) = 4
  BY SMT

\* The place of the running byte in a code u of a UTF encoding.
PlaceIn(u, low) == IF Len(u) = 1 THEN Len(u) ELSE Len(u) + 1 - low

\* UTF-8: the codes of two neighbours in a block.
LEMMA Utf8Next ==
  ASSUME NEW c \in Nat, NEW p \in Nat, p + 1 = c, c # 128, c # 2048, c # 65536,
         Len(Utf8Bytes(c)) = 1 \/ c % 64 # 0
  PROVE  AlikeBut(Utf8Bytes(p), Utf8Bytes(c), PlaceIn(Utf8Bytes(c), 1))
<1>1. Utf8Shape(c) /\ Utf8Shape(p)
  BY Utf8Written
<1>2. CASE c < 128
  <2>1. Utf8Bytes(c) = <<c>> /\ Utf8Bytes(p) = <<p>>
    BY <1>1, <1>2 DEF Utf8Shape
  <2>2. PlaceIn(Utf8Bytes(c), 1) = 1
    BY <2>1, TupleLengths DEF PlaceIn
  <2>3. AlikeBut(<<p>>, <<c>>, 1)
    BY AlikeTuples
  <2> QED
    BY <2>1, <2>2, <2>3
<1>3. ASSUME c >= 128, Len(Utf8Bytes(c)) # 1
      PROVE  c \div 64 = p \div 64 /\ c \div 4096 = p \div 4096 /\ c \div 262144 = p \div 262144
  <2>1. c % 64 # 0
    BY <1>3
  <2> QED
    BY <2>1, SMT
<1>4. CASE c >= 128 /\ c <= 2047
  <2>1. /\ Utf8Bytes(c) = <<192 + c \div 64, Continuation(c)>>
        /\ Utf8Bytes(p) = <<192 + p \div 64, Continuation(p)>>
    BY <1>1, <1>4 DEF Utf8Shape
  <2>2. Len(Utf8Bytes(c)) = 2 /\ PlaceIn(Utf8Bytes(c), 1) = 2
    BY <2>1, TupleLengths DEF PlaceIn
  <2>3. c \div 64 = p \div 64
    BY <1>3, <1>4, <2>2
  <2>4. Utf8Bytes(p) = <<192 + c \div 64, Continuation(p)>>
    BY <2>1, <2>3
  <2>5. AlikeBut(<<192 + c \div 64, Continuation(p)>>, <<192 + c \div 64, Continuation(c)>>, 2)
    BY AlikeTuples
  <2> QED
    BY <2>1, <2>2, <2>4, <2>5
<1>5. CASE c >= 2048 /\ c <= 65535
  <2>1. /\ Utf8Bytes(c) = <<224 + c \div 4096, Continuation(c \div 64), Continuation(c)>>
        /\ Utf8Bytes(p) = <<224 + p \div 4096, Continuation(p \div 64), Continuation(p)>>
    BY <1>1, <1>5 DEF Utf8Shape
  <2>2. Len(Utf8Bytes(c)) = 3 /\ PlaceIn(Utf8Bytes(c), 1) = 3
    BY <2>1, TupleLengths DEF PlaceIn
  <2>3. c \div 64 = p \div 64 /\ c \div 4096 = p \div 4096
    BY <1>3, <1>5, <2>2
  <2>4. Utf8Bytes(p) = <<224 + c \div 4096, Continuation(c \div 64), Continuation(p)>>
    BY <2>1, <2>3
  <2>5. AlikeBut(<<224 + c \div 4096, Continuation(c \div 64), Continuation(p)>>,
                 <<224 + c \div 4096, Continuation(c \div 64), Continuation(c)>>, 3)
    BY AlikeTuples
  <2> QED
    BY <2>1, <2>2, <2>4, <2>5
<1>6. CASE c > 65535
  <2>1. /\ Utf8Bytes(c) = <<240 + c \div 262144, Continuation(c \div 4096), Continuation(c \div 64), Continuation(c)>>
        /\ Utf8Bytes(p) = <<240 + p \div 262144, Continuation(p \div 4096), Continuation(p \div 64), Continuation(p)>>
    BY <1>1, <1>6 DEF Utf8Shape
  <2>2. Len(Utf8Bytes(c)) = 4 /\ PlaceIn(Utf8Bytes(c), 1) = 4
    BY <2>1, TupleLengths DEF PlaceIn
  <2>3. c \div 64 = p \div 64 /\ c \div 4096 = p \div 4096 /\ c \div 262144 = p \div 262144
    BY <1>3, <1>6, <2>2
  <2>4. Utf8Bytes(p) = <<240 + c \div 262144, Continuation(c \div 4096), Continuation(c \div 64), Continuation(p)>>
    BY <2>1, <2>3
  <2>5. AlikeBut(<<240 + c \div 262144, Continuation(c \div 4096), Continuation(c \div 64), Continuation(p)>>,
                 <<240 + c \div 262144, Continuation(c \div 4096), Continuation(c \div 64), Continuation(c)>>, 4)
    BY AlikeTuples
  <2> QED
    BY <2>1, <2>2, <2>4, <2>5
<1>7. c < 128 \/ (c >= 128 /\ c <= 2047) \/ (c >= 2048 /\ c <= 65535) \/ c > 65535
  OBVIOUS
<1> QED
  BY <1>2, <1>4, <1>5, <1>6, <1>7

\* The bytes of a unit, in the order of the encoding.
LEMMA UnitIsTuple ==
  ASSUME NEW x, NEW le \in BOOLEAN
  PROVE  UnitBytes(x, le) = IF le THEN <<x % 256, x \div 256>> ELSE <<x \div 256, x % 256>>
<1>1. UnitBytes(x, le) = IF le THEN Reverse(<<x \div 256, x % 256>>) ELSE <<x \div 256, x % 256>>
  BY DEF UnitBytes, TwoBytes
<1> QED
  BY <1>1, ReverseFew

\* How far from the end the running byte of UTF-16, and of UTF-32, is.
Low16(le) == IF le THEN 2 ELSE 1
Low32(le) == IF le THEN 4 ELSE 1

\* The place in a unit of the byte that changes first.
FirstInUnit(le) == IF le THEN 1 ELSE 2

\* Units that agree in the higher byte are alike but for the lower one.
LEMMA UnitsAlike ==
  ASSUME NEW x, NEW y, NEW h, x \div 256 = h, y \div 256 = h, NEW le \in BOOLEAN
  PROVE  /\ AlikeBut(UnitBytes(y, le), UnitBytes(x, le), FirstInUnit(le))
         /\ LongAs(UnitBytes(x, le), 2) /\ LongAs(UnitBytes(y, le), 2)
<1> DEFINE a == x % 256
           b == y % 256
<1>1. /\ UnitBytes(x, le) = (IF le THEN <<a, h>> ELSE <<h, a>>)
      /\ UnitBytes(y, le) = (IF le THEN <<b, h>> ELSE <<h, b>>)
  BY UnitIsTuple
<1> HIDE DEF a, b
<1>2. \A i, j : LongAs(<<i, j>>, 2)
  BY TupleLong
<1>3. /\ \A i, j : AlikeBut(<<h, i>>, <<h, j>>, 2)
      /\ \A i, j : AlikeBut(<<i, h>>, <<j, h>>, 1)
  BY AlikeTuples
<1>4. CASE le = TRUE
  <2>1. UnitBytes(x, le) = <<a, h>> /\ UnitBytes(y, le) = <<b, h>> /\ FirstInUnit(le) = 1
    BY <1>1, <1>4 DEF FirstInUnit
  <2> QED
    BY <1>2, <1>3, <2>1, SMTT(60)
<1>5. CASE le = FALSE
  <2>1. UnitBytes(x, le) = <<h, a>> /\ UnitBytes(y, le) = <<h, b>> /\ FirstInUnit(le) = 2
    BY <1>1, <1>5 DEF FirstInUnit
  <2> QED
    BY <1>2, <1>3, <2>1, SMTT(60)
<1> QED
  BY <1>4, <1>5, Zenon

\* What is alike but at one place is so behind two more bytes.
LEMMA AlikeBehind ==
  ASSUME NEW r, LongAs(r, 2), NEW s, LongAs(s, 2), NEW t, LongAs(t, 2), NEW at \in 1..2, AlikeBut(s, t, at)
  PROVE  AlikeBut(r \o s, r \o t, at + 2) /\ Len(r \o t) = 4
<1>0. 2 \in Nat
  OBVIOUS
<1>1. Joins(r \o s, r, 2, s, 2)
  BY <1>0, JoinSequences
<1>2. Joins(r \o t, r, 2, t, 2)
  BY <1>0, JoinSequences
<1>3. Len(r \o s) = 4 /\ Len(r \o t) = 4 /\ Len(s) = 2
  BY <1>1, <1>2 DEF Joins, LongAs
<1>4. ASSUME NEW k \in 1..4, k # at + 2 PROVE (r \o s)[k] = (r \o t)[k]
  <2>1. CASE k \in 1..2
    BY <1>1, <1>2, <2>1 DEF Joins
  <2>2. CASE k - 2 \in 1..2
    <3>1. s[k - 2] = t[k - 2]
      BY <1>3, <1>4, <2>2 DEF AlikeBut
    <3>2. 2 + (k - 2) = k
      OBVIOUS
    <3> QED
      BY <1>1, <1>2, <2>2, <3>1, <3>2 DEF Joins
  <2>3. k \in 1..2 \/ k - 2 \in 1..2
    OBVIOUS
  <2> QED
    BY <2>1, <2>2, <2>3
<1> QED
  BY <1>3, <1>4 DEF AlikeBut

\* Of neighbours that are alike but for the lowest eight bits, the parts in front are the same.
LEMMA NeighbourParts ==
  ASSUME NEW c \in Nat, NEW p \in Nat, p + 1 = c, c % 256 # 0
  PROVE  p \div 256 = c \div 256 /\ High(p) = High(c) /\ Low(p) \div 256 = Low(c) \div 256
<1>1. c \div 256 = p \div 256 /\ c \div 1024 = p \div 1024
  BY SMT
<1>2. Low(c) \div 256 = Low(p) \div 256
  BY SMT DEF Low
<1> QED
  BY <1>1, <1>2 DEF High

\* UTF-16: the codes of two neighbours in a block.
LEMMA Utf16Next ==
  ASSUME NEW c \in Nat, NEW p \in Nat, p + 1 = c, c # 65536, c % 256 # 0, NEW le \in BOOLEAN
  PROVE  /\ AlikeBut(Utf16Bytes(p, le), Utf16Bytes(c, le), PlaceIn(Utf16Bytes(c, le), Low16(le)))
         /\ Len(Utf16Bytes(c, le)) \in {2, 4}
<1>1. Utf16Shape(c, le) /\ Utf16Shape(p, le)
  BY Utf16Written
<1>2. p \div 256 = c \div 256 /\ High(p) = High(c) /\ Low(p) \div 256 = Low(c) \div 256
  BY NeighbourParts
<1>3. FirstInUnit(le) \in 1..2 /\ Low16(le) \in 1..2 /\ FirstInUnit(le) = 3 - Low16(le)
  BY DEF FirstInUnit, Low16
<1>4. CASE c < 65536
  <2>1. Utf16Bytes(c, le) = UnitBytes(c, le) /\ Utf16Bytes(p, le) = UnitBytes(p, le)
    BY <1>1, <1>4 DEF Utf16Shape
  <2>2. AlikeBut(UnitBytes(p, le), UnitBytes(c, le), FirstInUnit(le)) /\ Len(UnitBytes(c, le)) = 2
    <3>1. AlikeBut(UnitBytes(p, le), UnitBytes(c, le), FirstInUnit(le)) /\ LongAs(UnitBytes(c, le), 2)
      BY <1>2, UnitsAlike
    <3> QED
      BY <3>1 DEF LongAs
  <2>3. PlaceIn(UnitBytes(c, le), Low16(le)) = FirstInUnit(le)
    <3>1. PlaceIn(UnitBytes(c, le), Low16(le)) = 2 + 1 - Low16(le)
      BY <2>2 DEF PlaceIn
    <3> QED
      BY <1>3, <3>1
  <2> QED
    BY <2>1, <2>2, <2>3
<1>5. CASE c >= 65536
  <2>1. /\ Utf16Bytes(c, le) = UnitBytes(High(c), le) \o UnitBytes(Low(c), le)
        /\ Utf16Bytes(p, le) = UnitBytes(High(p), le) \o UnitBytes(Low(p), le)
    BY <1>1, <1>5, SMTT(60) DEF Utf16Shape
  <2>2. /\ AlikeBut(UnitBytes(Low(p), le), UnitBytes(Low(c), le), FirstInUnit(le))
        /\ LongAs(UnitBytes(Low(p), le), 2) /\ LongAs(UnitBytes(Low(c), le), 2)
        /\ LongAs(UnitBytes(High(c), le), 2)
    BY <1>2, UnitsAlike
  <2>3. AlikeBut(UnitBytes(High(c), le) \o UnitBytes(Low(p), le),
                 UnitBytes(High(c), le) \o UnitBytes(Low(c), le), FirstInUnit(le) + 2)
    BY <1>3, <2>2, AlikeBehind
  <2>4. Len(UnitBytes(High(c), le) \o UnitBytes(Low(c), le)) = 4
    BY <1>3, <2>2, AlikeBehind
  <2>5. PlaceIn(Utf16Bytes(c, le), Low16(le)) = FirstInUnit(le) + 2
    <3>1. Len(Utf16Bytes(c, le)) = 4
      BY <2>1, <2>4
    <3>2. PlaceIn(Utf16Bytes(c, le), Low16(le)) = 4 + 1 - Low16(le)
      BY <3>1 DEF PlaceIn
    <3> QED
      BY <1>3, <3>2
  <2> QED
    BY <1>2, <2>1, <2>3, <2>4, <2>5
<1>6. c < 65536 \/ c >= 65536
  OBVIOUS
<1> QED
  BY <1>4, <1>5, <1>6

\* UTF-32: the codes of two neighbours in a block.
LEMMA Utf32Next ==
  ASSUME NEW c \in Nat, NEW p \in Nat, p + 1 = c, c % 256 # 0, NEW le \in BOOLEAN
  PROVE  /\ AlikeBut(Utf32Bytes(p, le), Utf32Bytes(c, le), PlaceIn(Utf32Bytes(c, le), Low32(le)))
         /\ Len(Utf32Bytes(c, le)) = 4
<1>1. c \div 256 = p \div 256 /\ c \div 65536 = p \div 65536 /\ c \div 16777216 = p \div 16777216
  BY SMT
<1> DEFINE x == c \div 16777216
           y == (c \div 65536) % 256
           z == (c \div 256) % 256
           a == p % 256
           b == c % 256
<1>2. FourBytes(c) = <<x, y, z, b>> /\ FourBytes(p) = <<x, y, z, a>>
  BY <1>1 DEF FourBytes
<1> HIDE DEF x, y, z, a, b
<1>3. CASE le = TRUE
  <2>1. Utf32Bytes(c, le) = <<b, z, y, x>> /\ Utf32Bytes(p, le) = <<a, z, y, x>>
    BY <1>2, <1>3, ReverseFew DEF Utf32Bytes
  <2>2. Len(Utf32Bytes(c, le)) = 4 /\ PlaceIn(Utf32Bytes(c, le), Low32(le)) = 1
    BY <1>3, <2>1, TupleLengths DEF PlaceIn, Low16, Low32
  <2> QED
    BY <2>1, <2>2, AlikeTuples
<1>4. CASE le = FALSE
  <2>1. Utf32Bytes(c, le) = <<x, y, z, b>> /\ Utf32Bytes(p, le) = <<x, y, z, a>>
    BY <1>2, <1>4 DEF Utf32Bytes
  <2>2. Len(Utf32Bytes(c, le)) = 4 /\ PlaceIn(Utf32Bytes(c, le), Low32(le)) = 4
    BY <1>4, <2>1, TupleLengths DEF PlaceIn, Low16, Low32
  <2> QED
    BY <2>1, <2>2, AlikeTuples
<1> QED
  BY <1>3, <1>4

\* The lengths of UTF-16 and of UTF-32.
LEMMA UnitLengths ==
  ASSUME NEW c \in Nat, NEW le \in BOOLEAN
  PROVE  Len(Utf16Bytes(c, le)) \in {2, 4} /\ Len(Utf32Bytes(c, le)) = 4
<1>1. Utf16Shape(c, le)
  BY Utf16Written
<1>2. \A x : LongAs(UnitBytes(x, le), 2)
  BY UnitsAlike
<1>3. \A x, y : Len(UnitBytes(x, le) \o UnitBytes(y, le)) = 4
  <2> SUFFICES ASSUME NEW x, NEW y PROVE Len(UnitBytes(x, le) \o UnitBytes(y, le)) = 4
    OBVIOUS
  <2>1. 2 \in Nat /\ LongAs(UnitBytes(x, le), 2) /\ LongAs(UnitBytes(y, le), 2)
    BY <1>2
  <2>2. Joins(UnitBytes(x, le) \o UnitBytes(y, le), UnitBytes(x, le), 2, UnitBytes(y, le), 2)
    BY <2>1, JoinSequences
  <2> QED
    BY <2>2 DEF Joins, LongAs
<1>4. Len(Utf16Bytes(c, le)) \in {2, 4}
  <2>1. CASE c < 65536
    <3>1. Utf16Bytes(c, le) = UnitBytes(c, le) /\ Len(UnitBytes(c, le)) = 2
      BY <1>1, <1>2, <2>1 DEF Utf16Shape, LongAs
    <3> QED
      BY <3>1
  <2>2. CASE c >= 65536
    <3>1. Utf16Bytes(c, le) = UnitBytes(High(c), le) \o UnitBytes(Low(c), le)
      BY <1>1, <2>2 DEF Utf16Shape
    <3> QED
      BY <1>3, <3>1
  <2> QED
    BY <2>1, <2>2
<1>5. Len(Utf32Bytes(c, le)) = 4
  <2> DEFINE x == c \div 16777216
             y == (c \div 65536) % 256
             z == (c \div 256) % 256
             b == c % 256
  <2>1. FourBytes(c) = <<x, y, z, b>>
    BY DEF FourBytes
  <2> HIDE DEF x, y, z, b
  <2>2. Utf32Bytes(c, le) = (IF le THEN Reverse(<<x, y, z, b>>) ELSE <<x, y, z, b>>)
    BY <2>1 DEF Utf32Bytes
  <2>3. Utf32Bytes(c, le) = <<b, z, y, x>> \/ Utf32Bytes(c, le) = <<x, y, z, b>>
    BY <2>2, ReverseFew
  <2> QED
    BY <2>3, TupleLengths
<1> QED
  BY <1>4, <1>5

\* The codes of an encoder are bytes.
ByteCodes(e) == \A c \in DOMAIN e.code : c \in Nat /\ ByteCode(e.code[c])

\* An encoder that collects code point by code point ...
LEMMA PlainIsEncoder ==
  ASSUME NEW e, ByteCodes(e), e.block = 0
  PROVE  IsEncoder(e)
<1>1. ASSUME NEW c \in DOMAIN e.code PROVE RunningByte(e, e.code[c]) \in 1..Len(e.code[c])
  <2>1. PICK w \in 1..4 : ByteSeq(e.code[c], w)
    BY DEF ByteCodes, ByteCode
  <2>2. RunningByte(e, e.code[c]) = Len(e.code[c]) /\ Len(e.code[c]) = w
    BY <2>1 DEF RunningByte, ByteSeq, LongAs
  <2> QED
    BY <2>2
<1>2. ASSUME NEW p \in DOMAIN e.code, NEW c \in DOMAIN e.code, JoinsRange(e, p, c)
      PROVE  AlikeBut(e.code[p], e.code[c], RunningByte(e, e.code[c]))
  <2> DEFINE s == e.code[p]
             u == e.code[c]
  <2>1. ByteCode(s) /\ ByteCode(u)
    BY DEF ByteCodes
  <2>2. Len(s) = Len(u) /\ Front(s) = Front(u) /\ RunningByte(e, u) = Len(u)
    BY <1>2 DEF JoinsRange, SamePrefix, RunningByte
  <2> HIDE DEF s, u
  <2>3. PICK w \in 1..4 : LongAs(u, w)
    BY <2>1 DEF ByteCode, ByteSeq
  <2>4. LongAs(s, w)
    <3>1. PICK v \in 1..4 : LongAs(s, v)
      BY <2>1 DEF ByteCode, ByteSeq
    <3> QED
      BY <2>2, <2>3, <3>1 DEF LongAs
  <2>5. SubSeq(s, 1, w - 1) = SubSeq(u, 1, w - 1) /\ Len(u) = w /\ Len(s) = w
    BY <2>2, <2>3, <2>4 DEF Front, LongAs
  <2>6. ASSUME NEW t, LongAs(t, w) PROVE \A k \in 1..w - 1 : SubSeq(t, 1, w - 1)[k] = t[k]
    <3>1. w \in Nat /\ 0 \in Nat /\ w - 1 \in Nat /\ 0 <= w - 1 /\ w - 1 <= w /\ 0 + 1 = 1
      OBVIOUS
    <3>2. IsPart(SubSeq(t, 0 + 1, w - 1), t, 0, w - 1)
      BY <2>6, <3>1, PartOfSequence
    <3>3. \A k \in 1..(w - 1) - 0 : SubSeq(t, 1, w - 1)[k] = t[0 + k]
      BY <3>1, <3>2 DEF IsPart
    <3>4. (w - 1) - 0 = w - 1 /\ \A k \in 1..w - 1 : 0 + k = k
      OBVIOUS
    <3> QED
      BY <3>3, <3>4
  <2>7. \A k \in 1..w : k # w => k \in 1..w - 1
    OBVIOUS
  <2>8. \A k \in 1..w : k # w => s[k] = u[k]
    BY <2>3, <2>4, <2>5, <2>6, <2>7
  <2>9. AlikeBut(s, u, w)
    BY <2>5, <2>8 DEF AlikeBut
  <2> QED
    BY <2>2, <2>5, <2>9 DEF s, u
<1> QED
  BY <1>1, <1>2 DEF IsEncoder, ByteCodes

\* The running byte is one of a code.
LEMMA PlaceInside ==
  ASSUME NEW u, NEW n \in 1..4, Len(u) = n, NEW low, n = 1 \/ low \in 1..n
  PROVE  PlaceIn(u, low) \in 1..n
<1>1. CASE n = 1
  BY <1>1 DEF PlaceIn
<1>2. CASE n # 1
  <2>1. PlaceIn(u, low) = n + 1 - low
    BY <1>2 DEF PlaceIn
  <2> QED
    BY <1>2, <2>1
<1> QED
  BY <1>1, <1>2

\* Within a block of B(c), one byte runs; edges are left out.
RunsInBlocks(B, low, block, edges) ==
  /\ \A c \in Nat : PlaceIn(B[c], low) \in 1..Len(B[c])
  /\ \A c, p \in Nat :
       p + 1 = c /\ c \notin edges /\ (Len(B[c]) = 1 \/ c % block # 0) =>
         AlikeBut(B[p], B[c], PlaceIn(B[c], low))

\* ... and one that collects block by block.
LEMMA BlocksMakeEncoder ==
  ASSUME NEW e, ByteCodes(e), NEW B, \A c \in DOMAIN e.code : e.code[c] = B[c],
         NEW low, NEW block \in {64, 256}, NEW edges, RunsInBlocks(B, low, block, edges),
         e.block = block, e.low = low, edges \subseteq e.limits
  PROVE  IsEncoder(e)
<1>0. e.block # 0
  OBVIOUS
<1>1. \A u : RunningByte(e, u) = PlaceIn(u, low)
  BY <1>0, Zenon DEF RunningByte, PlaceIn
<1>2. ASSUME NEW c \in DOMAIN e.code
      PROVE  c \in Nat /\ ByteCode(e.code[c]) /\ RunningByte(e, e.code[c]) \in 1..Len(e.code[c])
  <2>1. c \in Nat /\ ByteCode(e.code[c])
    BY DEF ByteCodes
  <2>2. PlaceIn(B[c], low) \in 1..Len(B[c])
    BY <2>1 DEF RunsInBlocks
  <2> QED
    BY <1>1, <2>1, <2>2
<1>3. ASSUME NEW p \in DOMAIN e.code, NEW c \in DOMAIN e.code, JoinsRange(e, p, c)
      PROVE  AlikeBut(e.code[p], e.code[c], RunningByte(e, e.code[c]))
  <2>1. SameBlock(e, p, c)
    BY <1>0, <1>3 DEF JoinsRange
  <2>2. p + 1 = c /\ c \notin edges /\ (Len(B[c]) = 1 \/ c % block # 0)
    BY <2>1 DEF SameBlock
  <2>3. p \in Nat /\ c \in Nat
    BY <1>2
  <2>4. AlikeBut(B[p], B[c], PlaceIn(B[c], low))
    BY <2>2, <2>3, ZenonT(60) DEF RunsInBlocks
  <2> QED
    BY <1>1, <2>4
<1> QED
  BY <1>2, <1>3, Zenon DEF IsEncoder

\* The codes of natural numbers.
Utf8All == [c \in Nat |-> Utf8Bytes(c)]
Utf16All(le) == [c \in Nat |-> Utf16Bytes(c, le)]
Utf32All(le) == [c \in Nat |-> Utf32Bytes(c, le)]

\* UTF-8 runs in blocks of 64, one byte at the end running.
LEMMA Utf8Blocks == RunsInBlocks(Utf8All, 1, 64, {128, 2048, 65536})
<1>1. \A c \in Nat : PlaceIn(Utf8Bytes(c), 1) \in 1..Len(Utf8Bytes(c))
  <2> SUFFICES ASSUME NEW c \in Nat PROVE PlaceIn(Utf8Bytes(c), 1) \in 1..Len(Utf8Bytes(c))
    OBVIOUS
  <2>1. Utf8Shape(c) /\ (c < 128 \/ (c >= 128 /\ c <= 2047) \/ (c >= 2048 /\ c <= 65535) \/ c > 65535)
    BY Utf8Written
  <2>2. Len(Utf8Bytes(c)) \in 1..4
    BY <2>1, TupleLengths DEF Utf8Shape
  <2>3. 1 \in 1..Len(Utf8Bytes(c))
    BY <2>2
  <2> QED
    BY <2>2, <2>3, PlaceInside
<1>2. \A c, p \in Nat : p + 1 = c /\ c \notin {128, 2048, 65536} /\ (Len(Utf8Bytes(c)) = 1 \/ c % 64 # 0) =>
        AlikeBut(Utf8Bytes(p), Utf8Bytes(c), PlaceIn(Utf8Bytes(c), 1))
  BY Utf8Next
<1>3. \A c \in Nat : Utf8All[c] = Utf8Bytes(c)
  BY DEF Utf8All
<1>4. \A c \in Nat : PlaceIn(Utf8All[c], 1) \in 1..Len(Utf8All[c])
  BY <1>1, <1>3
<1>5. ASSUME NEW c \in Nat, NEW p \in Nat, p + 1 = c, c \notin {128, 2048, 65536},
             Len(Utf8All[c]) = 1 \/ c % 64 # 0
      PROVE  AlikeBut(Utf8All[p], Utf8All[c], PlaceIn(Utf8All[c], 1))
  <2>1. Utf8All[c] = Utf8Bytes(c) /\ Utf8All[p] = Utf8Bytes(p)
    BY <1>3
  <2>2. Len(Utf8Bytes(c)) = 1 \/ c % 64 # 0
    BY <1>5, <2>1
  <2>3. AlikeBut(Utf8Bytes(p), Utf8Bytes(c), PlaceIn(Utf8Bytes(c), 1))
    BY <1>2, <1>5, <2>2
  <2> QED
    BY <2>1, <2>3
<1> QED
  BY <1>4, <1>5, SMT DEF RunsInBlocks

\* UTF-16 runs in blocks of 256, the lower byte of the last unit running.
LEMMA Utf16Blocks == ASSUME NEW le \in BOOLEAN PROVE RunsInBlocks(Utf16All(le), Low16(le), 256, {65536})
<1>1. ASSUME NEW c \in Nat PROVE PlaceIn(Utf16Bytes(c, le), Low16(le)) \in 1..Len(Utf16Bytes(c, le))
  <2>1. Low16(le) \in 1..2
    BY DEF Low16
  <2>2. Len(Utf16Bytes(c, le)) \in 1..4 /\ 2 <= Len(Utf16Bytes(c, le))
    <3> DEFINE n == Len(Utf16Bytes(c, le))
    <3>1. n \in {2, 4}
      BY UnitLengths
    <3> HIDE DEF n
    <3>2. n \in 1..4 /\ 2 <= n
      BY <3>1
    <3> QED
      BY <3>2 DEF n
  <2>3. Low16(le) \in 1..Len(Utf16Bytes(c, le))
    BY <2>1, <2>2
  <2> QED
    BY <2>2, <2>3, PlaceInside
<1>2. ASSUME NEW c \in Nat, NEW p \in Nat, p + 1 = c, c \notin {65536}, Len(Utf16Bytes(c, le)) = 1 \/ c % 256 # 0
      PROVE  AlikeBut(Utf16Bytes(p, le), Utf16Bytes(c, le), PlaceIn(Utf16Bytes(c, le), Low16(le)))
  <2>1. Len(Utf16Bytes(c, le)) # 1
    BY UnitLengths
  <2>2. c % 256 # 0 /\ c # 65536
    BY <1>2, <2>1
  <2> QED
    BY <1>2, <2>2, Utf16Next
<1>3. \A c \in Nat : Utf16All(le)[c] = Utf16Bytes(c, le)
  BY DEF Utf16All
<1>4. \A c \in Nat : PlaceIn(Utf16All(le)[c], Low16(le)) \in 1..Len(Utf16All(le)[c])
  BY <1>1, <1>3
<1>5. ASSUME NEW c \in Nat, NEW p \in Nat, p + 1 = c, c \notin {65536},
             Len(Utf16All(le)[c]) = 1 \/ c % 256 # 0
      PROVE  AlikeBut(Utf16All(le)[p], Utf16All(le)[c], PlaceIn(Utf16All(le)[c], Low16(le)))
  <2>1. Utf16All(le)[c] = Utf16Bytes(c, le) /\ Utf16All(le)[p] = Utf16Bytes(p, le)
    BY <1>3
  <2>2. Len(Utf16Bytes(c, le)) = 1 \/ c % 256 # 0
    BY <1>5, <2>1
  <2>3. AlikeBut(Utf16Bytes(p, le), Utf16Bytes(c, le), PlaceIn(Utf16Bytes(c, le), Low16(le)))
    BY <1>2, <1>5, <2>2
  <2> QED
    BY <2>1, <2>3
<1> QED
  BY <1>4, <1>5, SMT DEF RunsInBlocks

\* UTF-32 runs in blocks of 256, the lowest byte running.
LEMMA Utf32Blocks == ASSUME NEW le \in BOOLEAN PROVE RunsInBlocks(Utf32All(le), Low32(le), 256, {})
<1>1. ASSUME NEW c \in Nat PROVE PlaceIn(Utf32Bytes(c, le), Low32(le)) \in 1..Len(Utf32Bytes(c, le))
  <2>1. Low32(le) \in 1..4
    BY DEF Low32
  <2>2. Len(Utf32Bytes(c, le)) = 4
    BY UnitLengths
  <2> QED
    BY <2>1, <2>2, PlaceInside
<1>2. ASSUME NEW c \in Nat, NEW p \in Nat, p + 1 = c, c \notin {}, Len(Utf32Bytes(c, le)) = 1 \/ c % 256 # 0
      PROVE  AlikeBut(Utf32Bytes(p, le), Utf32Bytes(c, le), PlaceIn(Utf32Bytes(c, le), Low32(le)))
  <2>1. Len(Utf32Bytes(c, le)) # 1
    BY UnitLengths
  <2>2. c % 256 # 0
    BY <1>2, <2>1
  <2> QED
    BY <1>2, <2>2, Utf32Next
<1>3. \A c \in Nat : Utf32All(le)[c] = Utf32Bytes(c, le)
  BY DEF Utf32All
<1> QED
  BY <1>1, <1>2, <1>3, Zenon DEF RunsInBlocks

\* So each of the UTF encoders has codes of one to four bytes that differ in a block at the
\* running byte only.
LEMMA UtfIsEncoder ==
  ASSUME NEW V, V \subseteq Nat, NEW encoding \in Encodings, encoding # "ASCII"
  PROVE  IsEncoder(BaseOf(encoding, V))
<1> DEFINE e == BaseOf(encoding, V)
<1>1. /\ \A c : c \in DOMAIN e.code <=> c \in V /\ IsChar(encoding, c)
      /\ \A c \in DOMAIN e.code : e.code[c] = BytesOf(encoding, c)
  <2>1. e.code = [c \in {x \in V : IsChar(encoding, x)} |-> BytesOf(encoding, c)]
    BY BaseCodes
  <2> HIDE DEF e
  <2> QED
    BY <2>1
<1>2. ByteCodes(e)
  <2> HIDE DEF e
  <2> SUFFICES ASSUME NEW c \in DOMAIN e.code PROVE c \in Nat /\ ByteCode(e.code[c])
    BY DEF ByteCodes
  <2> QED
    BY <1>1, CharIsNumber, CodeIsBytes
<1>3. CASE encoding = "UTF-8"
  <2>1. e = UTF8(V) /\ \A c : BytesOf(encoding, c) = Utf8Bytes(c)
    BY <1>3 DEF BaseOf, BytesOf
  <2>2. UTF8(V).block = 64 /\ UTF8(V).low = 1 /\ UTF8(V).limits = {128, 2048, 55296, 57344, 65536}
    BY DEF UTF8, Utf
  <2> HIDE DEF e
  <2>3. e.block = 64 /\ e.low = 1 /\ {128, 2048, 65536} \subseteq e.limits
    BY <2>1, <2>2
  <2>4. \A c \in DOMAIN e.code : e.code[c] = Utf8All[c]
    BY <1>1, <1>2, <2>1 DEF Utf8All, ByteCodes
  <2>5. 64 \in {64, 256}
    OBVIOUS
  <2>6. IsEncoder(e)
    BY <1>2, <2>3, <2>4, <2>5, Utf8Blocks, BlocksMakeEncoder
  <2> QED
    BY <2>6 DEF e
<1> DEFINE Writes16(le) == \A c : BytesOf(encoding, c) = Utf16Bytes(c, le)
           Collects16(le) == e.block = 256 /\ e.low = Low16(le) /\ 65536 \in e.limits
<1>4. ASSUME NEW le \in BOOLEAN, Writes16(le), Collects16(le) PROVE IsEncoder(e)
  <2> HIDE DEF e
  <2>1. \A c \in DOMAIN e.code : e.code[c] = Utf16All(le)[c]
    BY <1>1, <1>2, <1>4 DEF Utf16All, ByteCodes
  <2>2. 256 \in {64, 256} /\ {65536} \subseteq e.limits
    BY <1>4
  <2> QED
    BY <1>2, <1>4, <2>1, <2>2, Utf16Blocks, BlocksMakeEncoder
<1>5. ASSUME NEW le \in BOOLEAN, \A c : BytesOf(encoding, c) = Utf32Bytes(c, le),
             e.block = 256, e.low = Low32(le)
      PROVE  IsEncoder(e)
  <2> HIDE DEF e
  <2>1. \A c \in DOMAIN e.code : e.code[c] = Utf32All(le)[c]
    BY <1>1, <1>2, <1>5 DEF Utf32All, ByteCodes
  <2>2. 256 \in {64, 256} /\ {} \subseteq e.limits
    BY <1>5
  <2> QED
    BY <1>2, <1>5, <2>1, <2>2, Utf32Blocks, BlocksMakeEncoder
<1> HIDE DEF Writes16, Collects16
<1>6. TRUE \in BOOLEAN /\ FALSE \in BOOLEAN
  OBVIOUS
<1>7. CASE encoding = "UTF-16LE"
  <2>1. e = UTF16LE(V)
    BY <1>7 DEF BaseOf
  <2>2. UTF16LE(V).block = 256 /\ UTF16LE(V).low = 2 /\ UTF16LE(V).limits = {55296, 57344, 65536}
    BY DEF UTF16LE, Utf
  <2> HIDE DEF e
  <2>3. Collects16(TRUE)
    BY <2>1, <2>2, SMT DEF Low16, Collects16
  <2>4. Writes16(TRUE)
    BY <1>7 DEF BytesOf, Writes16
  <2>5. IsEncoder(e)
    BY <1>4, <1>6, <2>3, <2>4, Zenon
  <2> QED
    BY <2>5 DEF e
<1>8. CASE encoding = "UTF-16BE"
  <2>1. e = UTF16BE(V)
    BY <1>8 DEF BaseOf
  <2>2. UTF16BE(V).block = 256 /\ UTF16BE(V).low = 1 /\ UTF16BE(V).limits = {55296, 57344, 65536}
    BY DEF UTF16BE, Utf
  <2> HIDE DEF e
  <2>3. Collects16(FALSE)
    BY <2>1, <2>2, SMT DEF Low16, Collects16
  <2>4. Writes16(FALSE)
    BY <1>8 DEF BytesOf, Writes16
  <2>5. IsEncoder(e)
    BY <1>4, <1>6, <2>3, <2>4, Zenon
  <2> QED
    BY <2>5 DEF e
<1>9. CASE encoding = "UTF-32LE"
  <2>1. e = UTF32LE(V) /\ \A c : BytesOf(encoding, c) = Utf32Bytes(c, TRUE)
    BY <1>9 DEF BaseOf, BytesOf
  <2>2. UTF32LE(V).block = 256 /\ UTF32LE(V).low = 4
    BY DEF UTF32LE, Utf
  <2>3. Low32(TRUE) = 4 /\ TRUE \in BOOLEAN
    BY DEF Low32
  <2> HIDE DEF e
  <2>4. e.block = 256 /\ e.low = Low32(TRUE)
    BY <2>1, <2>2, <2>3, Zenon
  <2>5. IsEncoder(e)
    BY <1>5, <2>1, <2>3, <2>4, Zenon
  <2> QED
    BY <2>5 DEF e
<1>10. CASE encoding = "UTF-32BE"
  <2>1. e = UTF32BE(V) /\ \A c : BytesOf(encoding, c) = Utf32Bytes(c, FALSE)
    BY <1>10 DEF BaseOf, BytesOf
  <2>2. UTF32BE(V).block = 256 /\ UTF32BE(V).low = 1
    BY DEF UTF32BE, Utf
  <2>3. Low32(FALSE) = 1 /\ FALSE \in BOOLEAN
    BY DEF Low32
  <2> HIDE DEF e
  <2>4. e.block = 256 /\ e.low = Low32(FALSE)
    BY <2>1, <2>2, <2>3, Zenon
  <2>5. IsEncoder(e)
    BY <1>5, <2>1, <2>3, <2>4, Zenon
  <2> QED
    BY <2>5 DEF e
<1> QED
  BY <1>3, <1>7, <1>8, <1>9, <1>10 DEF Encodings

\* The encoder of every chain is one.
LEMMA ChainIsEncoder ==
  ASSUME NEW chain, KnownChain(chain), NEW W, W \subseteq Nat
  PROVE  IsEncoder(EncoderOf(chain, W))
<1> DEFINE rot == chain.rot
           encoding == chain.encoding
           V == W \cup {Rotated(rot, c) : c \in W}
           base == BaseOf(encoding, V)
           bytewise == IF chain.bytes = "OCE" THEN Bytewise(OCE, base) ELSE base
           e == EncoderOf(chain, W)
<1>1. e = IF rot = 0 THEN bytewise ELSE Rot(rot, bytewise, W)
  BY DEF EncoderOf, BaseOf
<1>2. rot \in 0..25 /\ encoding \in Encodings
  BY DEF KnownChain
<1>3. \A c \in W : Rotated(rot, c) \in Nat
  <2> SUFFICES ASSUME NEW c \in W PROVE Rotated(rot, c) \in Nat
    OBVIOUS
  <2>0. c \in Nat
    OBVIOUS
  <2> HIDE DEF rot
  <2>1. c \in Nat /\ (c \in 65..90 => (c - 65 + rot) % 26 \in 0..25) /\ (c \in 97..122 => (c - 97 + rot) % 26 \in 0..25)
    BY <1>2, <2>0
  <2> QED
    BY <2>1 DEF Rotated
<1>4. V \subseteq Nat
  BY <1>3
<1>5. ByteCodes(e)
  <2>1. CodesOfChain(e.code, chain, W)
    BY EncoderCodes
  <2> HIDE DEF e
  <2> SUFFICES ASSUME NEW c \in DOMAIN e.code PROVE c \in Nat /\ ByteCode(e.code[c])
    BY DEF ByteCodes
  <2>2. c \in W /\ IsChar(encoding, c) /\ e.code[c] = CodeIn(chain, c)
    BY <2>1 DEF CodesOfChain
  <2>3. PICK w \in 1..4 : CodeOf(chain, c, w)
    BY <2>2, CharHasCode
  <2> QED
    <3>1. ByteSeq(CodeIn(chain, c), w)
      BY <2>3 DEF CodeOf, ByteSeq
    <3>2. c \in Nat
      BY <2>2
    <3> QED
      BY <2>2, <3>1, <3>2 DEF ByteCode
<1>6. CASE rot # 0
  <2>1. e = Rot(rot, bytewise, W)
    BY <1>1, <1>6
  <2> HIDE DEF e, bytewise
  <2>2. e.block = 0
    BY <2>1 DEF Rot, Plain
  <2> QED
    BY <1>5, <2>2, PlainIsEncoder DEF e
<1>7. CASE rot = 0 /\ chain.bytes = "OCE"
  <2>1. e = Bytewise(OCE, base)
    BY <1>1, <1>7
  <2> HIDE DEF e, base
  <2>2. e.block = 0
    BY <2>1 DEF Bytewise, Plain
  <2> QED
    BY <1>5, <2>2, PlainIsEncoder DEF e
<1>8. CASE rot = 0 /\ chain.bytes # "OCE"
  <2>1. e = base
    BY <1>1, <1>8
  <2>2. CASE encoding = "ASCII"
    <3>1. base = Ascii(V)
      BY <2>2 DEF BaseOf
    <3>2. Ascii(V).block = 0
      BY DEF Ascii, Plain
    <3> HIDE DEF e, base
    <3>3. e.block = 0
      BY <2>1, <3>1, <3>2
    <3> QED
      BY <1>5, <3>3, PlainIsEncoder DEF e
  <2>3. CASE encoding # "ASCII"
    <3> HIDE DEF V, encoding, e
    <3>1. IsEncoder(base)
      BY <1>2, <1>4, <2>3, UtfIsEncoder
    <3> QED
      BY <2>1, <3>1 DEF e
  <2> QED
    BY <2>2, <2>3
<1> QED
  BY <1>6, <1>7, <1>8

-----------------------------------------------------------------------------
(* The tables kept for ".": they accept what is a whole code.              *)

\* Sets of bytes side by side fit byte by byte.
LEMMA FitsFew ==
  ASSUME NEW m \in 1..4, NEW s, LongAs(s, m)
  PROVE  /\ \A A : Fits(<<A>>, s) <=> m = 1 /\ s[1] \in A
         /\ \A A, B : Fits(<<A, B>>, s) <=> m = 2 /\ s[1] \in A /\ s[2] \in B
         /\ \A A, B, C : Fits(<<A, B, C>>, s) <=> m = 3 /\ s[1] \in A /\ s[2] \in B /\ s[3] \in C
         /\ \A A, B, C, D : Fits(<<A, B, C, D>>, s)
                              <=> m = 4 /\ s[1] \in A /\ s[2] \in B /\ s[3] \in C /\ s[4] \in D
<1>0. /\ m \in Nat /\ 1 \in Nat /\ 2 \in Nat /\ 3 \in Nat /\ 4 \in Nat
      /\ (\A j : j \in 1..1 <=> j = 1) /\ (\A j : j \in 1..2 <=> j = 1 \/ j = 2)
      /\ (\A j : j \in 1..3 <=> j = 1 \/ j = 2 \/ j = 3)
      /\ (\A j : j \in 1..4 <=> j = 1 \/ j = 2 \/ j = 3 \/ j = 4)
  OBVIOUS
<1>1. ASSUME NEW A PROVE Fits(<<A>>, s) <=> m = 1 /\ s[1] \in A
  <2>1. LongAs(<<A>>, 1) /\ <<A>>[1] = A
    BY TupleLong
  <2> DEFINE u == <<A>>
  <2> HIDE DEF u
  <2>2. Fits(u, s) <=> m = 1 /\ \A j \in 1..1 : s[j] \in u[j]
    BY <1>0, <2>1, FitsMeans DEF u
  <2>3. u[1] = A
    BY <2>1 DEF u
  <2>4. Fits(u, s) <=> m = 1 /\ s[1] \in A
    BY <1>0, <2>2, <2>3
  <2> QED
    BY <2>4 DEF u
<1>2. ASSUME NEW A, NEW B PROVE Fits(<<A, B>>, s) <=> m = 2 /\ s[1] \in A /\ s[2] \in B
  <2>1. LongAs(<<A, B>>, 2) /\ <<A, B>>[1] = A /\ <<A, B>>[2] = B
    BY TupleLong
  <2> DEFINE u == <<A, B>>
  <2> HIDE DEF u
  <2>2. Fits(u, s) <=> m = 2 /\ \A j \in 1..2 : s[j] \in u[j]
    BY <1>0, <2>1, FitsMeans DEF u
  <2>3. u[1] = A /\ u[2] = B
    BY <2>1 DEF u
  <2>4. Fits(u, s) <=> m = 2 /\ s[1] \in A /\ s[2] \in B
    BY <1>0, <2>2, <2>3
  <2> QED
    BY <2>4 DEF u
<1>3. ASSUME NEW A, NEW B, NEW C
      PROVE  Fits(<<A, B, C>>, s) <=> m = 3 /\ s[1] \in A /\ s[2] \in B /\ s[3] \in C
  <2>1. LongAs(<<A, B, C>>, 3) /\ <<A, B, C>>[1] = A /\ <<A, B, C>>[2] = B /\ <<A, B, C>>[3] = C
    BY TupleLong
  <2> DEFINE u == <<A, B, C>>
  <2> HIDE DEF u
  <2>2. Fits(u, s) <=> m = 3 /\ \A j \in 1..3 : s[j] \in u[j]
    BY <1>0, <2>1, FitsMeans DEF u
  <2>3. u[1] = A /\ u[2] = B /\ u[3] = C
    BY <2>1 DEF u
  <2>4. Fits(u, s) <=> m = 3 /\ s[1] \in A /\ s[2] \in B /\ s[3] \in C
    BY <1>0, <2>2, <2>3
  <2> QED
    BY <2>4 DEF u
<1>4. ASSUME NEW A, NEW B, NEW C, NEW D
      PROVE  Fits(<<A, B, C, D>>, s) <=> m = 4 /\ s[1] \in A /\ s[2] \in B /\ s[3] \in C /\ s[4] \in D
  <2>1. /\ LongAs(<<A, B, C, D>>, 4) /\ <<A, B, C, D>>[1] = A /\ <<A, B, C, D>>[2] = B
        /\ <<A, B, C, D>>[3] = C /\ <<A, B, C, D>>[4] = D
    BY TupleLong
  <2> DEFINE u == <<A, B, C, D>>
  <2> HIDE DEF u
  <2>2. Fits(u, s) <=> m = 4 /\ \A j \in 1..4 : s[j] \in u[j]
    BY <1>0, <2>1, FitsMeans DEF u
  <2>3. u[1] = A /\ u[2] = B /\ u[3] = C /\ u[4] = D
    BY <2>1 DEF u
  <2>4. Fits(u, s) <=> m = 4 /\ s[1] \in A /\ s[2] \in B /\ s[3] \in C /\ s[4] \in D
    BY <1>0, <2>2, <2>3
  <2> QED
    BY <2>4 DEF u
<1> QED
  BY <1>1, <1>2, <1>3, <1>4, Zenon

\* Tables of two codes and of eight.
LEMMA TwoAreAccepted ==
  ASSUME NEW a, NEW b, IsCode(a), IsCode(b), Len(b) # 1
  PROVE  InOrder(<<a, b>>) /\ \A s : Accepts(<<a, b>>, s) <=> Fits(a, s) \/ Fits(b, s)
<1> DEFINE w == <<a, b>>
<1>1. LongAs(w, 2) /\ w[1] = a /\ w[2] = b
  BY TupleLong
<1> HIDE DEF w
<1>2. DOMAIN w = 1..2 /\ 2 \in Nat
  <2>1. 2 \in Nat
    OBVIOUS
  <2> QED
    BY <1>1, <2>1, SequenceMeans
<1>3. (\A k : k \in 1..2 <=> k = 1 \/ k = 2) /\ (\A k : k \in 2..2 <=> k = 2)
  OBVIOUS
<1>4. InOrder(w)
  BY <1>1, <1>2, <1>3 DEF InOrder
<1>5. \A s : Accepts(w, s) <=> Fits(a, s) \/ Fits(b, s)
  BY <1>1, <1>2, <1>3 DEF Accepts
<1> QED
  BY <1>4, <1>5 DEF w

\* A table of eight codes accepts what one of them fits, and is in order.
LEMMA EightAreAccepted ==
  ASSUME NEW a, NEW b, NEW c, NEW d, NEW e, NEW f, NEW g, NEW h,
         IsCode(a), IsCode(b), IsCode(c), IsCode(d), IsCode(e), IsCode(f), IsCode(g), IsCode(h),
         Len(b) # 1, Len(c) # 1, Len(d) # 1, Len(e) # 1, Len(f) # 1, Len(g) # 1, Len(h) # 1
  PROVE  /\ InOrder(<<a, b, c, d, e, f, g, h>>)
         /\ \A s : Accepts(<<a, b, c, d, e, f, g, h>>, s)
                     <=> \/ Fits(a, s) \/ Fits(b, s) \/ Fits(c, s) \/ Fits(d, s)
                         \/ Fits(e, s) \/ Fits(f, s) \/ Fits(g, s) \/ Fits(h, s)
<1> DEFINE w == <<a, b, c, d, e, f, g, h>>
<1>1. /\ w = [k \in 1..8 |-> w[k]]
      /\ w[1] = a /\ w[2] = b /\ w[3] = c /\ w[4] = d /\ w[5] = e /\ w[6] = f /\ w[7] = g /\ w[8] = h
  BY SMT
<1> HIDE DEF w
<1>2. LongAs(w, 8) /\ DOMAIN w = 1..8 /\ 8 \in Nat
  <2>1. 8 \in Nat
    OBVIOUS
  <2> QED
    BY <1>1, <2>1, SequenceMeans
<1>3. /\ \A k : k \in 1..8 <=> k = 1 \/ k = 2 \/ k = 3 \/ k = 4 \/ k = 5 \/ k = 6 \/ k = 7 \/ k = 8
      /\ \A k : k \in 2..8 <=> k = 2 \/ k = 3 \/ k = 4 \/ k = 5 \/ k = 6 \/ k = 7 \/ k = 8
  OBVIOUS
<1>4. InOrder(w)
  <2>1. \A k \in 1..8 : IsCode(w[k])
    BY <1>1, <1>3
  <2>2. \A k \in 2..8 : Len(w[k]) # 1
    BY <1>1, <1>3
  <2> QED
    BY <1>2, <2>1, <2>2 DEF InOrder
<1>5. ASSUME NEW s
      PROVE  Accepts(w, s)
                     <=> \/ Fits(a, s) \/ Fits(b, s) \/ Fits(c, s) \/ Fits(d, s)
                         \/ Fits(e, s) \/ Fits(f, s) \/ Fits(g, s) \/ Fits(h, s)
  <2>1. Accepts(w, s) <=> \E k \in 1..8 : Fits(w[k], s)
    BY <1>2 DEF Accepts
  <2> QED
    BY <1>1, <1>3, <2>1
<1> QED
  BY <1>4, <1>5 DEF w

\* A byte behind the first.
Trails(b) == b \in 128..191

\* What the table of UTF-8 accepts.
BeginsThree(x, y) ==
  (x = 224 /\ y >= 160) \/ (x = 237 /\ y <= 159) \/ x \in (225..236) \cup (238..239)
BeginsFour(x, y)  == (x = 240 /\ y >= 144) \/ (x = 244 /\ y <= 143) \/ x \in 241..243

Utf8Row(s, m) ==
  \/ m = 1 /\ s[1] \in 0..127
  \/ m = 2 /\ s[1] \in 194..223 /\ Trails(s[2])
  \/ m = 3 /\ BeginsThree(s[1], s[2]) /\ Trails(s[2]) /\ Trails(s[3])
  \/ m = 4 /\ BeginsFour(s[1], s[2]) /\ Trails(s[2]) /\ Trails(s[3]) /\ Trails(s[4])

\* The table of UTF-8 accepts the sequences of its rows, and no other.
LEMMA Utf8DotMeans ==
  InOrder(Utf8Dot) /\ \A m \in 1..4 : \A s : LongAs(s, m) => (Accepts(Utf8Dot, s) <=> Utf8Row(s, m))
<1> DEFINE Trail == 128..191
           A1 == 0..127
           B1 == 194..223
           C1 == {224}
           C2 == 160..191
           D1 == {237}
           D2 == 128..159
           E1 == (225..236) \cup (238..239)
           F1 == {240}
           F2 == 144..191
           G1 == {244}
           G2 == 128..143
           H1 == 241..243
           a == <<A1>>
           b == <<B1, Trail>>
           c == <<C1, C2, Trail>>
           d == <<D1, D2, Trail>>
           e == <<E1, Trail, Trail>>
           f == <<F1, F2, Trail, Trail>>
           g == <<G1, G2, Trail, Trail>>
           h == <<H1, Trail, Trail, Trail>>
<1>1. Utf8Dot = <<a, b, c, d, e, f, g, h>>
  BY Zenon DEF Utf8Dot
<1> HIDE DEF Trail, A1, B1, C1, C2, D1, D2, E1, F1, F2, G1, G2, H1
<1>2. /\ LongAs(a, 1) /\ LongAs(b, 2) /\ LongAs(c, 3) /\ LongAs(d, 3) /\ LongAs(e, 3)
      /\ LongAs(f, 4) /\ LongAs(g, 4) /\ LongAs(h, 4)
  BY TupleLong, Zenon
<1>3. ASSUME NEW m \in 1..4, NEW s, LongAs(s, m)
      PROVE  /\ Fits(a, s) <=> m = 1 /\ s[1] \in A1
             /\ Fits(b, s) <=> m = 2 /\ s[1] \in B1 /\ s[2] \in Trail
             /\ Fits(c, s) <=> m = 3 /\ s[1] \in C1 /\ s[2] \in C2 /\ s[3] \in Trail
             /\ Fits(d, s) <=> m = 3 /\ s[1] \in D1 /\ s[2] \in D2 /\ s[3] \in Trail
             /\ Fits(e, s) <=> m = 3 /\ s[1] \in E1 /\ s[2] \in Trail /\ s[3] \in Trail
             /\ Fits(f, s) <=> m = 4 /\ s[1] \in F1 /\ s[2] \in F2 /\ s[3] \in Trail /\ s[4] \in Trail
             /\ Fits(g, s) <=> m = 4 /\ s[1] \in G1 /\ s[2] \in G2 /\ s[3] \in Trail /\ s[4] \in Trail
             /\ Fits(h, s) <=> m = 4 /\ s[1] \in H1 /\ s[2] \in Trail /\ s[3] \in Trail /\ s[4] \in Trail
  BY <1>3, FitsFew, ZenonT(60)
<1> HIDE DEF a, b, c, d, e, f, g, h
<1>4. /\ IsCode(a) /\ IsCode(b) /\ IsCode(c) /\ IsCode(d) /\ IsCode(e) /\ IsCode(f) /\ IsCode(g) /\ IsCode(h)
      /\ Len(b) # 1 /\ Len(c) # 1 /\ Len(d) # 1 /\ Len(e) # 1 /\ Len(f) # 1 /\ Len(g) # 1 /\ Len(h) # 1
  <2>1. 1 \in 1..4 /\ 2 \in 1..4 /\ 3 \in 1..4 /\ 4 \in 1..4
    OBVIOUS
  <2> QED
    BY <1>2, <2>1 DEF IsCode, LongAs
<1>5. /\ InOrder(Utf8Dot)
      /\ \A s : Accepts(Utf8Dot, s)
                  <=> \/ Fits(a, s) \/ Fits(b, s) \/ Fits(c, s) \/ Fits(d, s)
                      \/ Fits(e, s) \/ Fits(f, s) \/ Fits(g, s) \/ Fits(h, s)
  BY <1>1, <1>4, EightAreAccepted
<1>6. ASSUME NEW m \in 1..4, NEW s, LongAs(s, m) PROVE Accepts(Utf8Dot, s) <=> Utf8Row(s, m)
  <2>1. CASE m = 1
    BY <1>3, <1>5, <1>6, <2>1 DEF Utf8Row, Trail, A1, B1, C1, C2, D1, D2, E1, F1, F2, G1, G2, H1
  <2>2. CASE m = 2
    BY <1>3, <1>5, <1>6, <2>2 DEF Utf8Row, BeginsThree, BeginsFour, Trails, Trail, A1, B1, C1, C2, D1,
       D2, E1, F1, F2, G1, G2, H1
  <2>3. CASE m = 3
    <3>1. Accepts(Utf8Dot, s) <=> Fits(c, s) \/ Fits(d, s) \/ Fits(e, s)
      BY <1>3, <1>5, <1>6, <2>3
    <3>2. \A x : x \in 160..191 <=> Trails(x) /\ x >= 160
      BY DEF Trails
    <3>3. \A x : x \in 128..159 <=> Trails(x) /\ x <= 159
      BY DEF Trails
    <3> QED
      BY <1>3, <1>6, <2>3, <3>1, <3>2, <3>3 DEF Utf8Row, BeginsThree, BeginsFour, Trails, Trail, A1, B1,
         C1, C2, D1, D2, E1, F1, F2, G1, G2, H1
  <2>4. CASE m = 4
    <3>1. Accepts(Utf8Dot, s) <=> Fits(f, s) \/ Fits(g, s) \/ Fits(h, s)
      BY <1>3, <1>5, <1>6, <2>4
    <3>2. \A x : x \in 144..191 <=> Trails(x) /\ x >= 144
      BY DEF Trails
    <3>3. \A x : x \in 128..143 <=> Trails(x) /\ x <= 143
      BY DEF Trails
    <3> QED
      BY <1>3, <1>6, <2>4, <3>1, <3>2, <3>3 DEF Utf8Row, BeginsThree, BeginsFour, Trails, Trail, A1, B1,
         C1, C2, D1, D2, E1, F1, F2, G1, G2, H1
  <2> QED
    BY <2>1, <2>2, <2>3, <2>4
<1> QED
  BY <1>5, <1>6

\* The points of three and of four bytes, and which are neither overlong nor surrogates nor too
\* large: it is seen from the first two.
PointOfThree(a, b, c) == 4096 * a + 64 * b + c
PointOfFour(a, b, c, d) == 262144 * a + 4096 * b + 64 * c + d
WantsThree(cp) == cp >= 2048 /\ IsUnicode(cp)
WantsFour(cp) == cp >= 65536 /\ IsUnicode(cp)
GoodThree(a, b) == (a = 0 /\ b >= 32) \/ (a = 13 /\ b <= 31) \/ a \in 1..12 \/ a \in 14..15
GoodFour(a, b) == (a = 0 /\ b >= 16) \/ (a = 4 /\ b <= 15) \/ a \in 1..3

\* Three bytes are a code point, and not one of fewer bytes, by the first two of them.
LEMMA ThreeArePoint ==
  ASSUME NEW a \in 0..15, NEW b \in 0..63, NEW c \in 0..63
  PROVE  WantsThree(PointOfThree(a, b, c)) <=> GoodThree(a, b)
<1> DEFINE cp == PointOfThree(a, b, c)
<1>1. cp \in Nat /\ cp <= 65535
  BY SMT DEF PointOfThree
<1>2. cp \in Surrogates <=> a = 13 /\ b >= 32
  BY SMTT(60) DEF Surrogates, PointOfThree
<1>3. cp >= 2048 <=> a > 0 \/ b >= 32
  BY SMT DEF PointOfThree
<1> HIDE DEF cp
<1>4. IsUnicode(cp) <=> cp \notin Surrogates
  <2>1. cp \in Nat /\ cp < CodePointEnd
    BY <1>1, SMT DEF CodePointEnd
  <2> QED
    BY <2>1, UnicodeMeans
<1>5. cp >= 2048 /\ IsUnicode(cp) <=> (a > 0 \/ b >= 32) /\ ~(a = 13 /\ b >= 32)
  BY <1>2, <1>3, <1>4, SMT
<1>6. GoodThree(a, b) <=> (a > 0 \/ b >= 32) /\ ~(a = 13 /\ b >= 32)
  BY SMT DEF GoodThree
<1> QED
  BY <1>5, <1>6, SMT DEF cp, WantsThree

\* Four bytes are a code point, and not one of fewer bytes, by the first two of them.
LEMMA FourArePoint ==
  ASSUME NEW a \in 0..4, NEW b \in 0..63, NEW c \in 0..63, NEW d \in 0..63
  PROVE  WantsFour(PointOfFour(a, b, c, d)) <=> GoodFour(a, b)
<1> DEFINE cp == PointOfFour(a, b, c, d)
<1>1. cp \in Nat
  BY SMT DEF PointOfFour
<1>2. cp < CodePointEnd <=> a < 4 \/ b <= 15
  BY SMT DEF CodePointEnd, PointOfFour
<1>3. cp >= 65536 <=> a > 0 \/ b >= 16
  BY SMT DEF PointOfFour
<1> HIDE DEF cp
<1>4. cp >= 65536 => (IsUnicode(cp) <=> cp < CodePointEnd)
  <2>1. cp >= 65536 => cp \notin Surrogates
    BY <1>1, SMTT(60) DEF Surrogates
  <2> QED
    BY <1>1, <2>1, UnicodeMeans
<1>5. cp >= 65536 /\ IsUnicode(cp) <=> (a > 0 \/ b >= 16) /\ (a < 4 \/ b <= 15)
  BY <1>2, <1>3, <1>4, SMT
<1>6. GoodFour(a, b) <=> (a > 0 \/ b >= 16) /\ (a < 4 \/ b <= 15)
  BY SMT DEF GoodFour
<1> QED
  BY <1>5, <1>6, SMT DEF cp, WantsFour

\* How many bytes are wanted behind a first byte, and which first bytes want so many.
LEMMA LengthMeans ==
  ASSUME NEW a \in 0..255
  PROVE  /\ Utf8Length(a) = 1 <=> a \in 0..127
         /\ Utf8Length(a) = 2 <=> a \in 194..223
         /\ Utf8Length(a) = 3 <=> a \in 224..239
         /\ Utf8Length(a) = 4 <=> a \in 240..244
         /\ Utf8Length(a) \in 0..4
  BY SMT DEF Utf8Length

\* A trailing byte has six bits.
LEMMA SixOf ==
  ASSUME NEW b, Trails(b)
  PROVE  b % 64 \in 0..63 /\ b = 128 + (b % 64)
  BY SMT DEF Trails

\* So the first two bytes tell which points are good.
LEMMA ThreeBegun ==
  ASSUME NEW x \in 224..239, NEW y, Trails(y), NEW z, Trails(z), NEW cp, cp = PointOfThree(x % 16, y % 64, z % 64)
  PROVE  WantsThree(cp) <=> BeginsThree(x, y)
<1> DEFINE a == x % 16
           b == y % 64
           c == z % 64
<1>1. a \in 0..15 /\ x = 224 + a
  BY SMT
<1>2. b \in 0..63 /\ y = 128 + b /\ c \in 0..63
  BY SixOf
<1>3. cp = PointOfThree(a, b, c)
  OBVIOUS
<1> HIDE DEF a, b, c
<1>4. WantsThree(cp) <=> GoodThree(a, b)
  <2>1. a \in 0..15 /\ b \in 0..63 /\ c \in 0..63
    BY <1>1, <1>2, Zenon
  <2>2. WantsThree(PointOfThree(a, b, c)) <=> GoodThree(a, b)
    BY <2>1, ThreeArePoint, Zenon
  <2> QED
    BY <1>3, <2>2, Zenon
<1>5. BeginsThree(x, y) <=> GoodThree(a, b)
  BY <1>1, <1>2, SMT DEF BeginsThree, GoodThree
<1> QED
  BY <1>4, <1>5

\* The same of four bytes as they are written.
LEMMA FourBegun ==
  ASSUME NEW x \in 240..244, NEW y, Trails(y), NEW z, Trails(z), NEW u, Trails(u),
         NEW cp, cp = PointOfFour(x % 8, y % 64, z % 64, u % 64)
  PROVE  WantsFour(cp) <=> BeginsFour(x, y)
<1> DEFINE a == x % 8
           b == y % 64
           c == z % 64
           d == u % 64
<1>1. a \in 0..4 /\ x = 240 + a
  BY SMT
<1>2. b \in 0..63 /\ y = 128 + b /\ c \in 0..63 /\ d \in 0..63
  BY SixOf
<1>3. cp = PointOfFour(a, b, c, d)
  OBVIOUS
<1> HIDE DEF a, b, c, d
<1>4. WantsFour(cp) <=> GoodFour(a, b)
  <2>1. a \in 0..4 /\ b \in 0..63 /\ c \in 0..63 /\ d \in 0..63
    BY <1>1, <1>2, Zenon
  <2>2. WantsFour(PointOfFour(a, b, c, d)) <=> GoodFour(a, b)
    BY <2>1, FourArePoint, Zenon
  <2> QED
    BY <1>3, <2>2, Zenon
<1>5. BeginsFour(x, y) <=> GoodFour(a, b)
  BY <1>1, <1>2, SMT DEF BeginsFour, GoodFour
<1> QED
  BY <1>4, <1>5

\* Bytes that UTF-8 reads to their end, no more and no less.
Utf8Whole(s, m) ==
  /\ Utf8Length(s[1]) = m /\ \A k \in 2..m : Trails(s[k])
  /\ Utf8Point(s, m) >= <<0, 128, 2048, 65536>>[m] /\ IsUnicode(Utf8Point(s, m))

\* The decoder of UTF-8 uses all of a sequence if it is whole.
LEMMA Utf8WholeMeans ==
  ASSUME NEW m \in 1..4, NEW s, ByteSeq(s, m)
  PROVE  Utf8ToCp(s).used = m <=> Utf8Whole(s, m)
<1> DEFINE n == Utf8Length(s[1])
           good == /\ \A k \in 2..n : s[k] \in 128..191
                   /\ Utf8Point(s, n) >= <<0, 128, 2048, 65536>>[n] /\ IsUnicode(Utf8Point(s, n))
<1>1. Len(s) = m
  BY DEF ByteSeq, LongAs
<1>2. Utf8ToCp(s) = IF n \in 1..m /\ good THEN Step(Utf8Point(s, n), n) ELSE NoCode
  BY <1>1, SMT DEF Utf8ToCp
<1>3. NoCode.used = 0 /\ \A x, y : Step(x, y).used = y
  BY DEF NoCode, Step
<1>4. Utf8Whole(s, m) <=> n = m /\ good
  BY DEF Utf8Whole, Trails
<1> HIDE DEF n, good
<1>5. Utf8ToCp(s).used = m <=> n = m /\ good
  BY <1>2, <1>3
<1> QED
  BY <1>4, <1>5

\* What is whole is a row of the table.
LEMMA Utf8RowMeans ==
  ASSUME NEW m \in 1..4, NEW s, ByteSeq(s, m)
  PROVE  Utf8Whole(s, m) <=> Utf8Row(s, m)
<1>1. \A k \in 1..m : s[k] \in 0..255
  BY DEF ByteSeq
<1>2. s[1] \in 0..255
  BY <1>1
<1>3. CASE m = 1
  <2>1. \A k \in 2..m : Trails(s[k])
    BY <1>3
  <2>2. <<0, 128, 2048, 65536>>[m] = 0
    BY <1>3
  <2>3. Utf8Point(s, m) = s[1]
    BY <1>3 DEF Utf8Point
  <2>4. s[1] \in 0..127 => s[1] >= 0 /\ IsUnicode(s[1])
    <3> SUFFICES ASSUME s[1] \in 0..127 PROVE s[1] >= 0 /\ IsUnicode(s[1])
      OBVIOUS
    <3>1. IsChar("ASCII", s[1])
      BY DEF IsChar
    <3> QED
      BY <3>1, CharIsNumber
  <2>5. Utf8Whole(s, m) <=> s[1] \in 0..127
    BY <1>2, <1>3, <2>1, <2>2, <2>3, <2>4, LengthMeans DEF Utf8Whole
  <2> QED
    BY <1>3, <2>5 DEF Utf8Row
<1>4. CASE m = 2
  <2> DEFINE cp == Utf8Point(s, m)
  <2>1. (\A k \in 2..m : Trails(s[k])) <=> Trails(s[2])
    BY <1>4
  <2>2. <<0, 128, 2048, 65536>>[m] = 128
    BY <1>4
  <2>3. ASSUME s[1] \in 194..223, Trails(s[2]) PROVE cp >= 128 /\ IsUnicode(cp)
    <3>1. cp = 64 * (s[1] % 32) + (s[2] % 64)
      BY <1>4, PointOf
    <3>2. s[1] % 32 \in 2..31
      BY <2>3, SMT
    <3>3. s[2] % 64 \in 0..63
      BY <2>3, SixOf
    <3> DEFINE a == s[1] % 32
               b == s[2] % 64
    <3> HIDE DEF a, b, cp
    <3>4. cp = 64 * a + b /\ a \in 2..31 /\ b \in 0..63
      BY <3>1, <3>2, <3>3 DEF a, b
    <3>5. cp \in Nat /\ cp >= 128 /\ cp < CodePointEnd /\ cp \notin Surrogates
      BY <3>4, SMTT(60) DEF CodePointEnd, Surrogates
    <3> QED
      BY <3>5, UnicodeMeans
  <2> HIDE DEF cp
  <2>4. Utf8Whole(s, m) <=> Utf8Length(s[1]) = 2 /\ Trails(s[2]) /\ cp >= 128 /\ IsUnicode(cp)
    BY <1>4, <2>1, <2>2 DEF Utf8Whole, cp
  <2>5. Utf8Whole(s, m) <=> s[1] \in 194..223 /\ Trails(s[2])
    BY <1>2, <2>3, <2>4, LengthMeans
  <2> QED
    BY <1>4, <2>5 DEF Utf8Row
<1>5. CASE m = 3
  <2> DEFINE cp == Utf8Point(s, m)
  <2>1. (\A k \in 2..m : Trails(s[k])) <=> Trails(s[2]) /\ Trails(s[3])
    BY <1>5
  <2>2. <<0, 128, 2048, 65536>>[m] = 2048
    BY <1>5
  <2>3. cp = PointOfThree(s[1] % 16, s[2] % 64, s[3] % 64)
    BY <1>5, PointOf DEF PointOfThree
  <2> HIDE DEF cp
  <2>4. ASSUME s[1] \in 224..239, Trails(s[2]), Trails(s[3])
        PROVE  cp >= 2048 /\ IsUnicode(cp) <=> BeginsThree(s[1], s[2])
    <3>1. WantsThree(cp) <=> BeginsThree(s[1], s[2])
      BY <2>3, <2>4, ThreeBegun, SMTT(60)
    <3> QED
      BY <3>1 DEF WantsThree
  <2>5. BeginsThree(s[1], s[2]) => s[1] \in 224..239
    BY <1>2, SMT DEF BeginsThree
  <2>6. Utf8Whole(s, m) <=> Utf8Length(s[1]) = 3 /\ Trails(s[2]) /\ Trails(s[3]) /\ cp >= 2048 /\ IsUnicode(cp)
    BY <1>5, <2>1, <2>2 DEF Utf8Whole, cp
  <2>7. Utf8Length(s[1]) = 3 <=> s[1] \in 224..239
    BY <1>2, LengthMeans
  <2>8. Utf8Row(s, m) <=> BeginsThree(s[1], s[2]) /\ Trails(s[2]) /\ Trails(s[3])
    BY <1>5, SMT DEF Utf8Row
  <2> QED
    BY <2>4, <2>5, <2>6, <2>7, <2>8
<1>6. CASE m = 4
  <2> DEFINE cp == Utf8Point(s, m)
  <2>1. (\A k \in 2..m : Trails(s[k])) <=> Trails(s[2]) /\ Trails(s[3]) /\ Trails(s[4])
    BY <1>6
  <2>2. <<0, 128, 2048, 65536>>[m] = 65536
    BY <1>6
  <2>3. cp = PointOfFour(s[1] % 8, s[2] % 64, s[3] % 64, s[4] % 64)
    BY <1>6, PointOf DEF PointOfFour
  <2> HIDE DEF cp
  <2>4. ASSUME s[1] \in 240..244, Trails(s[2]), Trails(s[3]), Trails(s[4])
        PROVE  cp >= 65536 /\ IsUnicode(cp) <=> BeginsFour(s[1], s[2])
    <3>1. WantsFour(cp) <=> BeginsFour(s[1], s[2])
      BY <2>3, <2>4, FourBegun, SMTT(30)
    <3> QED
      BY <3>1 DEF WantsFour
  <2>5. BeginsFour(s[1], s[2]) => s[1] \in 240..244
    BY <1>2, SMT DEF BeginsFour
  <2>6. Utf8Whole(s, m) <=> /\ Utf8Length(s[1]) = 4 /\ Trails(s[2]) /\ Trails(s[3]) /\ Trails(s[4])
                            /\ cp >= 65536 /\ IsUnicode(cp)
    BY <1>6, <2>1, <2>2 DEF Utf8Whole, cp
  <2>7. Utf8Length(s[1]) = 4 <=> s[1] \in 240..244
    BY <1>2, LengthMeans
  <2>8. Utf8Row(s, m) <=> BeginsFour(s[1], s[2]) /\ Trails(s[2]) /\ Trails(s[3]) /\ Trails(s[4])
    BY <1>6, SMT DEF Utf8Row
  <2> QED
    BY <2>4, <2>5, <2>6, <2>7, <2>8
<1> QED
  BY <1>3, <1>4, <1>5, <1>6

\* What the table of UTF-8 accepts is what is read to the end.
LEMMA Utf8DotAccepts ==
  ASSUME NEW m \in 1..4, NEW s, ByteSeq(s, m)
  PROVE  Accepts(Utf8Dot, s) <=> Utf8ToCp(s).used = m
<1>1. LongAs(s, m)
  BY DEF ByteSeq
<1> QED
  BY <1>1, Utf8DotMeans, Utf8RowMeans, Utf8WholeMeans, Zenon

\* What a unit is, is seen from its high byte.
HighByte(s, k, le) == IF le THEN s[k + 1] ELSE s[k]
LowByte(s, k, le) == IF le THEN s[k] ELSE s[k + 1]

\* The high byte tells what is a surrogate, and of which kind.
LEMMA UnitKinds ==
  ASSUME NEW s, NEW k, s[k] \in AnyByte, s[k + 1] \in AnyByte, NEW le \in BOOLEAN
  PROVE  /\ UnitAt(s, k, le) \notin Surrogates <=> HighByte(s, k, le) \in NotSurrogate
         /\ UnitAt(s, k, le) \in 55296..56319 <=> HighByte(s, k, le) \in 216..219
         /\ UnitAt(s, k, le) \in 56320..57343 <=> HighByte(s, k, le) \in 220..223
         /\ UnitAt(s, k, le) \in 55296..56319 => UnitAt(s, k, le) \in Surrogates
<1> DEFINE h == HighByte(s, k, le)
           l == LowByte(s, k, le)
           x == UnitAt(s, k, le)
<1>1. h \in 0..255 /\ l \in 0..255 /\ x = 256 * h + l
  <2> DEFINE a == s[k]
             b == s[k + 1]
  <2>1. a \in 0..255 /\ b \in 0..255
    BY DEF AnyByte
  <2>2. x = IF le THEN a + 256 * b ELSE 256 * a + b
    BY DEF UnitAt
  <2>3. h = (IF le THEN b ELSE a) /\ l = (IF le THEN a ELSE b)
    BY DEF HighByte, LowByte
  <2> HIDE DEF h, l, x, a, b
  <2>4. CASE le
    BY <2>1, <2>2, <2>3, <2>4, SMT
  <2>5. CASE ~le
    BY <2>1, <2>2, <2>3, <2>5, SMT
  <2> QED
    BY <2>4, <2>5
<1> HIDE DEF h, l, x
<1>2. x \notin Surrogates <=> h \in NotSurrogate
  BY <1>1, SMT DEF Surrogates, NotSurrogate
<1>3. x \in 55296..56319 <=> h \in 216..219
  BY <1>1, SMT
<1>4. x \in 56320..57343 <=> h \in 220..223
  BY <1>1, SMT
<1>5. x \in 55296..56319 => x \in Surrogates
  BY <1>1, SMT DEF Surrogates
<1> QED
  BY <1>2, <1>3, <1>4, <1>5 DEF h, x

\* What the tables of UTF-16 accept.
Utf16Row(s, m, le) ==
  \/ m = 2 /\ HighByte(s, 1, le) \in NotSurrogate
  \/ m = 4 /\ HighByte(s, 1, le) \in 216..219 /\ HighByte(s, 3, le) \in 220..223

\* The table of UTF-16 accepts its rows, and nothing else.
LEMMA Utf16DotMeans ==
  ASSUME NEW le \in BOOLEAN
  PROVE  /\ InOrder(Utf16Dot(le))
         /\ \A m \in 1..4 : \A s : ByteSeq(s, m) => (Accepts(Utf16Dot(le), s) <=> Utf16Row(s, m, le))
<1> DEFINE A == AnyByte
           N == NotSurrogate
           H == 216..219
           L == 220..223
<1>0. \A m \in 1..4 : \A s : ByteSeq(s, m) => LongAs(s, m) /\ \A k \in 1..m : s[k] \in A
  BY DEF ByteSeq, AnyByte
<1> HIDE DEF A, N, H, L
<1>9. 1 \in 1..4 /\ 2 \in 1..4 /\ 3 \in 1..4 /\ 4 \in 1..4
  OBVIOUS
<1>1. CASE le
  <2> DEFINE a == <<A, N>>
             b == <<A, H, A, L>>
  <2>1. Reverse(<<N, A>>) = a /\ Reverse(<<H, A>>) = <<A, H>> /\ Reverse(<<L, A>>) = <<A, L>>
    BY ReverseFew
  <2>2. Utf16Dot(le) = <<a, b>>
    <3>1. <<A, H>> \o <<A, L>> = b
      BY TwoAndTwo
    <3> HIDE DEF a, b
    <3>2. Utf16Dot(le) = <<Reverse(<<N, A>>), Reverse(<<H, A>>) \o Reverse(<<L, A>>)>>
      BY <1>1 DEF Utf16Dot, A, N, H, L
    <3> QED
      BY <2>1, <3>1, <3>2
  <2>3. LongAs(a, 2) /\ LongAs(b, 4)
    BY TupleLong, Zenon
  <2>4. ASSUME NEW m \in 1..4, NEW s, LongAs(s, m)
        PROVE  /\ Fits(a, s) <=> m = 2 /\ s[1] \in A /\ s[2] \in N
               /\ Fits(b, s) <=> m = 4 /\ s[1] \in A /\ s[2] \in H /\ s[3] \in A /\ s[4] \in L
    BY <2>4, FitsFew, Zenon
  <2> HIDE DEF a, b
  <2>5. IsCode(a) /\ IsCode(b) /\ Len(b) # 1
    BY <1>9, <2>3 DEF IsCode, LongAs
  <2>6. InOrder(Utf16Dot(le)) /\ \A s : Accepts(Utf16Dot(le), s) <=> Fits(a, s) \/ Fits(b, s)
    BY <2>2, <2>5, TwoAreAccepted
  <2>7. ASSUME NEW m \in 1..4, NEW s, ByteSeq(s, m) PROVE Accepts(Utf16Dot(le), s) <=> Utf16Row(s, m, le)
    <3>1. LongAs(s, m) /\ \A k \in 1..m : s[k] \in A
      BY <1>0, <2>7
    <3>2. m = 2 => s[1] \in A
      BY <3>1
    <3>3. m = 4 => s[1] \in A /\ s[3] \in A
      BY <3>1
    <3>4. HighByte(s, 1, le) = s[2] /\ HighByte(s, 3, le) = s[4]
      BY <1>1 DEF HighByte
    <3>5. Accepts(Utf16Dot(le), s) <=> (m = 2 /\ s[2] \in N) \/ (m = 4 /\ s[2] \in H /\ s[4] \in L)
      BY <2>4, <2>6, <3>1, <3>2, <3>3
    <3> QED
      BY <3>4, <3>5 DEF Utf16Row, N, H, L
  <2> QED
    BY <2>6, <2>7
<1>2. CASE ~le
  <2> DEFINE a == <<N, A>>
             b == <<H, A, L, A>>
  <2>2. Utf16Dot(le) = <<a, b>>
    <3>1. <<H, A>> \o <<L, A>> = b
      BY TwoAndTwo
    <3> HIDE DEF b
    <3>2. Utf16Dot(le) = <<<<N, A>>, <<H, A>> \o <<L, A>>>>
      BY <1>2 DEF Utf16Dot, A, N, H, L
    <3> QED
      BY <3>1, <3>2
  <2>3. LongAs(a, 2) /\ LongAs(b, 4)
    BY TupleLong, Zenon
  <2>4. ASSUME NEW m \in 1..4, NEW s, LongAs(s, m)
        PROVE  /\ Fits(a, s) <=> m = 2 /\ s[1] \in N /\ s[2] \in A
               /\ Fits(b, s) <=> m = 4 /\ s[1] \in H /\ s[2] \in A /\ s[3] \in L /\ s[4] \in A
    BY <2>4, FitsFew, Zenon
  <2> HIDE DEF a, b
  <2>5. IsCode(a) /\ IsCode(b) /\ Len(b) # 1
    BY <1>9, <2>3 DEF IsCode, LongAs
  <2>6. InOrder(Utf16Dot(le)) /\ \A s : Accepts(Utf16Dot(le), s) <=> Fits(a, s) \/ Fits(b, s)
    BY <2>2, <2>5, TwoAreAccepted
  <2>7. ASSUME NEW m \in 1..4, NEW s, ByteSeq(s, m) PROVE Accepts(Utf16Dot(le), s) <=> Utf16Row(s, m, le)
    <3>1. LongAs(s, m) /\ \A k \in 1..m : s[k] \in A
      BY <1>0, <2>7
    <3>2. m = 2 => s[2] \in A
      BY <3>1
    <3>3. m = 4 => s[2] \in A /\ s[4] \in A
      BY <3>1
    <3>4. HighByte(s, 1, le) = s[1] /\ HighByte(s, 3, le) = s[3]
      BY <1>2 DEF HighByte
    <3>5. Accepts(Utf16Dot(le), s) <=> (m = 2 /\ s[1] \in N) \/ (m = 4 /\ s[1] \in H /\ s[3] \in L)
      BY <2>4, <2>6, <3>1, <3>2, <3>3
    <3> QED
      BY <3>4, <3>5 DEF Utf16Row, N, H, L
  <2> QED
    BY <2>6, <2>7
<1> QED
  BY <1>1, <1>2

\* That is what is read to the end.
LEMMA Utf16DotAccepts ==
  ASSUME NEW le \in BOOLEAN, NEW m \in 1..4, NEW s, ByteSeq(s, m)
  PROVE  Accepts(Utf16Dot(le), s) <=> Utf16ToCp(s, le).used = m
<1> DEFINE x == UnitAt(s, 1, le)
           z == UnitAt(s, 3, le)
           S == x \notin Surrogates
           H == x \in 55296..56319
           L == z \in 56320..57343
           y == 1024 * (x - (55296 - 64)) + z - 56320
<1>1. Len(s) = m /\ \A k \in 1..m : s[k] \in AnyByte
  BY DEF ByteSeq, LongAs, AnyByte
<1>2. Utf16ToCp(s, le) = CASE m >= 2 /\ S -> Step(x, 2)
                           [] m >= 4 /\ H /\ L -> Step(y, 4)
                           [] OTHER -> NoCode
  <2>1. Utf16ToCp(s, le) = CASE Len(s) >= 2 /\ S -> Step(x, 2)
                             [] Len(s) >= 4 /\ H /\ L -> Step(y, 4)
                             [] OTHER -> NoCode
    BY DEF Utf16ToCp
  <2> HIDE DEF S, H, L, x, y
  <2> QED
    BY <1>1, <2>1
<1>3. NoCode.used = 0 /\ \A p, q : Step(p, q).used = q
  BY DEF NoCode, Step
<1>4. m >= 2 => s[1] \in AnyByte /\ s[1 + 1] \in AnyByte
  BY <1>1
<1>5. m = 4 => s[3] \in AnyByte /\ s[3 + 1] \in AnyByte
  BY <1>1, SMTT(60)
<1>6. m >= 2 => /\ S <=> HighByte(s, 1, le) \in NotSurrogate
                /\ H <=> HighByte(s, 1, le) \in 216..219
                /\ H => ~S
  BY <1>4, UnitKinds
<1>7. m = 4 => (L <=> HighByte(s, 3, le) \in 220..223)
  BY <1>5, UnitKinds
<1> HIDE DEF x, z, S, H, L, y
<1>8. (Utf16ToCp(s, le).used = m) <=> (m = 2 /\ S) \/ (m = 4 /\ H /\ L)
  <2>1. CASE m >= 2 /\ S
    <3>1. Utf16ToCp(s, le) = Step(x, 2)
      BY <1>2, <2>1, <1>6
    <3> QED
      BY <1>3, <1>6, <2>1, <3>1
  <2>2. CASE ~(m >= 2 /\ S) /\ m >= 4 /\ H /\ L
    <3>1. Utf16ToCp(s, le).used = 4
      BY <1>2, <1>3, <2>2
    <3> QED
      BY <2>2, <3>1
  <2>3. CASE ~(m >= 2 /\ S) /\ ~(m >= 4 /\ H /\ L)
    <3>1. Utf16ToCp(s, le).used = 0
      BY <1>2, <1>3, <2>3
    <3> QED
      BY <2>3, <3>1
  <2> QED
    BY <2>1, <2>2, <2>3
<1>9. Utf16Row(s, m, le) <=> (m = 2 /\ S) \/ (m = 4 /\ H /\ L)
  BY <1>6, <1>7 DEF Utf16Row
<1> QED
  BY <1>8, <1>9, Utf16DotMeans

\* Three bytes that are a code point.
PointInPlane(p, h, l) == 65536 * p + 256 * h + l
PlaneHolds(p, h) == (p = 0 /\ h \in NotSurrogate) \/ p \in 1..16

\* The two higher bytes tell what is a code point.
LEMMA PlaneMeans ==
  ASSUME NEW p, IsByte(p), NEW h, IsByte(h), NEW l, IsByte(l)
  PROVE  IsUnicode(PointInPlane(p, h, l)) <=> PlaneHolds(p, h)
<1>0. p \in 0..255 /\ h \in 0..255 /\ l \in 0..255
  BY DEF IsByte
<1> DEFINE cp == PointInPlane(p, h, l)
<1>1. cp \in Nat
  BY <1>0, SMT DEF PointInPlane
<1>2. cp < CodePointEnd <=> p <= 16
  BY <1>0, SMT DEF CodePointEnd, PointInPlane
<1>3. cp \in Surrogates <=> p = 0 /\ h \in 216..223
  BY <1>0, SMTT(60) DEF Surrogates, PointInPlane
<1> HIDE DEF cp
<1>4. IsUnicode(cp) <=> p <= 16 /\ ~(p = 0 /\ h \in 216..223)
  BY <1>1, <1>2, <1>3, UnicodeMeans
<1>5. PlaneHolds(p, h) <=> p <= 16 /\ ~(p = 0 /\ h \in 216..223)
  BY <1>0, SMT DEF PlaneHolds, NotSurrogate
<1> QED
  BY <1>4, <1>5, SMT DEF cp

\* The digits of four bytes, the most significant first, and what the tables accept.
Digit(s, k, le) == IF le THEN s[5 - k] ELSE s[k]
Utf32Row(s, m, le) == m = 4 /\ Digit(s, 1, le) = 0 /\ PlaneHolds(Digit(s, 2, le), Digit(s, 3, le))
Utf32Dot(le) == IF le THEN Utf32LEDot ELSE Utf32BEDot

\* The table of UTF-32 accepts its rows, and nothing else.
LEMMA Utf32DotMeans ==
  ASSUME NEW le \in BOOLEAN
  PROVE  /\ InOrder(Utf32Dot(le))
         /\ \A m \in 1..4 : \A s : ByteSeq(s, m) => (Accepts(Utf32Dot(le), s) <=> Utf32Row(s, m, le))
<1> DEFINE A == AnyByte
           N == NotSurrogate
           H == 216..223
           P == 1..16
           Q == 0..16
           O == {0}
<1>0. \A m \in 1..4 : \A s : ByteSeq(s, m) => LongAs(s, m) /\ \A k \in 1..m : s[k] \in A
  BY DEF ByteSeq, AnyByte
<1>8. /\ \A x \in A : x \notin N <=> x \in H
      /\ \A x \in A : x \in Q <=> x = 0 \/ x \in P
      /\ \A x : x \in O <=> x = 0
      /\ 0 \notin P
  BY SMT DEF AnyByte, NotSurrogate
<1> HIDE DEF A, N, H, P, Q, O
<1>9. 1 \in 1..4 /\ 2 \in 1..4 /\ 3 \in 1..4 /\ 4 \in 1..4
  OBVIOUS
<1>1. CASE le
  <2> DEFINE a == <<A, H, P, O>>
             b == <<A, N, Q, O>>
  <2>2. Utf32Dot(le) = <<a, b>>
    BY <1>1, Zenon DEF Utf32Dot, Utf32LEDot, A, N, H, P, Q, O
  <2>3. LongAs(a, 4) /\ LongAs(b, 4)
    BY TupleLong, Zenon
  <2>4. ASSUME NEW m \in 1..4, NEW s, LongAs(s, m)
        PROVE  /\ Fits(a, s) <=> m = 4 /\ s[1] \in A /\ s[2] \in H /\ s[3] \in P /\ s[4] \in O
               /\ Fits(b, s) <=> m = 4 /\ s[1] \in A /\ s[2] \in N /\ s[3] \in Q /\ s[4] \in O
    BY <2>4, FitsFew, Zenon
  <2> HIDE DEF a, b
  <2>5. IsCode(a) /\ IsCode(b) /\ Len(b) # 1
    BY <1>9, <2>3 DEF IsCode, LongAs
  <2>6. InOrder(Utf32Dot(le)) /\ \A s : Accepts(Utf32Dot(le), s) <=> Fits(a, s) \/ Fits(b, s)
    BY <2>2, <2>5, TwoAreAccepted
  <2>7. ASSUME NEW m \in 1..4, NEW s, ByteSeq(s, m) PROVE Accepts(Utf32Dot(le), s) <=> Utf32Row(s, m, le)
    <3>1. LongAs(s, m) /\ \A k \in 1..m : s[k] \in A
      BY <1>0, <2>7
    <3>2. m = 4 => s[1] \in A /\ s[2] \in A /\ s[3] \in A /\ s[4] \in A
      BY <3>1
    <3>3. Digit(s, 1, le) = s[4] /\ Digit(s, 2, le) = s[3] /\ Digit(s, 3, le) = s[2]
      BY <1>1 DEF Digit
    <3>4. Accepts(Utf32Dot(le), s)
            <=> m = 4 /\ s[4] \in O /\ ((s[2] \in H /\ s[3] \in P) \/ (s[2] \in N /\ s[3] \in Q))
      BY <2>4, <2>6, <3>1, <3>2, Zenon
    <3>5. Utf32Row(s, m, le) <=> m = 4 /\ s[4] = 0 /\ ((s[3] = 0 /\ s[2] \in N) \/ s[3] \in P)
      BY <3>3 DEF Utf32Row, PlaneHolds, N, P
    <3> QED
      BY <1>8, <3>2, <3>4, <3>5, Zenon
  <2> QED
    BY <2>6, <2>7
<1>2. CASE ~le
  <2> DEFINE a == <<O, O, N, A>>
             b == <<O, P, A, A>>
  <2>2. Utf32Dot(le) = <<a, b>>
    BY <1>2, Zenon DEF Utf32Dot, Utf32BEDot, A, N, H, P, Q, O
  <2>3. LongAs(a, 4) /\ LongAs(b, 4)
    BY TupleLong, Zenon
  <2>4. ASSUME NEW m \in 1..4, NEW s, LongAs(s, m)
        PROVE  /\ Fits(a, s) <=> m = 4 /\ s[1] \in O /\ s[2] \in O /\ s[3] \in N /\ s[4] \in A
               /\ Fits(b, s) <=> m = 4 /\ s[1] \in O /\ s[2] \in P /\ s[3] \in A /\ s[4] \in A
    BY <2>4, FitsFew, ZenonT(60)
  <2> HIDE DEF a, b
  <2>5. IsCode(a) /\ IsCode(b) /\ Len(b) # 1
    BY <1>9, <2>3 DEF IsCode, LongAs
  <2>6. InOrder(Utf32Dot(le)) /\ \A s : Accepts(Utf32Dot(le), s) <=> Fits(a, s) \/ Fits(b, s)
    BY <2>2, <2>5, TwoAreAccepted
  <2>7. ASSUME NEW m \in 1..4, NEW s, ByteSeq(s, m) PROVE Accepts(Utf32Dot(le), s) <=> Utf32Row(s, m, le)
    <3>1. LongAs(s, m) /\ \A k \in 1..m : s[k] \in A
      BY <1>0, <2>7
    <3>2. m = 4 => s[1] \in A /\ s[2] \in A /\ s[3] \in A /\ s[4] \in A
      BY <3>1
    <3>3. Digit(s, 1, le) = s[1] /\ Digit(s, 2, le) = s[2] /\ Digit(s, 3, le) = s[3]
      BY <1>2 DEF Digit
    <3>4. Accepts(Utf32Dot(le), s)
            <=> m = 4 /\ s[1] \in O /\ ((s[2] \in O /\ s[3] \in N) \/ s[2] \in P)
      BY <2>4, <2>6, <3>1, <3>2, Zenon
    <3>5. Utf32Row(s, m, le) <=> m = 4 /\ s[1] = 0 /\ ((s[2] = 0 /\ s[3] \in N) \/ s[2] \in P)
      BY <3>3 DEF Utf32Row, PlaneHolds, N, P
    <3> QED
      BY <1>8, <3>2, <3>4, <3>5, Zenon
  <2> QED
    BY <2>6, <2>7
<1> QED
  BY <1>1, <1>2

\* That is what is read to the end.
LEMMA Utf32DotAccepts ==
  ASSUME NEW le \in BOOLEAN, NEW m \in 1..4, NEW s, ByteSeq(s, m)
  PROVE  Accepts(Utf32Dot(le), s) <=> Utf32ToCp(s, le).used = m
<1> DEFINE digits == IF le THEN Reverse(s) ELSE s
           cp == 65536 * digits[2] + 256 * digits[3] + digits[4]
<1>1. Len(s) = m /\ \A k \in 1..m : s[k] \in 0..255
  BY DEF ByteSeq, LongAs
<1>2. Utf32ToCp(s, le) = IF m = 4 /\ digits[1] = 0 /\ IsUnicode(cp) THEN Step(cp, 4) ELSE NoCode
  BY <1>1, SMTT(60) DEF Utf32ToCp
<1>3. NoCode.used = 0 /\ \A p, q : Step(p, q).used = q
  BY DEF NoCode, Step
<1>4. ASSUME m = 4
      PROVE  /\ digits[1] = Digit(s, 1, le) /\ digits[2] = Digit(s, 2, le)
             /\ digits[3] = Digit(s, 3, le) /\ digits[4] = Digit(s, 4, le)
             /\ digits[2] \in 0..255 /\ digits[3] \in 0..255 /\ digits[4] \in 0..255
  <2>1. s[1] \in 0..255 /\ s[2] \in 0..255 /\ s[3] \in 0..255 /\ s[4] \in 0..255
    BY <1>1, <1>4
  <2>2. LongAs(s, 4)
    BY <1>4 DEF ByteSeq
  <2>3. s = <<s[1], s[2], s[3], s[4]>>
    BY <2>2, FewElements
  <2>4. CASE le
    <3>1. digits = <<s[4], s[3], s[2], s[1]>>
      BY <2>3, <2>4, ReverseFew
    <3>2. digits[1] = s[4] /\ digits[2] = s[3] /\ digits[3] = s[2] /\ digits[4] = s[1]
      BY <3>1
    <3> QED
      BY <2>1, <2>4, <3>2 DEF Digit
  <2>5. CASE ~le
    BY <2>1, <2>5 DEF Digit
  <2> QED
    BY <2>4, <2>5
<1> HIDE DEF digits
<1>5. m = 4 => (IsUnicode(cp) <=> PlaneHolds(digits[2], digits[3]))
  <2> SUFFICES ASSUME m = 4 PROVE IsUnicode(cp) <=> PlaneHolds(digits[2], digits[3])
    OBVIOUS
  <2>1. IsByte(digits[2]) /\ IsByte(digits[3]) /\ IsByte(digits[4])
    BY <1>4 DEF IsByte
  <2>2. cp = PointInPlane(digits[2], digits[3], digits[4])
    BY DEF PointInPlane
  <2> HIDE DEF cp
  <2> QED
    BY <2>1, <2>2, PlaneMeans, Zenon
<1> HIDE DEF cp
<1>6. Utf32ToCp(s, le).used = m <=> m = 4 /\ digits[1] = 0 /\ IsUnicode(cp)
  BY <1>2, <1>3
<1>7. Utf32Row(s, m, le) <=> m = 4 /\ digits[1] = 0 /\ IsUnicode(cp)
  BY <1>4, <1>5, Zenon DEF Utf32Row
<1> QED
  BY <1>6, <1>7, Utf32DotMeans

-----------------------------------------------------------------------------
(* What is read to its end is the code of a character, and the tables      *)
(* accept that.                                                            *)

\* The table of an encoding.
DotOf(encoding) ==
  CASE encoding = "UTF-8"    -> Utf8Dot
    [] encoding = "UTF-16LE" -> Utf16Dot(TRUE)
    [] encoding = "UTF-16BE" -> Utf16Dot(FALSE)
    [] encoding = "UTF-32LE" -> Utf32LEDot
    [] encoding = "UTF-32BE" -> Utf32BEDot

\* The codes kept ready for "." accept what the decoder reads to its end.
LEMMA DotAccepts ==
  ASSUME NEW encoding \in Encodings, encoding # "ASCII"
  PROVE  /\ InOrder(DotOf(encoding))
         /\ \A m \in 1..4 : \A s : ByteSeq(s, m) =>
              (Accepts(DotOf(encoding), s) <=> CodeAt(encoding, s).used = m)
<1>1. CASE encoding = "UTF-8"
  <2>1. DotOf(encoding) = Utf8Dot /\ \A s : CodeAt(encoding, s) = Utf8ToCp(s)
    BY <1>1 DEF DotOf, CodeAt
  <2> QED
    BY <2>1, Utf8DotMeans, Utf8DotAccepts
<1>2. CASE encoding \in {"UTF-16LE", "UTF-16BE"}
  <2>1. PICK le \in BOOLEAN : DotOf(encoding) = Utf16Dot(le) /\ \A s : CodeAt(encoding, s) = Utf16ToCp(s, le)
    BY <1>2 DEF DotOf, CodeAt
  <2> QED
    BY <2>1, Utf16DotMeans, Utf16DotAccepts
<1>3. CASE encoding \in {"UTF-32LE", "UTF-32BE"}
  <2>1. PICK le \in BOOLEAN : DotOf(encoding) = Utf32Dot(le) /\ \A s : CodeAt(encoding, s) = Utf32ToCp(s, le)
    BY <1>3 DEF DotOf, CodeAt, Utf32Dot
  <2> QED
    BY <2>1, Utf32DotMeans, Utf32DotAccepts
<1> QED
  BY <1>1, <1>2, <1>3 DEF Encodings

\* What is read to its end is the code of a character, and every such code is.
LEMMA WholeIsChar ==
  ASSUME NEW encoding \in Encodings, NEW m \in 1..4, NEW s, ByteSeq(s, m)
  PROVE  CodeAt(encoding, s).used = m <=> \E c : IsChar(encoding, c) /\ BytesOf(encoding, c) = s
<1>1. LongAs(s, m) /\ m \in Nat /\ m # 0 /\ m \in 1..m
  BY DEF ByteSeq
<1>2. ASSUME CodeAt(encoding, s).used = m
      PROVE  \E c : IsChar(encoding, c) /\ BytesOf(encoding, c) = s
  <2>1. CodeAt(encoding, s).used # 0
    BY <1>1, <1>2
  <2>2. ReadsCode(encoding, s, m, CodeAt(encoding, s))
    BY <2>1, CodeReads
  <2>3. SubSeq(s, 1, m) = s
    <3>1. FirstOf(SubSeq(s, 1, m), s, m)
      BY <1>1, FirstBytes
    <3>2. LongAs(SubSeq(s, 1, m), m) /\ \A k \in 1..m : SubSeq(s, 1, m)[k] = s[k]
      BY <3>1 DEF FirstOf
    <3> QED
      BY <1>1, <3>2, SequenceMeans
  <2> QED
    BY <1>2, <2>2, <2>3 DEF ReadsCode
<1>3. ASSUME NEW c, IsChar(encoding, c), BytesOf(encoding, c) = s
      PROVE  CodeAt(encoding, s).used = m
  <2>1. Opens(s, BytesOf(encoding, c), m)
    BY <1>1, <1>3 DEF Opens
  <2>2. CodeAt(encoding, s) = Step(c, m)
    BY <1>1, <1>3, <2>1, CodeForth
  <2> QED
    BY <2>2 DEF Step
<1> QED
  BY <1>2, <1>3

-----------------------------------------------------------------------------
(* What a chain reads a sequence as.                                       *)

\* s is the code of c in the chain.
IsCodeOf(chain, c, s) == IsChar(chain.encoding, c) /\ CodeIn(chain, c) = s

\* What a chain reads a sequence as is the code point that it is the code of, if there is one.
LEMMA ReadAsMeans ==
  ASSUME NEW chain, KnownChain(chain), NEW m \in 1..4, NEW s, ByteSeq(s, m)
  PROVE  \A c : ReadAs(chain, s) = c /\ c # None <=> IsCodeOf(chain, c, s)
<1> DEFINE I == ItemAt(chain, s, 0, m)
           w == Width(chain, s, 0, m)
           items == Items(chain, s, 0, m)
           r == Items(chain, s, w, m)
<1>0. m \in Nat /\ m \in 1..m /\ m \in 0..m /\ 0 \in 0..m - 1 /\ 0 \in 0..m /\ m - 0 = m /\ 0 # m
  OBVIOUS
<1>1. Len(s) = m /\ LongAs(s, m) /\ (\A k \in 1..m : s[k] \in 0..255) /\ s \in Seq(0..255)
  <2>1. LongAs(s, m) /\ \A k \in 1..m : s[k] \in 0..255
    BY DEF ByteSeq
  <2>2. s = [k \in 1..m |-> s[k]]
    BY <1>0, <2>1, SequenceMeans
  <2> DEFINE B == 0..255
  <2>3. \A k \in 1..m : s[k] \in B
    BY <2>1
  <2> HIDE DEF B
  <2>4. s \in Seq(B)
    <3>1. s \in [1..m -> B]
      BY <2>2, <2>3
    <3> QED
      BY <1>0, <3>1, FunctionIsSeq
  <2> QED
    BY <2>1, <2>4 DEF B, LongAs
<1>2. chain.encoding \in Encodings
  BY DEF KnownChain
<1>3. m \in 0..Len(s)
  BY <1>0, <1>1
<1>4. w \in 1..m /\ I.at = 0
  BY <1>0, <1>2, ItemFits
<1>5. items = <<I>> \o r
  <2>1. 0 + w = w
    BY <1>4
  <2>2. items = IF 0 = m THEN <<>> ELSE <<I>> \o Items(chain, s, 0 + w, m)
    BY <1>0, <1>2, ItemsUnfold
  <2> HIDE DEF items, I, w
  <2> QED
    BY <1>0, <2>1, <2>2
<1>6. Items(chain, s, m, m) = <<>>
  BY <1>0, <1>2, ItemsUnfold
<1>7. PICK l \in Nat : LongAs(r, l) /\ (w < m => l >= 1)
  <2> DEFINE F == AllItems(chain, s, m)
  <2>1. w \in 0..m /\ F[w] = r
    BY <1>4 DEF AllItems
  <2>2. PICK n \in 0..m - w : ItemsFrom(F[w], n, F, w, m)
    BY <1>0, <1>2, <2>1, ItemsShape
  <2>3. n \in Nat /\ LongAs(r, n) /\ (w < m => n >= 1)
    BY <1>4, <2>1, <2>2 DEF ItemsFrom
  <2> QED
    BY <2>3
<1> HIDE DEF r, items
<1>8. Len(items) = 1 + l /\ items[1] = I
  <2>1. LongAs(<<I>>, 1) /\ <<I>>[1] = I
    BY OneElement
  <2>2. Joins(items, <<I>>, 1, r, l)
    BY <1>5, <1>7, <2>1, JoinSequences
  <2>3. 1 \in 1..1
    OBVIOUS
  <2> QED
    BY <2>1, <2>2, <2>3 DEF Joins, LongAs
<1>9. ReadAs(chain, s) = IF Len(items) = 1 /\ ~IsBad(items[1]) THEN items[1].val ELSE None
  BY <1>1 DEF ReadAs, items
<1> HIDE DEF I, w
<1>10. Len(items) = 1 <=> w = m
  <2>1. w = m => l = 0
    <3> SUFFICES ASSUME w = m PROVE l = 0
      OBVIOUS
    <3>1. r = <<>>
      BY <1>6 DEF r, w
    <3> QED
      BY <1>7, <3>1, NoElement DEF LongAs
  <2> QED
    BY <1>4, <1>7, <1>8, <2>1
<1>11. ASSUME NEW c, ReadAs(chain, s) = c, c # None PROVE IsCodeOf(chain, c, s)
  <2>1. w = m /\ ~IsBad(I) /\ I.val = c
    BY <1>8, <1>9, <1>10, <1>11
  <2>2. 0 + w = m
    BY <1>0, <2>1
  <2>3. Placed(chain, s, I, m)
    BY <1>0, <1>1, <1>3, <2>2, ItemPlaced DEF I, w
  <2>4. Spelled(chain, s, 0, c, m)
    <3>1. I.at \in Nat
      BY <1>4
    <3>2. Spelled(chain, s, I.at, I.val, m - I.at)
      BY <1>1, <1>3, <2>1, <2>3, <3>1, PlacedSpells
    <3> QED
      BY <1>0, <1>4, <2>1, <3>2
  <2>5. LongAs(CodeIn(chain, c), m) /\ \A k \in 1..m : s[k] = CodeIn(chain, c)[k]
    <3>1. \A k \in 1..m : 0 + k = k
      OBVIOUS
    <3> QED
      BY <2>4, <3>1 DEF Spelled
  <2>6. CodeIn(chain, c) = s
    BY <1>0, <1>1, <2>5, SequenceMeans
  <2> QED
    BY <2>4, <2>6 DEF Spelled, IsCodeOf
<1>12. ASSUME NEW c, IsCodeOf(chain, c, s) PROVE ReadAs(chain, s) = c /\ c # None
  <2>1. Spelled(chain, s, 0, c, m)
    <3>1. \A k \in 1..m : 0 + k = k
      OBVIOUS
    <3> QED
      BY <1>1, <1>12, <3>1 DEF Spelled, IsCodeOf
  <2>2. I = Item(c, 0) /\ w = m
    <3>1. m \in 1..m - 0
      BY <1>0
    <3> QED
      BY <1>0, <1>1, <1>3, <2>1, <3>1, ItemForth DEF I, w
  <2>3. c \in Nat
    BY <1>12, CharIsNumber DEF IsCodeOf
  <2>4. I.val = c /\ ~IsBad(I) /\ c # None
    BY <2>2, <2>3 DEF Item, IsBad, None
  <2> QED
    BY <1>8, <1>9, <1>10, <2>2, <2>4
<1> QED
  BY <1>11, <1>12

-----------------------------------------------------------------------------
(* The codes of a set: those of its code points, or of all characters when *)
(* every code point looked at is in it.                                    *)

\* Codes are kept ready for chains without rotation and OCE only, and they are those of the encoding.
LEMMA DotHolds ==
  ASSUME NEW chain, KnownChain(chain), NEW W, "dot" \in DOMAIN EncoderOf(chain, W)
  PROVE  /\ chain.rot = 0 /\ chain.bytes # "OCE" /\ chain.encoding # "ASCII"
         /\ EncoderOf(chain, W).dot = DotOf(chain.encoding)
<1> DEFINE V == W \cup {Rotated(chain.rot, c) : c \in W}
           base == BaseOf(chain.encoding, V)
           bytewise == IF chain.bytes = "OCE" THEN Bytewise(OCE, base) ELSE base
           e == EncoderOf(chain, W)
<1>1. e = IF chain.rot = 0 THEN bytewise ELSE Rot(chain.rot, bytewise, W)
  BY DEF EncoderOf, BaseOf
<1> HIDE DEF V
<1>2. \A code : "dot" \notin DOMAIN Plain(code)
  BY DEF Plain
<1>3. "dot" \notin DOMAIN Bytewise(OCE, base) /\ "dot" \notin DOMAIN Rot(chain.rot, bytewise, W)
  BY <1>2, Zenon DEF Bytewise, Rot
<1>4. chain.rot = 0 /\ chain.bytes # "OCE" /\ e = base
  BY <1>1, <1>3, Zenon
<1>5. chain.encoding # "ASCII"
  <2>1. "dot" \notin DOMAIN Ascii(V)
    BY <1>2, Zenon DEF Ascii
  <2>2. chain.encoding = "ASCII" => base = Ascii(V)
    BY Zenon DEF BaseOf
  <2> QED
    BY <1>4, <2>1, <2>2, Zenon
<1>6. base.dot = DotOf(chain.encoding)
  <2> HIDE DEF base, e
  <2>1. CASE chain.encoding = "UTF-8"
    <3>1. base = UTF8(V) /\ UTF8(V).dot = Utf8Dot /\ DotOf(chain.encoding) = Utf8Dot
      BY <2>1 DEF base, BaseOf, UTF8, Utf, DotOf
    <3> QED
      BY <3>1
  <2>2. CASE chain.encoding = "UTF-16LE"
    <3>1. base = UTF16LE(V) /\ UTF16LE(V).dot = Utf16Dot(TRUE) /\ DotOf(chain.encoding) = Utf16Dot(TRUE)
      BY <2>2 DEF base, BaseOf, UTF16LE, Utf, DotOf
    <3> QED
      BY <3>1
  <2>3. CASE chain.encoding = "UTF-16BE"
    <3>1. base = UTF16BE(V) /\ UTF16BE(V).dot = Utf16Dot(FALSE) /\ DotOf(chain.encoding) = Utf16Dot(FALSE)
      BY <2>3 DEF base, BaseOf, UTF16BE, Utf, DotOf
    <3> QED
      BY <3>1
  <2>4. CASE chain.encoding = "UTF-32LE"
    <3>1. base = UTF32LE(V) /\ UTF32LE(V).dot = Utf32LEDot /\ DotOf(chain.encoding) = Utf32LEDot
      BY <2>4 DEF base, BaseOf, UTF32LE, Utf, DotOf
    <3> QED
      BY <3>1
  <2>5. CASE chain.encoding = "UTF-32BE"
    <3>1. base = UTF32BE(V) /\ UTF32BE(V).dot = Utf32BEDot /\ DotOf(chain.encoding) = Utf32BEDot
      BY <2>5 DEF base, BaseOf, UTF32BE, Utf, DotOf
    <3> QED
      BY <3>1
  <2> QED
    BY <1>5, <2>1, <2>2, <2>3, <2>4, <2>5 DEF KnownChain, Encodings
<1> QED
  BY <1>4, <1>5, <1>6

\* Is the code of c among those of S?
DotUsed(e, S) == "dot" \in DOMAIN e /\ DOMAIN e.code \subseteq S
Among(e, S, c) == DotUsed(e, S) \/ c \in S \cap DOMAIN e.code

\* The codes written for a set are those of its code points, or of all characters.
LEMMA CodesMean ==
  ASSUME NEW chain, KnownChain(chain), NEW W, W \subseteq Nat, NEW S, IsFiniteSet(S)
  PROVE  /\ InOrder(Codes(EncoderOf(chain, W), S))
         /\ \A m \in 1..4 : \A s : ByteSeq(s, m) =>
              (Accepts(Codes(EncoderOf(chain, W), S), s)
                 <=> \E c : IsCodeOf(chain, c, s) /\ Among(EncoderOf(chain, W), S, c))
<1> DEFINE e == EncoderOf(chain, W)
<1>0. \A m \in 1..4 : m \in Nat
  OBVIOUS
<1>1. \A m \in 1..4 : \A s : ByteSeq(s, m) => LongAs(s, m)
  BY DEF ByteSeq
<1>2. CASE DotUsed(e, S)
  <2>1. "dot" \in DOMAIN e
    BY <1>2, Zenon DEF DotUsed
  <2>2. Codes(e, S) = e.dot
    BY <1>2 DEF Codes, DotUsed
  <2>3. chain.rot = 0 /\ chain.bytes # "OCE" /\ chain.encoding # "ASCII" /\ e.dot = DotOf(chain.encoding)
    BY <2>1, DotHolds
  <2>4. chain.encoding \in Encodings
    BY DEF KnownChain
  <2>5. \A c : CodeIn(chain, c) = BytesOf(chain.encoding, c)
    <3> SUFFICES ASSUME NEW c PROVE CodeIn(chain, c) = BytesOf(chain.encoding, c)
      OBVIOUS
    <3>1. Rotated(chain.rot, c) = c
      BY <2>3, RotatedBack DEF KnownChain
    <3> QED
      BY <2>3, <3>1, Zenon DEF CodeIn, Passed
  <2>6. \A c : Among(e, S, c)
    BY <1>2 DEF Among
  <2> HIDE DEF e
  <2>7. InOrder(Codes(e, S))
    BY <2>2, <2>3, <2>4, DotAccepts
  <2>8. ASSUME NEW m \in 1..4, NEW s, ByteSeq(s, m)
        PROVE  Accepts(Codes(e, S), s) <=> \E c : IsCodeOf(chain, c, s) /\ Among(e, S, c)
    <3>1. Accepts(Codes(e, S), s) <=> CodeAt(chain.encoding, s).used = m
      BY <2>2, <2>3, <2>4, <2>8, DotAccepts
    <3>2. CodeAt(chain.encoding, s).used = m <=> \E c : IsChar(chain.encoding, c) /\ BytesOf(chain.encoding, c) = s
      BY <2>4, <2>8, WholeIsChar
    <3> QED
      BY <2>5, <2>6, <3>1, <3>2, Zenon DEF IsCodeOf
  <2> QED
    BY <2>7, <2>8 DEF e
<1>3. CASE ~DotUsed(e, S)
  <2>1. Codes(e, S) = Write(e, S)
    BY <1>3, Zenon DEF Codes, DotUsed
  <2>2. IsEncoder(e)
    BY ChainIsEncoder
  <2>3. CodesOfChain(e.code, chain, W)
    BY EncoderCodes
  <2> HIDE DEF e
  <2>4. InOrder(Codes(e, S))
    BY <2>1, <2>2, WriteExact
  <2>5. ASSUME NEW m \in 1..4, NEW s, ByteSeq(s, m)
        PROVE  Accepts(Codes(e, S), s) <=> \E c : IsCodeOf(chain, c, s) /\ Among(e, S, c)
    <3>1. Accepts(Codes(e, S), s) <=> \E c \in S \cap DOMAIN e.code : e.code[c] = s
      BY <1>0, <1>1, <2>1, <2>2, <2>5, WriteExact
    <3>2. \A c \in DOMAIN e.code : IsChar(chain.encoding, c) /\ e.code[c] = CodeIn(chain, c)
      BY <2>3, Zenon DEF CodesOfChain
    <3>3. \A c : Among(e, S, c) <=> c \in S \cap DOMAIN e.code
      BY <1>3, Zenon DEF Among
    <3> QED
      BY <3>1, <3>2, <3>3, Zenon DEF IsCodeOf
  <2> QED
    BY <2>4, <2>5 DEF e
<1> QED
  BY <1>2, <1>3

-----------------------------------------------------------------------------
(* Bytes added to codes, or taken away from them.                          *)

\* A code in front, a code behind, and the first code apart from the rest.
LEMMA FirstAccepts ==
  ASSUME NEW n \in Nat, NEW t, LongAs(t, n), NEW u, NEW s
  PROVE  /\ Accepts(<<u>> \o t, s) <=> Fits(u, s) \/ Accepts(t, s)
         /\ Accepts(Append(t, u), s) <=> Fits(u, s) \/ Accepts(t, s)
<1> DEFINE w == <<u>> \o t
           v == Append(t, u)
           good(x) == Fits(x, s)
<1>1. DOMAIN t = 1..n
  BY SequenceMeans
<1>2. LongAs(w, 1 + n) /\ w[1] = u /\ \A k \in 1..n : w[1 + k] = t[k]
  <2>1. LongAs(<<u>>, 1) /\ <<u>>[1] = u
    BY OneElement
  <2>2. Joins(w, <<u>>, 1, t, n)
    BY <2>1, JoinSequences
  <2>3. 1 \in 1..1
    OBVIOUS
  <2> HIDE DEF w
  <2> QED
    BY <2>1, <2>2, <2>3 DEF Joins
<1>3. DOMAIN w = 1..1 + n
  <2>1. 1 + n \in Nat
    OBVIOUS
  <2> HIDE DEF w
  <2> QED
    BY <1>2, <2>1, SequenceMeans
<1>4. DOMAIN v = 1..n + 1 /\ v[n + 1] = u /\ \A k \in 1..n : v[k] = t[k]
  BY AppendSequence DEF LongAs
<1> HIDE DEF w, v, good
<1>5. (\E k \in 1..1 + n : good(w[k])) <=> good(u) \/ \E k \in 1..n : good(t[k])
  <2>1. ASSUME NEW k \in 1..1 + n, good(w[k]) PROVE good(u) \/ \E j \in 1..n : good(t[j])
    <3>1. CASE k = 1
      BY <1>2, <2>1, <3>1
    <3>2. CASE k # 1
      <4>1. k - 1 \in 1..n /\ 1 + (k - 1) = k
        BY <3>2
      <4> QED
        BY <1>2, <2>1, <4>1
    <3> QED
      BY <3>1, <3>2
  <2>2. ASSUME good(u) PROVE \E k \in 1..1 + n : good(w[k])
    <3>1. 1 \in 1..1 + n
      OBVIOUS
    <3> QED
      BY <1>2, <2>2, <3>1
  <2>3. ASSUME NEW j \in 1..n, good(t[j]) PROVE \E k \in 1..1 + n : good(w[k])
    <3>1. 1 + j \in 1..1 + n
      OBVIOUS
    <3> QED
      BY <1>2, <2>3, <3>1
  <2> QED
    BY <2>1, <2>2, <2>3
<1>6. (\E k \in 1..n + 1 : good(v[k])) <=> good(u) \/ \E k \in 1..n : good(t[k])
  <2>1. ASSUME NEW k \in 1..n + 1, good(v[k]) PROVE good(u) \/ \E j \in 1..n : good(t[j])
    <3>1. k \in 1..n \/ k = n + 1
      OBVIOUS
    <3> QED
      BY <1>4, <2>1, <3>1
  <2>2. n + 1 \in 1..n + 1 /\ \A j \in 1..n : j \in 1..n + 1
    OBVIOUS
  <2> QED
    BY <1>4, <2>1, <2>2
<1> QED
  BY <1>1, <1>3, <1>4, <1>5, <1>6 DEF Accepts, good, w, v

\* The first code apart from the rest.
LEMMA TailAccepts ==
  ASSUME NEW n \in Nat, n # 0, NEW codes, LongAs(codes, n)
  PROVE  /\ LongAs(Tail(codes), n - 1) /\ \A k \in 1..n - 1 : Tail(codes)[k] = codes[k + 1]
         /\ \A s : Accepts(codes, s) <=> Fits(codes[1], s) \/ Accepts(Tail(codes), s)
<1> DEFINE t == Tail(codes)
           S == {codes[i] : i \in DOMAIN codes}
<1>1. codes \in Seq(S) /\ Len(codes) = n /\ DOMAIN codes = 1..n
  BY SequenceMeans DEF LongAs, IsSequence
<1> HIDE DEF S
<1>2. codes # <<>>
  BY <1>1
<1>3. t \in Seq(S) /\ Len(t) = n - 1 /\ \A k \in 1..n - 1 : t[k] = codes[k + 1]
  BY <1>1, <1>2, HeadTailProperties
<1> HIDE DEF t
<1>4. LongAs(t, n - 1) /\ n - 1 \in Nat
  BY <1>3, SeqIsSequence DEF LongAs
<1>5. ASSUME NEW s PROVE Accepts(codes, s) <=> Fits(codes[1], s) \/ Accepts(t, s)
  <2> DEFINE good(x) == Fits(x, s)
  <2>1. DOMAIN t = 1..n - 1
    BY <1>4, SequenceMeans
  <2> HIDE DEF good
  <2>2. (\E k \in 1..n : good(codes[k])) <=> good(codes[1]) \/ \E k \in 1..n - 1 : good(t[k])
    <3>1. ASSUME NEW k \in 1..n, good(codes[k]) PROVE good(codes[1]) \/ \E j \in 1..n - 1 : good(t[j])
      <4>1. CASE k = 1
        BY <3>1, <4>1
      <4>2. CASE k # 1
        <5>1. k - 1 \in 1..n - 1 /\ (k - 1) + 1 = k
          BY <4>2
        <5> QED
          BY <1>3, <3>1, <5>1
      <4> QED
        BY <4>1, <4>2
    <3>2. 1 \in 1..n /\ \A j \in 1..n - 1 : j + 1 \in 1..n
      OBVIOUS
    <3> QED
      BY <1>3, <3>1, <3>2
  <2> QED
    BY <1>1, <2>1, <2>2 DEF Accepts, good
<1> QED
  BY <1>3, <1>4, <1>5 DEF t

\* Codes with bytes added accept the bytes too; with bytes taken away, no longer accept them.
LEMMA WithBytesMeans ==
  ASSUME NEW codes, InOrder(codes), NEW bytes, NEW additive \in BOOLEAN,
         NEW m \in 1..4, NEW s, LongAs(s, m)
  PROVE  Accepts(WithBytes(codes, bytes, additive), s)
           <=> IF additive THEN Accepts(codes, s) \/ (m = 1 /\ s[1] \in bytes)
               ELSE Accepts(codes, s) /\ ~(m = 1 /\ s[1] \in bytes)
<1> DEFINE single == codes # <<>> /\ Len(codes[1]) = 1
           first == codes[1][1]
           t == Tail(codes)
           WithFirst(B) == IF B = {} THEN t ELSE <<<<B>>>> \o t
           w == WithBytes(codes, bytes, additive)
           isByte == m = 1 /\ s[1] \in bytes
<1>1. PICK n \in Nat : /\ LongAs(codes, n) /\ (\A k \in 1..n : IsCode(codes[k]))
                       /\ \A k \in 2..n : Len(codes[k]) # 1
  BY DEF InOrder
<1>2. w = CASE bytes = {}                         -> codes
            [] bytes # {} /\ additive /\ single   -> WithFirst(first \cup bytes)
            [] bytes # {} /\ additive /\ ~single  -> Append(codes, <<bytes>>)
            [] bytes # {} /\ ~additive /\ single  -> WithFirst(first \ bytes)
            [] OTHER                              -> codes
  BY DEF WithBytes
<1>3. DOMAIN codes = 1..n /\ (codes = <<>> => n = 0)
  BY <1>1, SequenceMeans, NoElement DEF LongAs
<1>0. m \in Nat
  OBVIOUS
<1>j. \A j : j \in 1..1 <=> j = 1
  OBVIOUS
<1>4. \A B : Fits(<<B>>, s) <=> m = 1 /\ s[1] \in B
  BY FitsFew, Zenon
<1>5. \A k \in 1..n : Len(codes[k]) # 1 => ~(Fits(codes[k], s) /\ m = 1)
  BY DEF Fits, LongAs
<1> HIDE DEF w
<1>6. CASE single
  <2>1. n # 0
    <3>1. n = 0 => codes = <<>>
      BY <1>1, EmptySeq DEF LongAs, IsSequence
    <3> QED
      BY <1>6, <3>1
  <2>2. /\ LongAs(t, n - 1) /\ n - 1 \in Nat /\ \A k \in 1..n - 1 : t[k] = codes[k + 1]
        /\ Accepts(codes, s) <=> Fits(codes[1], s) \/ Accepts(t, s)
    <3>1. n - 1 \in Nat
      BY <2>1
    <3>2. /\ LongAs(Tail(codes), n - 1) /\ \A k \in 1..n - 1 : Tail(codes)[k] = codes[k + 1]
          /\ \A x : Accepts(codes, x) <=> Fits(codes[1], x) \/ Accepts(Tail(codes), x)
      BY <1>1, <2>1, TailAccepts, Zenon
    <3> QED
      BY <3>1, <3>2
  <2> HIDE DEF t
  <2>3. ~(Accepts(t, s) /\ m = 1)
    <3>1. DOMAIN t = 1..n - 1
      BY <2>2, SequenceMeans
    <3>2. \A k \in 1..n - 1 : k + 1 \in 2..n /\ k + 1 \in 1..n
      OBVIOUS
    <3>3. \A k \in 1..n - 1 : ~(Fits(t[k], s) /\ m = 1)
      BY <1>1, <1>5, <2>2, <3>2
    <3> QED
      BY <3>1, <3>3 DEF Accepts
  <2>4. Fits(codes[1], s) <=> m = 1 /\ s[1] \in first
    <3>1. 1 \in 1..n /\ 1 \in Nat
      BY <2>1
    <3>2. LongAs(codes[1], 1)
      BY <1>1, <1>6, <3>1 DEF IsCode, LongAs
    <3>3. Fits(codes[1], s) <=> m = 1 /\ \A j \in 1..1 : s[j] \in codes[1][j]
      <4> HIDE DEF single, WithFirst, first
      <4> QED
        BY <1>0, <3>1, <3>2, FitsMeans, Zenon
    <3> QED
      BY <1>j, <3>3
  <2>5. ASSUME NEW B PROVE Accepts(WithFirst(B), s) <=> (m = 1 /\ s[1] \in B) \/ Accepts(t, s)
    <3>1. CASE B = {}
      BY <3>1
    <3>2. CASE B # {}
      <4>1. Accepts(<<<<B>>>> \o t, s) <=> Fits(<<B>>, s) \/ Accepts(t, s)
        BY <2>2, FirstAccepts
      <4> QED
        BY <1>4, <3>2, <4>1
    <3> QED
      BY <3>1, <3>2
  <2> HIDE DEF WithFirst, first, single
  <2>6. CASE bytes = {}
    BY <1>2, <2>6 DEF w
  <2>7. CASE bytes # {} /\ additive
    <3>1. w = WithFirst(first \cup bytes)
      BY <1>2, <1>6, <2>7
    <3> QED
      BY <2>2, <2>4, <2>5, <2>7, <3>1 DEF w
  <2>8. CASE bytes # {} /\ ~additive
    <3>1. w = WithFirst(first \ bytes)
      BY <1>2, <1>6, <2>8
    <3> QED
      BY <2>2, <2>3, <2>4, <2>5, <2>8, <3>1 DEF w
  <2> QED
    BY <2>6, <2>7, <2>8
<1>7. CASE ~single
  <2>1. ~(Accepts(codes, s) /\ m = 1)
    <3>1. \A k \in 1..n : Len(codes[k]) # 1
      <4>1. \A k \in 1..n : k = 1 \/ k \in 2..n
        OBVIOUS
      <4>2. n # 0 => codes # <<>>
        BY <1>1, NoElement DEF LongAs
      <4>3. \A k \in 1..n : n # 0
        OBVIOUS
      <4> QED
        BY <1>1, <1>7, <4>1, <4>2, <4>3
    <3> QED
      BY <1>3, <1>5, <3>1 DEF Accepts
  <2> HIDE DEF WithFirst, single
  <2>2. CASE bytes = {}
    BY <1>2, <2>2 DEF w
  <2>3. CASE bytes # {} /\ additive
    <3>1. w = Append(codes, <<bytes>>)
      BY <1>2, <1>7, <2>3
    <3>2. Accepts(Append(codes, <<bytes>>), s) <=> Fits(<<bytes>>, s) \/ Accepts(codes, s)
      BY <1>1, FirstAccepts
    <3> QED
      BY <1>4, <2>3, <3>1, <3>2 DEF w
  <2>4. CASE bytes # {} /\ ~additive
    <3>1. w = codes
      BY <1>2, <1>7, <2>4
    <3> QED
      BY <2>1, <2>4, <3>1 DEF w
  <2> QED
    BY <2>2, <2>3, <2>4
<1> QED
  BY <1>6, <1>7

-----------------------------------------------------------------------------
(* The codes of a class.                                                   *)

\* Is s the code of a character whose code is written for S?
CharOf(chain, W, S, s) == \E c : IsCodeOf(chain, c, s) /\ Among(EncoderOf(chain, W), S, c)
ByteOf(bytes, s, m) == m = 1 /\ s[1] \in bytes
Shall(additive, isChar, isByte) == IF additive THEN isChar \/ isByte ELSE isChar /\ ~isByte

\* What the codes of a class accept.
LEMMA ClassCodesMean ==
  ASSUME NEW chain, KnownChain(chain), NEW W, W \subseteq Nat, NEW S, IsFiniteSet(S),
         NEW bytes, NEW additive \in BOOLEAN, NEW m \in 1..4, NEW s, ByteSeq(s, m)
  PROVE  Accepts(ClassCodes(EncoderOf(chain, W), S, bytes, additive), s)
           <=> Shall(additive, CharOf(chain, W, S, s), ByteOf(bytes, s, m))
<1> DEFINE codes == Codes(EncoderOf(chain, W), S)
<1>1. InOrder(codes) /\ (Accepts(codes, s) <=> CharOf(chain, W, S, s))
  BY CodesMean DEF CharOf
<1>2. LongAs(s, m)
  BY DEF ByteSeq
<1> HIDE DEF codes
<1>3. Accepts(WithBytes(codes, bytes, additive), s)
        <=> IF additive THEN Accepts(codes, s) \/ (m = 1 /\ s[1] \in bytes)
            ELSE Accepts(codes, s) /\ ~(m = 1 /\ s[1] \in bytes)
  BY <1>1, <1>2, WithBytesMeans
<1> QED
  BY <1>1, <1>3, Zenon DEF ClassCodes, codes, Shall, ByteOf

\* There is one such character, if it is a code point looked at.
LEMMA CharIsRead ==
  ASSUME NEW chain, KnownChain(chain), NEW W, W \subseteq Nat, NEW S, S \subseteq W,
         NEW m \in 1..4, NEW s, ByteSeq(s, m)
  PROVE  /\ ReadAs(chain, s) \in W \cup {None} => (CharOf(chain, W, S, s) <=> ReadAs(chain, s) \in S)
         /\ ReadAs(chain, s) \in W => ReadAs(chain, s) \in DOMAIN EncoderOf(chain, W).code
<1> DEFINE c == ReadAs(chain, s)
           e == EncoderOf(chain, W)
<1>1. \A d : c = d /\ d # None <=> IsCodeOf(chain, d, s)
  BY ReadAsMeans
<1>2. CodesOfChain(e.code, chain, W)
  BY EncoderCodes
<1>3. None \notin W
  BY DEF None
<1> HIDE DEF c, e
<1>4. c \in W => c # None /\ IsCodeOf(chain, c, s) /\ c \in DOMAIN e.code
  BY <1>1, <1>2, <1>3, Zenon DEF CodesOfChain, IsCodeOf
<1>5. CASE c = None
  <2>1. ~CharOf(chain, W, S, s)
    BY <1>1, <1>5, Zenon DEF CharOf
  <2> QED
    BY <1>3, <1>5, <2>1 DEF c
<1>6. CASE c \in W
  <2>1. CharOf(chain, W, S, s) <=> Among(e, S, c)
    BY <1>1, <1>4, <1>6 DEF CharOf, e
  <2>2. Among(e, S, c) <=> c \in S
    BY <1>4, <1>6, Zenon DEF Among, DotUsed
  <2> QED
    BY <1>4, <1>6, <2>1, <2>2 DEF c, e
<1> QED
  BY <1>5, <1>6 DEF c

\* The sequences that classes are looked at for are one to four bytes.
LEMMA SampleIsBytes ==
  ASSUME NEW chain \in Chains, NEW s \in Samples[chain]
  PROVE  \E m \in 1..4 : ByteSeq(s, m)
<1> DEFINE e == EncoderOf(chain, CodePoints)
           B == 0..255
<1>1. s \in OneByteAway(e) \cup {<<b>> : b \in SingleBytes}
  BY DEF Samples, EncoderCache
<1>2. KnownChain(chain) /\ CodePoints \subseteq Nat
  BY ChainsAssumption, CodePointsAssumption DEF KnownChain, Encodings
<1>3. IsEncoder(e)
  BY <1>2, ChainIsEncoder
<1> HIDE DEF e
<1>4. CASE s \in {<<b>> : b \in SingleBytes}
  <2>1. PICK b \in SingleBytes : s = <<b>>
    BY <1>4
  <2>2. IsByte(b)
    BY CodesAssumption DEF IsByte
  <2> QED
    BY <2>1, <2>2, BytesLong DEF ByteCode
<1>5. CASE s \in OneByteAway(e)
  <2>1. PICK c \in DOMAIN e.code :
          LET u == e.code[c]
          IN s \in {u} \cup {[u EXCEPT ![k] = (@ + d) % 256] : k \in DOMAIN u, d \in {1, 255}}
    BY <1>5 DEF OneByteAway
  <2> DEFINE u == e.code[c]
  <2>2. ByteCode(u)
    BY <1>3 DEF IsEncoder
  <2>3. PICK m \in 1..4 : ByteSeq(u, m)
    BY <2>2 DEF ByteCode
  <2> HIDE DEF u
  <2>4. m \in Nat /\ LongAs(u, m) /\ \A k \in 1..m : u[k] \in B
    BY <2>3 DEF ByteSeq
  <2>5. DOMAIN u = 1..m /\ u = [k \in 1..m |-> u[k]]
    BY <2>4, SequenceMeans
  <2>6. CASE s = u
    BY <2>3, <2>6
  <2>7. ASSUME NEW k \in DOMAIN u, NEW d \in {1, 255}, s = [u EXCEPT ![k] = (@ + d) % 256]
        PROVE  \E j \in 1..4 : ByteSeq(s, j)
    <3> DEFINE x == (u[k] + d) % 256
    <3>1. x \in B
      <4>1. k \in 1..m /\ d \in Nat
        BY <2>5
      <4>2. u[k] \in Nat
        BY <2>4, <4>1, SMTT(60)
      <4> QED
        BY <4>1, <4>2, SMT
    <3>2. s = [u EXCEPT ![k] = x]
      BY <2>7
    <3> HIDE DEF x, B
    <3>3. s = [j \in 1..m |-> IF j = k THEN x ELSE u[j]]
      BY <2>5, <3>2
    <3>4. s = [j \in 1..m |-> s[j]] /\ \A j \in 1..m : s[j] \in B
      BY <2>4, <3>1, <3>3
    <3>5. LongAs(s, m)
      BY <2>4, <3>4, SequenceMeans
    <3>6. ByteSeq(s, m)
      BY <3>4, <3>5, SMTT(60) DEF ByteSeq, B
    <3> HIDE DEF u
    <3> QED
      BY <3>6
  <2> QED
    BY <2>1, <2>6, <2>7 DEF u
<1> QED
  BY <1>1, <1>4, <1>5

-----------------------------------------------------------------------------
(* What is written for the class that the parser has closed.               *)

\* The code points of a class that are looked at.
Looked(x) == PointsWithin(x.points, CodePoints)

\* What the codes written for a class accept.
LEMMA ClassWritten ==
  ASSUME ClassKept, NEW x, IsClass(x), NEW s \in Samples[input.chain]
  PROVE  LET c == ReadAs(input.chain, s)
             isChar == CharOf(input.chain, CodePoints, Looked(x), s)
         IN /\ Accepts(CodesOf(x), s) <=> Shall(x.additive, isChar, Len(s) = 1 /\ s[1] \in x.bytes)
            /\ c \in CodePoints \cup {None} => (isChar <=> c \in Looked(x))
<1> DEFINE chain == input.chain
           S == Looked(x)
<1>1. chain \in Chains
  BY InputsAssumption DEF ClassKept
<1>2. KnownChain(chain)
  BY <1>1, ChainsAssumption DEF KnownChain, Encodings
<1>3. S \subseteq CodePoints
  BY DEF Looked, PointsWithin
<1>4. CodePoints \subseteq Nat /\ IsFiniteSet(S)
  <2>1. CodePoints \subseteq 0..CodePointEnd - 1
    BY CodePointsAssumption
  <2> HIDE DEF S
  <2>2. S \subseteq 0..CodePointEnd - 1
    BY <1>3, <2>1
  <2>3. CodePoints \subseteq Nat
    <3>1. 0..CodePointEnd - 1 \subseteq Nat
      BY EndIsNumber
    <3> QED
      BY <2>1, <3>1, Zenon
  <2>4. IsFiniteSet(S)
    BY <2>2, PointsFinite, Zenon
  <2> QED
    BY <2>3, <2>4
<1>5. PICK m \in 1..4 : ByteSeq(s, m)
  BY <1>1, SampleIsBytes
<1>6. x.additive \in BOOLEAN
  BY ClassFields, Zenon
<1>7. CodesOf(x) = ClassCodes(EncoderOf(chain, CodePoints), S, x.bytes, x.additive)
  BY <1>1 DEF CodesOf, EncoderCache, Looked
<1>8. ByteOf(x.bytes, s, m) <=> Len(s) = 1 /\ s[1] \in x.bytes
  BY <1>5 DEF ByteOf, ByteSeq, LongAs
<1> HIDE DEF S
<1>9. Accepts(CodesOf(x), s) <=> Shall(x.additive, CharOf(chain, CodePoints, S, s), ByteOf(x.bytes, s, m))
  <2> HIDE DEF chain
  <2> QED
    BY <1>2, <1>4, <1>5, <1>6, <1>7, ClassCodesMean
<1>10. ReadAs(chain, s) \in CodePoints \cup {None}
         => (CharOf(chain, CodePoints, S, s) <=> ReadAs(chain, s) \in S)
  <2> HIDE DEF chain
  <2> QED
    BY <1>2, <1>3, <1>4, <1>5, CharIsRead
<1> QED
  BY <1>8, <1>9, <1>10, Zenon DEF S, Shall

\* A result that is held is of the class as it is closed: what every action keeps.
WrittenKept == ClassKept /\ (call.name = "write" => stage = "closed" /\ answer = CodesOf(class))

\* No result is held at first ...
LEMMA WrittenAtFirst == Init => WrittenKept
<1> SUFFICES ASSUME Init PROVE WrittenKept
  OBVIOUS
<1>1. call.name = "none"
  BY DEF Init, NoCall
<1> QED
  BY <1>1, KeptAtFirst DEF WrittenKept

\* ... no step makes it another one, or changes the class while it is held ...
LEMMA WrittenKeptByEveryStep == ASSUME WrittenKept, [Next]_vars PROVE WrittenKept'
<1>1. ClassKept /\ (call.name = "write" => stage = "closed" /\ answer = CodesOf(class))
  BY DEF WrittenKept
<1>2. ClassKept'
  BY <1>1, KeptByEveryStep
<1> DEFINE Held == call.name = "write" => stage = "closed" /\ answer = CodesOf(class)
<1>n. NoCall.name = "none" /\ "none" # "write" /\ "read" # "write" /\ "context" # "write"
      /\ "none" # "closed" /\ "open" # "closed"
  BY DEF NoCall
<1>3. ASSUME UNCHANGED <<input, class, stage, call, answer>> PROVE Held'
  BY <1>1, <1>3 DEF CodesOf
<1>4. ASSUME NEW x \in input.first, FirstItem(x) PROVE Held'
  BY <1>1, <1>n, <1>4 DEF FirstItem
<1>5. ASSUME NEW op \in input.operators, NEW x \in input.next, NextItem(op, x) PROVE Held'
  BY <1>1, <1>n, <1>5 DEF NextItem
<1>6. ASSUME NEW negated \in input.closes, CloseClass(negated) PROVE Held'
  BY <1>1, <1>n, <1>6 DEF CloseClass
<1>7. ASSUME WriteClass PROVE Held'
  BY <1>7 DEF WriteClass, CodesOf
<1>8. ASSUME NEW hbeg, NEW hend, NEW leading, NEW trailing, ReadWindow(hbeg, hend, leading, trailing)
      PROVE  Held'
  BY <1>n, <1>8 DEF ReadWindow
<1>9. ASSUME NEW hbeg, NEW hend, NEW size, NEW replacement, HitContext(hbeg, hend, size, replacement)
      PROVE  Held'
  BY <1>n, <1>9 DEF HitContext
<1>10. ASSUME Free PROVE Held'
  BY <1>n, <1>10 DEF Free
<1>11. Held'
  BY <1>3, <1>4, <1>5, <1>6, <1>7, <1>8, <1>9, <1>10 DEF Next, vars
<1> QED
  BY <1>2, <1>11 DEF WrittenKept

\* ... so it is of the class at every time.
LEMMA WrittenKeptAlways == Spec => []WrittenKept
<1> QED
  BY WrittenAtFirst, WrittenKeptByEveryStep, PTL DEF Spec

\* Such a result is exact.
LEMMA WrittenIsExact == WrittenKept => CodesExact
<1> SUFFICES ASSUME WrittenKept, call.name = "write", NEW s \in Samples[input.chain],
                    ReadAs(input.chain, s) \in CodePoints \cup {None}
             PROVE  LET isChar == ReadAs(input.chain, s) \in PointsWithin(class.points, CodePoints)
                        isByte == Len(s) = 1 /\ s[1] \in class.bytes
                    IN Accepts(answer, s) <=> IF class.additive THEN isChar \/ isByte ELSE isChar /\ ~isByte
  BY DEF CodesExact
<1>1. ClassKept /\ IsClass(class) /\ answer = CodesOf(class)
  BY DEF WrittenKept, ClassKept
<1> QED
  BY <1>1, ClassWritten DEF Shall, Looked

\* The codes written for a class accept what the decoder of the chain reads as a code point
\* of it, and nothing else that is one or none: whatever the encoding, the rotation and the
\* table of bytes, wherever ranges of code points begin and end and blocks, lengths and
\* surrogates lie among them, and with the codes kept ready for ".".
THEOREM CodesExactAlways == Spec => []CodesExact
<1> QED
  BY WrittenKeptAlways, WrittenIsExact, PTL

-----------------------------------------------------------------------------
(* The two ways to close a bracket expression.                             *)

\* No sequence is the code of a character of two sets that have none in common.
LEMMA CharOfOne ==
  ASSUME NEW chain, KnownChain(chain), NEW W, DOMAIN EncoderOf(chain, W).code # {},
         NEW S, NEW T, S \cap T = {}, NEW m \in 1..4, NEW s, ByteSeq(s, m)
  PROVE  ~(CharOf(chain, W, S, s) /\ CharOf(chain, W, T, s))
<1> DEFINE e == EncoderOf(chain, W)
<1>1. \A c : ReadAs(chain, s) = c /\ c # None <=> IsCodeOf(chain, c, s)
  BY ReadAsMeans
<1>2. DOMAIN e.code # {}
  OBVIOUS
<1> HIDE DEF e
<1> SUFFICES ASSUME NEW c, IsCodeOf(chain, c, s), Among(e, S, c),
                    NEW d, IsCodeOf(chain, d, s), Among(e, T, d)
             PROVE  FALSE
  BY Zenon DEF CharOf, e
<1>3. c = d
  BY <1>1
<1> QED
  BY <1>2, <1>3, Zenon DEF Among, DotUsed

\* The bytes of a class that is closed, and what they do.
LEMMA ClosedBytes ==
  ASSUME NEW x, IsClass(x), NEW folds
  PROVE  LET P == Closed(FALSE, x, folds)
             N == Closed(TRUE, x, folds)
         IN /\ P.bytes = x.bytes /\ P.additive = x.additive
            /\ x.points # <<>> =>
                 N.bytes = x.bytes /\ N.additive = IF x.bytes # {} THEN FALSE ELSE x.additive
            /\ x.points = <<>> /\ x.bytes # {} =>
                 N.points = <<>> /\ N.bytes = 0..255 \ x.bytes /\ N.additive = x.additive
<1> DEFINE q == CaseDesensitize(x.points, folds)
           a == IF x.bytes # {} THEN FALSE ELSE x.additive
           C == 0..255 \ x.bytes
<1>1. Closed(FALSE, x, folds) = [x EXCEPT !.points = q]
  BY DEF Closed, Positive
<1>2. x.points # <<>> => Closed(TRUE, x, folds) = [x EXCEPT !.points = Flip(q), !.additive = a]
  BY DEF Closed, Negative
<1>3. x.points = <<>> /\ x.bytes # {} => Closed(TRUE, x, folds) = [x EXCEPT !.bytes = C]
  BY DEF Closed, Negative
<1>4. /\ \A v : [x EXCEPT !.points = v] = Class(v, x.bytes, x.additive)
      /\ \A B : [x EXCEPT !.bytes = B] = Class(x.points, B, x.additive)
      /\ \A v, b : [x EXCEPT !.points = v, !.additive = b] = Class(v, x.bytes, b)
  BY ClassFields, ZenonT(60)
<1> HIDE DEF q, a, C
<1>5. Closed(FALSE, x, folds) = Class(q, x.bytes, x.additive)
  BY <1>1, <1>4, Zenon
<1>6. x.points # <<>> => Closed(TRUE, x, folds) = Class(Flip(q), x.bytes, a)
  BY <1>2, <1>4, Zenon
<1>7. x.points = <<>> /\ x.bytes # {} => Closed(TRUE, x, folds) = Class(x.points, C, x.additive)
  BY <1>3, <1>4, Zenon
<1>8. \A y, v, B, b : y = Class(v, B, b) => y.points = v /\ y.bytes = B /\ y.additive = b
  BY DEF Class
<1> DEFINE P == Closed(FALSE, x, folds)
           N == Closed(TRUE, x, folds)
<1> HIDE DEF P, N
<1>9. P.bytes = x.bytes /\ P.additive = x.additive
  <2>1. P = Class(q, x.bytes, x.additive)
    BY <1>5 DEF P
  <2> QED
    BY <1>8, <2>1, Zenon
<1>10. x.points # <<>> => N.bytes = x.bytes /\ N.additive = a
  <2>1. x.points # <<>> => N = Class(Flip(q), x.bytes, a)
    BY <1>6 DEF N
  <2> QED
    BY <1>8, <2>1, Zenon
<1>11. x.points = <<>> /\ x.bytes # {} => N.points = <<>> /\ N.bytes = C /\ N.additive = x.additive
  <2>1. x.points = <<>> /\ x.bytes # {} => N = Class(x.points, C, x.additive)
    BY <1>7 DEF N
  <2>2. \A B, b : N = Class(x.points, B, b) => N.points = x.points /\ N.bytes = B /\ N.additive = b
    BY <1>8
  <2> QED
    BY <2>1, <2>2
<1> QED
  BY <1>9, <1>10, <1>11, Zenon DEF P, N, a, C

\* The code points of a class that is closed one way and the other: with code points inside
\* there are some, and the others; without there are none, and none.
LEMMA ClosedPoints ==
  ASSUME NEW x, IsClass(x), NEW folds, AreFolds(folds),
         NEW P, P = Closed(FALSE, x, folds), NEW N, N = Closed(TRUE, x, folds)
  PROVE  /\ IsClass(P) /\ IsClass(N)
         /\ x.points # <<>> =>
              P.points # <<>> /\ Members(N.points) = (0..CodePointEnd - 1) \ Members(P.points)
         /\ x.points = <<>> => Members(P.points) = {} /\ P.points = <<>>
         /\ x.points = <<>> /\ x.bytes # {} => Members(N.points) = {}
<1> DEFINE p == x.points
           E == EqualButForCase(p, folds)
<1>1. /\ IsClass(P) /\ IsClass(N)
      /\ Members(P.points) = Members(p) \cup E
      /\ Members(p) # {} => Members(N.points) = (0..CodePointEnd - 1) \ (Members(p) \cup E)
  BY ClosedMeans
<1>2. IsRangeSet(p) /\ IsRangeSet(P.points) /\ IsRangeSet(N.points)
  <2> QED
    BY <1>1 DEF IsClass
<1>3. /\ p = <<>> <=> Members(p) = {}
      /\ P.points = <<>> <=> Members(P.points) = {}
      /\ N.points = <<>> <=> Members(N.points) = {}
  <2> QED
    BY <1>2, NoBoundsNoMembers
<1>4. Members(p) = {} => E = {}
  BY DEF EqualButForCase, Members, AreFolds
<1>5. p = <<>> /\ x.bytes # {} => N.points = <<>>
  BY ClosedBytes, ZenonT(60)
<1> HIDE DEF E, p
<1>6. p = <<>> => Members(P.points) = {} /\ P.points = <<>>
  BY <1>1, <1>3, <1>4
<1>7. p = <<>> /\ x.bytes # {} => Members(N.points) = {}
  BY <1>3, <1>5
<1>8. p # <<>> => P.points # <<>> /\ Members(N.points) = (0..CodePointEnd - 1) \ Members(P.points)
  <2> SUFFICES ASSUME p # <<>>
               PROVE  P.points # <<>> /\ Members(N.points) = (0..CodePointEnd - 1) \ Members(P.points)
    OBVIOUS
  <2>1. Members(p) # {}
    BY <1>3
  <2>2. Members(P.points) # {}
    BY <1>1, <2>1
  <2>3. P.points # <<>>
    BY <1>3, <2>2
  <2>4. Members(N.points) = (0..CodePointEnd - 1) \ Members(P.points)
    BY <1>1, <2>1
  <2> QED
    BY <2>3, <2>4
<1> QED
  BY <1>1, <1>6, <1>7, <1>8 DEF p

\* What the two accept is nothing of both; with code points inside, and none taken away,
\* there is no character that neither accepts.
LEMMA KeptComplements == ClassKept => NegationComplements
<1> DEFINE P == Closed(FALSE, class, Folds)
           N == Closed(TRUE, class, Folds)
           within == IF EmptyClass(FALSE, class, Folds) THEN <<>> ELSE CodesOf(P)
           without == IF EmptyClass(TRUE, class, Folds) THEN <<>> ELSE CodesOf(N)
<1> SUFFICES ASSUME ClassKept, NEW s \in Samples[input.chain]
             PROVE  IF Accepts(within, s) THEN ~Accepts(without, s)
                    ELSE (class.points # <<>> /\ class.additive) /\ ~Accepts(without, s)
                           => ReadAs(input.chain, s) \notin CodePoints
  BY DEF NegationComplements
<1> DEFINE chain == input.chain
           c == ReadAs(chain, s)
           i1 == CharOf(chain, CodePoints, Looked(P), s)
           i2 == CharOf(chain, CodePoints, Looked(N), s)
           b1 == Len(s) = 1 /\ s[1] \in P.bytes
           b2 == Len(s) = 1 /\ s[1] \in N.bytes
           a1 == Accepts(within, s)
           a2 == Accepts(without, s)
<1>1. chain \in Chains
  BY InputsAssumption DEF ClassKept
<1>2. KnownChain(chain) /\ DOMAIN EncoderOf(chain, CodePoints).code # {}
  BY <1>1, ChainsAssumption, CodesAssumption DEF KnownChain, Encodings
<1>3. PICK m \in 1..4 : ByteSeq(s, m)
  BY <1>1, SampleIsBytes
<1>4. IsClass(class) /\ AreFolds(Folds)
  BY CodePointsAssumption DEF ClassKept, Folds, AreFolds
<1>5. /\ IsClass(P) /\ IsClass(N)
      /\ class.points # <<>> =>
           P.points # <<>> /\ Members(N.points) = (0..CodePointEnd - 1) \ Members(P.points)
      /\ class.points = <<>> => Members(P.points) = {} /\ P.points = <<>>
      /\ class.points = <<>> /\ class.bytes # {} => Members(N.points) = {}
  <2> HIDE DEF P, N
  <2>1. IsClass(class) /\ AreFolds(Folds)
    BY <1>4
  <2>2. P = Closed(FALSE, class, Folds) /\ N = Closed(TRUE, class, Folds)
    BY DEF P, N
  <2> HIDE DEF P, N
  <2> QED
    BY <2>1, <2>2, ClosedPoints, ZenonT(60)
<1>6. /\ P.bytes = class.bytes /\ P.additive = class.additive
      /\ class.points # <<>> =>
           N.bytes = class.bytes /\ N.additive = IF class.bytes # {} THEN FALSE ELSE class.additive
      /\ class.points = <<>> /\ class.bytes # {} =>
           N.points = <<>> /\ N.bytes = 0..255 \ class.bytes /\ N.additive = class.additive
  BY <1>4, ClosedBytes, ZenonT(60)
<1>7. \A v : PointsWithin(v, CodePoints) = Members(v) \cap CodePoints
  BY CodePointsAssumption DEF PointsWithin, Members
<1>8. ~Accepts(<<>>, s)
  BY DEF Accepts
<1>9. /\ EmptyClass(FALSE, class, Folds) <=> P.points = <<>> /\ P.bytes = {}
      /\ class.points # <<>> => (EmptyClass(TRUE, class, Folds) <=> N.points = <<>>)
  BY DEF EmptyClass
<1> HIDE DEF P, N
<1>10. /\ Accepts(CodesOf(P), s) <=> Shall(P.additive, i1, b1)
       /\ c \in CodePoints \cup {None} => (i1 <=> c \in Looked(P))
       /\ Accepts(CodesOf(N), s) <=> Shall(N.additive, i2, b2)
       /\ c \in CodePoints \cup {None} => (i2 <=> c \in Looked(N))
  BY <1>5, ClassWritten
<1>11. /\ a1 => Shall(P.additive, i1, b1)
       /\ a2 => Shall(N.additive, i2, b2)
       /\ ~EmptyClass(FALSE, class, Folds) => (a1 <=> Shall(P.additive, i1, b1))
       /\ ~EmptyClass(TRUE, class, Folds) => (a2 <=> Shall(N.additive, i2, b2))
       /\ EmptyClass(FALSE, class, Folds) => ~a1
       /\ EmptyClass(TRUE, class, Folds) => ~a2
  BY <1>8, <1>10, Zenon
<1>12. Looked(P) = Members(P.points) \cap CodePoints /\ Looked(N) = Members(N.points) \cap CodePoints
  BY <1>7 DEF Looked
<1>13. IsRangeSet(N.points) /\ (N.points = <<>> <=> Members(N.points) = {})
  BY <1>5, NoBoundsNoMembers DEF IsClass
<1>14. /\ Looked(P) \cap Looked(N) = {} => ~(i1 /\ i2)
       /\ Looked(P) = {} => ~i1
       /\ Looked(N) = {} => ~i2
  <2> HIDE DEF chain
  <2>1. \A S, T : S \cap T = {} => ~(CharOf(chain, CodePoints, S, s) /\ CharOf(chain, CodePoints, T, s))
    BY <1>2, <1>3, CharOfOne, Zenon
  <2> QED
    BY <2>1
<1>15. class.additive \in BOOLEAN
  BY <1>4, ClassFields, Zenon
<1>16. CodePoints \subseteq 0..CodePointEnd - 1
  BY CodePointsAssumption
<1> HIDE DEF a1, a2, i1, i2, c, within, without, chain
<1>17. CASE class.points # <<>>
  <2>1. Looked(P) \cap Looked(N) = {} /\ CodePoints \subseteq Looked(P) \cup Looked(N)
    BY <1>5, <1>12, <1>16, <1>17
  <2>2. ~(i1 /\ i2)
    BY <1>14, <2>1
  <2>3. i2 => N.points # <<>>
    BY <1>12, <1>13, <1>14
  <2>4. a1 <=> Shall(class.additive, i1, b1)
    BY <1>5, <1>6, <1>9, <1>11, <1>17 DEF Shall
  <2>5. a2 <=> N.points # <<>> /\ Shall(IF class.bytes # {} THEN FALSE ELSE class.additive, i2, b1)
    BY <1>6, <1>9, <1>11, <1>17 DEF Shall
  <2>6. b1 => class.bytes # {}
    BY <1>6
  <2> HIDE DEF b1
  <2>7. ~(a1 /\ a2)
    BY <2>2, <2>4, <2>5, <2>6 DEF Shall
  <2>8. ASSUME class.additive, c \in CodePoints, ~a1, ~a2 PROVE FALSE
    <3>1. ~i1 /\ ~b1
      BY <2>4, <2>8 DEF Shall
    <3>2. i2
      BY <1>10, <2>1, <2>8, <3>1
    <3> QED
      BY <2>3, <2>5, <2>8, <3>1, <3>2 DEF Shall
  <2> QED
    BY <2>7, <2>8, Zenon DEF a1, a2, c, within, without, chain
<1>18. CASE class.points = <<>> /\ class.bytes # {}
  <2>1. Looked(P) = {} /\ Looked(N) = {}
    BY <1>5, <1>12, <1>18
  <2>2. ~i1 /\ ~i2
    BY <1>14, <2>1
  <2>3. ~(b1 /\ b2)
    BY <1>6, <1>18
  <2>4. ~(a1 /\ a2)
    BY <1>11, <2>2, <2>3 DEF Shall
  <2> QED
    BY <1>18, <2>4, Zenon DEF a1, a2, c, within, without, chain
<1>19. CASE class.points = <<>> /\ class.bytes = {}
  <2>1. EmptyClass(FALSE, class, Folds)
    BY <1>5, <1>6, <1>9, <1>19
  <2>2. ~a1
    BY <1>11, <2>1
  <2> QED
    BY <1>19, <2>2, Zenon DEF a1, a2, c, within, without, chain
<1> QED
  BY <1>17, <1>18, <1>19

\* A bracket expression and its negation complement each other: no code is accepted by both,
\* and with code points in the brackets, and no class among them that was negated with bytes,
\* the code of every character is accepted by one of them; case is closed over before code
\* points are negated, and bytes are taken from one and added to the other.
THEOREM NegationComplementsAlways == Spec => []NegationComplements
<1> QED
  BY WrittenKeptAlways, KeptComplements, PTL DEF WrittenKept

=============================================================================
