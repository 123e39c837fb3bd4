------------------------------ MODULE DataLemmas ------------------------------
(***************************************************************************)
(* Induction over data, for the proofs about modules whose operators count *)
(* or concatenate.  The induction theorems of the library take the         *)
(* induction hypothesis as an operator; here it is a set of numbers.       *)
(* Sequences, what joins two of them and what is a part of one, for the    *)
(* proofs that only count.                                                 *)
(***************************************************************************)
EXTENDS Integers, SequencesExt, SequenceTheorems, WellFoundedInduction, TLAPS

\* A non-empty set of naturals has a least element.
LEMMA LeastNatural ==
  ASSUME NEW T, T \subseteq Nat, T # {}
  PROVE  \E m \in T : \A n \in T : m <= n
<1>1. PICK m \in T : \A n \in T : <<n, m>> \notin OpToRel(<, Nat)
  BY NatLessThanWellFounded, WFMin
<1>2. ASSUME NEW n \in T PROVE m <= n
  <2>1. m \in Nat /\ n \in Nat
    OBVIOUS
  <2>2. ~(n < m)
    BY <1>1, <2>1, Zenon DEF OpToRel
  <2> QED
    BY <2>1, <2>2
<1> QED
  BY <1>2

\* A set of naturals with 0, and with n + 1 for every n in it, has them all.
LEMMA InductionOnNat ==
  ASSUME NEW T, T \subseteq Nat, 0 \in T, \A n \in T : n + 1 \in T
  PROVE  \A n \in Nat : n \in T
<1> SUFFICES ASSUME Nat \ T # {} PROVE FALSE
  OBVIOUS
<1>1. PICK m \in Nat \ T : \A n \in Nat \ T : m <= n
  BY LeastNatural
<1>2. m - 1 \in T
  BY <1>1
<1> QED
  BY <1>1, <1>2

-----------------------------------------------------------------------------
\* A sequence, whatever it holds.
IsSequence(s) == s \in Seq({s[i] : i \in DOMAIN s})

\* A function on the first n numbers is a sequence.
LEMMA FunctionIsSeq ==
  ASSUME NEW T, NEW n \in Nat, NEW m \in [1..n -> T]
  PROVE  m \in Seq(T) /\ Len(m) = n
OBVIOUS

\* Any sequence over a set is one.
LEMMA SeqIsSequence ==
  ASSUME NEW S, NEW s \in Seq(S)
  PROVE  IsSequence(s)
<1>1. s \in [1..Len(s) -> {s[i] : i \in DOMAIN s}] /\ Len(s) \in Nat
  BY LenProperties
<1> QED
  BY <1>1 DEF IsSequence

\* Appending an element keeps a sequence and the elements it has.
LEMMA AppendSequence ==
  ASSUME NEW s, IsSequence(s), NEW e
  PROVE  /\ IsSequence(Append(s, e))
         /\ Len(s) \in Nat /\ DOMAIN s = 1..Len(s)
         /\ Len(Append(s, e)) = Len(s) + 1 /\ DOMAIN Append(s, e) = 1..Len(s) + 1
         /\ \A i \in 1..Len(s) : Append(s, e)[i] = s[i]
         /\ Append(s, e)[Len(s) + 1] = e
<1> DEFINE S == {s[i] : i \in DOMAIN s} \cup {e}
<1>1. s \in Seq(S)
  <2>1. s \in Seq({s[i] : i \in DOMAIN s})
    BY DEF IsSequence
  <2>2. {s[i] : i \in DOMAIN s} \subseteq S
    OBVIOUS
  <2> QED
    BY <2>1, <2>2, SeqMonotonic
<1>2. e \in S
  OBVIOUS
<1> HIDE DEF S
<1>3. Append(s, e) \in Seq(S)
  BY <1>1, <1>2, AppendProperties
<1>4. IsSequence(Append(s, e))
  BY <1>3, SeqIsSequence
<1>5. /\ Len(s) \in Nat /\ DOMAIN s = 1..Len(s)
      /\ DOMAIN Append(s, e) = 1..Len(Append(s, e))
  BY <1>1, <1>3, LenProperties
<1>6. /\ Len(Append(s, e)) = Len(s) + 1
      /\ \A i \in 1..Len(s) : Append(s, e)[i] = s[i]
      /\ Append(s, e)[Len(s) + 1] = e
  BY <1>1, <1>2, AppendProperties
<1> QED
  BY <1>4, <1>5, <1>6

-----------------------------------------------------------------------------
\* f concatenates the first n of seqs, as FlattenSeq does.
Flattens(f, seqs, n) ==
  f = [i \in 1..n |-> IF i = 1 THEN seqs[i] ELSE f[i - 1] \o seqs[i]]

\* There is such a function for every length.
LEMMA FlattensExists == ASSUME NEW seqs PROVE \A n \in Nat : \E f : Flattens(f, seqs, n)
<1> DEFINE T == {n \in Nat : \E f : Flattens(f, seqs, n)}
<1>1. 0 \in T
  <2>1. Flattens([i \in 1..0 |-> i], seqs, 0)
    BY 1..0 = {}, Zenon DEF Flattens
  <2> QED
    BY <2>1
<1>2. ASSUME NEW n \in T PROVE n + 1 \in T
  <2>1. PICK f : Flattens(f, seqs, n)
    OBVIOUS
  <2> DEFINE g == [i \in 1..n + 1 |-> IF i <= n THEN f[i]
                                      ELSE IF n = 0 THEN seqs[1] ELSE f[n] \o seqs[n + 1]]
  <2>2. ASSUME NEW i \in 1..n + 1
        PROVE  g[i] = IF i = 1 THEN seqs[i] ELSE g[i - 1] \o seqs[i]
    <3>1. CASE i <= n
      <4>0. i \in 1..n
        BY <3>1
      <4>1. f[i] = IF i = 1 THEN seqs[i] ELSE f[i - 1] \o seqs[i]
        BY <2>1, <4>0 DEF Flattens
      <4>2. i # 1 => g[i - 1] = f[i - 1]
        BY <3>1
      <4> QED
        BY <3>1, <4>1, <4>2
    <3>2. CASE i = n + 1
      <4>1. i # 1 => g[i - 1] = f[n]
        BY <3>2
      <4> QED
        BY <3>2, <4>1
    <3> QED
      BY <3>1, <3>2
  <2>3. Flattens(g, seqs, n + 1)
    BY <2>2 DEF Flattens
  <2> QED
    BY <2>3
<1>3. T \subseteq Nat
  OBVIOUS
<1> HIDE DEF T
<1>4. \A n \in Nat : n \in T
  BY <1>1, <1>2, <1>3, InductionOnNat
<1> QED
  BY <1>4 DEF T

\* Two sequences agree on their first n elements.
Agree(s, t, n) == \A i \in 1..n : s[i] = t[i]

\* The partial concatenations of sequences that agree are the same as far as they do:
\* there is one function only that FlattenSeq can choose.
LEMMA FlattensUnique ==
  ASSUME NEW s, NEW t, NEW m \in Nat, NEW n \in Nat, NEW f, NEW g, m <= n,
         Flattens(f, s, m), Flattens(g, t, n), Agree(s, t, m)
  PROVE  Agree(f, g, m)
<1> DEFINE T == {i \in Nat : i \in 1..m => f[i] = g[i]}
<1>1. 0 \in T
  OBVIOUS
<1>2. ASSUME NEW i \in T PROVE i + 1 \in T
  <2> DEFINE k == i + 1
  <2> SUFFICES ASSUME k \in 1..m PROVE f[k] = g[k]
    OBVIOUS
  <2>1. k \in 1..n /\ k - 1 = i
    OBVIOUS
  <2>2. k # 1 => f[k - 1] = g[k - 1]
    BY <2>1
  <2> HIDE DEF k
  <2>3. /\ f[k] = IF k = 1 THEN s[k] ELSE f[k - 1] \o s[k]
        /\ g[k] = IF k = 1 THEN t[k] ELSE g[k - 1] \o t[k]
    BY <2>1 DEF Flattens
  <2>4. s[k] = t[k]
    BY DEF Agree
  <2> QED
    BY <2>2, <2>3, <2>4
<1>3. T \subseteq Nat
  OBVIOUS
<1> HIDE DEF T
<1>4. \A i \in Nat : i \in T
  BY <1>1, <1>2, <1>3, InductionOnNat
<1> QED
  BY <1>4 DEF T, Agree

\* FlattenSeq is what such a function ends with.
LEMMA FlattenSeqMeans ==
  ASSUME NEW seqs, Len(seqs) \in Nat, Len(seqs) # 0, NEW f, Flattens(f, seqs, Len(seqs))
  PROVE  FlattenSeq(seqs) = f[Len(seqs)]
<1> DEFINE F == CHOOSE g : g = [i \in 1..Len(seqs) |->
                                  IF i = 1 THEN seqs[i] ELSE g[i - 1] \o seqs[i]]
<1>1. FlattenSeq(seqs) = F[Len(seqs)]
  BY SMTT(60) DEF FlattenSeq
<1>2. F = [i \in 1..Len(seqs) |-> IF i = 1 THEN seqs[i] ELSE F[i - 1] \o seqs[i]]
  BY DEF Flattens
<1> HIDE DEF F
<1>3. Flattens(F, seqs, Len(seqs))
  BY <1>2 DEF Flattens
<1>4. F[Len(seqs)] = f[Len(seqs)]
  BY <1>3, FlattensUnique DEF Agree
<1> QED
  BY <1>1, <1>4

\* Concatenating one more sequence appends it to what the others make.
LEMMA FlattenAppend ==
  ASSUME NEW S, NEW seqs \in Seq(Seq(S)), NEW e \in Seq(S)
  PROVE  /\ FlattenSeq(seqs) \in Seq(S)
         /\ FlattenSeq(Append(seqs, e)) = FlattenSeq(seqs) \o e
<1> DEFINE n == Len(seqs)
           all == Append(seqs, e)
<1>1. /\ n \in Nat /\ \A i \in 1..n : seqs[i] \in Seq(S) /\ all[i] = seqs[i]
      /\ Len(all) = n + 1 /\ all[n + 1] = e
  BY AppendProperties, LenProperties, ElementOfSeq
<1>0. n = Len(seqs) /\ all = Append(seqs, e)
  OBVIOUS
<1>2. n \in 0..n + 1 /\ n + 1 \in Nat
  BY <1>1
<1> HIDE DEF n, all
<1>3. PICK f : Flattens(f, all, n + 1)
  BY <1>2, FlattensExists, Zenon
<1>4. PICK g : Flattens(g, seqs, n)
  BY <1>1, FlattensExists, Zenon
<1>5. \A i \in 1..n : g[i] = f[i]
  <2>1. n <= n + 1 /\ Agree(seqs, all, n)
    BY <1>1 DEF Agree
  <2>2. Agree(g, f, n)
    BY <1>1, <1>2, <1>3, <1>4, <2>1, FlattensUnique
  <2> QED
    BY <2>2 DEF Agree
<1>6. FlattenSeq(all) = f[n + 1]
  BY <1>1, <1>3, FlattenSeqMeans
<1>7. f[n + 1] = IF n = 0 THEN e ELSE f[n] \o e
  <2> DEFINE k == n + 1
  <2>1. k \in 1..n + 1 /\ k - 1 = n /\ (k = 1 <=> n = 0)
    BY <1>1
  <2> HIDE DEF k
  <2>2. f[k] = IF k = 1 THEN all[k] ELSE f[k - 1] \o all[k]
    BY <1>3, <2>1 DEF Flattens
  <2> QED
    BY <1>1, <2>1, <2>2 DEF k
<1>8. CASE n = 0
  <2>1. seqs = <<>>
    BY <1>0, <1>8, EmptySeq
  <2>2. FlattenSeq(seqs) = <<>>
    BY <2>1, Len(<<>>) = 0 DEF FlattenSeq
  <2> QED
    BY <1>0, <1>6, <1>7, <1>8, <2>2, ConcatEmptySeq, EmptySeq
<1>9. CASE n # 0
  <2>1. FlattenSeq(seqs) = g[n] /\ g[n] = f[n]
    BY <1>0, <1>1, <1>4, <1>5, <1>9, FlattenSeqMeans
  <2> DEFINE T == {i \in Nat : i \in 1..n => g[i] \in Seq(S)}
  <2>2. 0 \in T
    OBVIOUS
  <2>3. ASSUME NEW i \in T PROVE i + 1 \in T
    <3> DEFINE k == i + 1
    <3> SUFFICES ASSUME k \in 1..n PROVE g[k] \in Seq(S)
      OBVIOUS
    <3>1. k - 1 = i /\ i \in Nat
      OBVIOUS
    <3>2. k # 1 => g[k - 1] \in Seq(S)
      BY <1>1, <3>1
    <3> HIDE DEF k
    <3>3. g[k] = IF k = 1 THEN seqs[k] ELSE g[k - 1] \o seqs[k]
      BY <1>4 DEF Flattens
    <3>4. seqs[k] \in Seq(S)
      BY <1>1
    <3> QED
      BY <3>2, <3>3, <3>4, ConcatProperties
  <2>4. T \subseteq Nat
    OBVIOUS
  <2> HIDE DEF T
  <2>5. n \in T
    BY <1>1, <2>2, <2>3, <2>4, InductionOnNat
  <2>6. g[n] \in Seq(S)
    BY <1>1, <1>9, <2>5 DEF T
  <2> QED
    BY <1>0, <1>6, <1>7, <1>9, <2>1, <2>6
<1> QED
  BY <1>1, <1>8, <1>9

\* What is concatenated may be given element by element: nothing for none, and for
\* one more element what it stands for.
FlattenEach(F, s) == FlattenSeq([i \in DOMAIN s |-> F[s[i]]])

\* Such a concatenation is a sequence again, empty for no element, and an element at the
\* end adds at its end what that element stands for.
LEMMA FlattenMap ==
  ASSUME NEW A, NEW S, NEW F \in [A -> Seq(S)], NEW s \in Seq(A)
  PROVE  /\ FlattenEach(F, s) \in Seq(S)
         /\ s = <<>> => FlattenEach(F, s) = <<>>
         /\ \A e \in A : FlattenEach(F, Append(s, e)) = FlattenEach(F, s) \o F[e]
<1> DEFINE m == [i \in DOMAIN s |-> F[s[i]]]
<1>1. Len(s) \in Nat /\ DOMAIN s = 1..Len(s) /\ \A i \in 1..Len(s) : s[i] \in A
  BY LenProperties, ElementOfSeq
<1>2. m \in Seq(Seq(S)) /\ DOMAIN m = 1..Len(s) /\ Len(m) = Len(s)
  <2>1. m \in [1..Len(s) -> Seq(S)]
    BY <1>1
  <2> HIDE DEF m
  <2>2. m \in Seq(Seq(S))
    BY <1>1, <2>1, FunctionIsSeq
  <2> QED
    BY <1>1, <2>1, <2>2, LenProperties
<1>3. FlattenSeq(m) \in Seq(S)
  <2>1. <<>> \in Seq(S)
    BY EmptySeq
  <2> HIDE DEF m
  <2> QED
    BY <1>2, <2>1, FlattenAppend
<1>4. s = <<>> => FlattenSeq(m) = <<>>
  <2> SUFFICES ASSUME s = <<>> PROVE FlattenSeq(m) = <<>>
    OBVIOUS
  <2>1. m = <<>>
    BY <1>2, Len(<<>>) = 0, EmptySeq, SMTT(60)
  <2> QED
    BY <2>1, Len(<<>>) = 0 DEF FlattenSeq
<1>5. ASSUME NEW e \in A
      PROVE  FlattenSeq([i \in DOMAIN Append(s, e) |-> F[Append(s, e)[i]]]) = FlattenSeq(m) \o F[e]
  <2> DEFINE all == Append(s, e)
             mall == [i \in DOMAIN all |-> F[all[i]]]
  <2>1. /\ DOMAIN all = 1..Len(s) + 1 /\ all[Len(s) + 1] = e
        /\ \A i \in 1..Len(s) : all[i] = s[i]
    <3>1. all \in Seq(A) /\ Len(all) = Len(s) + 1 /\ all[Len(s) + 1] = e
          /\ \A i \in 1..Len(s) : all[i] = s[i]
      BY AppendProperties
    <3> HIDE DEF all
    <3> QED
      BY <3>1, LenProperties
  <2> HIDE DEF all
  <2>2. F[e] \in Seq(S)
    OBVIOUS
  <2>3. /\ Append(m, F[e]) \in Seq(Seq(S)) /\ Len(Append(m, F[e])) = Len(s) + 1
        /\ Append(m, F[e])[Len(s) + 1] = F[e]
        /\ \A i \in 1..Len(s) : Append(m, F[e])[i] = m[i]
    <3> HIDE DEF m
    <3> QED
      BY <1>2, <2>2, AppendProperties
  <2>4. mall = Append(m, F[e])
    <3> DEFINE am == Append(m, F[e])
    <3>1. DOMAIN am = 1..Len(s) + 1 /\ am = [i \in 1..Len(s) + 1 |-> am[i]]
      BY <2>3, LenProperties
    <3>2. \A i \in 1..Len(s) + 1 : am[i] = F[all[i]]
      BY <1>1, <2>1, <2>3, SMTT(60)
    <3> HIDE DEF am
    <3>3. mall = [i \in 1..Len(s) + 1 |-> F[all[i]]]
      BY <2>1
    <3>4. mall = am
      BY <3>1, <3>2, <3>3
    <3> QED
      BY <3>4 DEF am
  <2>5. FlattenSeq(Append(m, F[e])) = FlattenSeq(m) \o F[e]
    <3> HIDE DEF m
    <3> QED
      BY <1>2, <2>2, FlattenAppend
  <2> QED
    BY <2>4, <2>5 DEF all
<1> QED
  BY <1>3, <1>4, <1>5 DEF FlattenEach

\* Nothing comes of nothing, whatever it might have been.
LEMMA FlattenNone == ASSUME NEW F, NEW s, s = <<>> PROVE FlattenEach(F, s) = <<>>
<1> DEFINE m == [i \in DOMAIN s |-> F[s[i]]]
<1>1. DOMAIN s = 1..0
  BY DOMAIN <<>> = 1..0
<1>2. m \in [1..0 -> {F[s[i]] : i \in 1..0}]
  BY <1>1
<1> HIDE DEF m
<1>3. m \in Seq({F[s[i]] : i \in 1..0}) /\ Len(m) = 0
  BY <1>2, FunctionIsSeq
<1>4. m = <<>>
  BY <1>3, EmptySeq
<1>5. FlattenSeq(m) = <<>>
  BY <1>4, Len(<<>>) = 0 DEF FlattenSeq
<1> QED
  BY <1>5 DEF m, FlattenEach

-----------------------------------------------------------------------------
\* The first n of what G gives, put end to end.
First(G, n) == FlattenSeq([k \in 1..n |-> G[k]])

AllSeqs(G, S, n) == \A k \in 1..n : G[k] \in Seq(S)

\* It grows by what G gives next.
LEMMA FirstNext ==
  ASSUME NEW S, NEW G, NEW n \in Nat, AllSeqs(G, S, n)
  PROVE  /\ First(G, n) \in Seq(S)
         /\ n = 0 => First(G, n) = <<>>
         /\ G[n + 1] \in Seq(S) => First(G, n + 1) = First(G, n) \o G[n + 1]
<1> DEFINE m == [k \in 1..n |-> G[k]]
           e == G[n + 1]
           all == [k \in 1..n + 1 |-> G[k]]
<1>1. m \in Seq(Seq(S)) /\ Len(m) = n
  <2>1. m \in [1..n -> Seq(S)]
    BY DEF AllSeqs
  <2> HIDE DEF m
  <2> QED
    BY <2>1, FunctionIsSeq
<1>2. \A k \in 1..n : m[k] = G[k]
  OBVIOUS
<1>3. ASSUME e \in Seq(S) PROVE all = Append(m, e)
  <2> DEFINE am == Append(m, e)
  <2>1. all = [k \in 1..n + 1 |-> G[k]]
    OBVIOUS
  <2> HIDE DEF m
  <2>2. am \in Seq(Seq(S)) /\ Len(am) = n + 1 /\ am[n + 1] = e
        /\ \A k \in 1..n : am[k] = m[k]
    BY <1>1, <1>3, AppendProperties
  <2> HIDE DEF am
  <2>3. DOMAIN am = 1..n + 1 /\ am = [k \in 1..n + 1 |-> am[k]]
    BY <2>2, LenProperties
  <2>4. \A k \in 1..n + 1 : am[k] = G[k]
    BY <1>2, <2>2
  <2>5. all = am
    BY <2>1, <2>3, <2>4
  <2> QED
    BY <2>5 DEF am
<1>4. First(G, n) = FlattenSeq(m) /\ First(G, n + 1) = FlattenSeq(all)
  BY DEF First
<1>5. n = 0 => FlattenSeq(m) = <<>>
  <2> HIDE DEF m
  <2> SUFFICES ASSUME n = 0 PROVE FlattenSeq(m) = <<>>
    OBVIOUS
  <2>1. m = <<>>
    BY <1>1, EmptySeq
  <2> QED
    BY <2>1, Len(<<>>) = 0 DEF FlattenSeq
<1>6. <<>> \in Seq(S)
  BY EmptySeq
<1> HIDE DEF m, all, e
<1>7. FlattenSeq(m) \in Seq(S) /\ \A x \in Seq(S) : FlattenSeq(Append(m, x)) = FlattenSeq(m) \o x
  BY <1>1, <1>6, FlattenAppend
<1> QED
  BY <1>3, <1>4, <1>5, <1>7 DEF e

\* t starts with s.
StartsWith(t, s) == Len(s) <= Len(t) /\ \A i \in 1..Len(s) : t[i] = s[i]

\* A concatenation starts with its first part.
LEMMA ConcatStartsWith ==
  ASSUME NEW S, NEW s \in Seq(S), NEW t \in Seq(S)
  PROVE  StartsWith(s \o t, s)
<1>1. Len(s) \in Nat /\ Len(t) \in Nat
  BY LenProperties
<1> QED
  BY <1>1, ConcatProperties DEF StartsWith

\* To start with is transitive.
LEMMA StartsWithTrans ==
  ASSUME NEW S, NEW s \in Seq(S), NEW t \in Seq(S), NEW u \in Seq(S),
         StartsWith(t, s), StartsWith(u, t)
  PROVE  StartsWith(u, s)
<1>1. Len(s) \in Nat /\ Len(t) \in Nat /\ Len(u) \in Nat
  BY LenProperties
<1> QED
  BY <1>1 DEF StartsWith

\* A sequence that starts with another has it as a prefix, in the words of SequencesExt.
LEMMA StartsWithIsPrefix ==
  ASSUME NEW S, NEW s \in Seq(S), NEW t \in Seq(S), StartsWith(t, s)
  PROVE  IsPrefix(s, t)
<1>1. Len(s) \in Nat /\ Len(t) \in Nat /\ Len(s) <= Len(t) /\ \A i \in 1..Len(s) : t[i] = s[i]
  BY LenProperties DEF StartsWith
<1>2. (\A i \in 1..Len(s) : s[i] \in S) /\ (\A i \in 1..Len(s) : t[i] \in S)
  BY <1>1, ElementOfSeq
<1> DEFINE a == SubSeq(s, 1, Len(s))
           b == SubSeq(t, 1, Len(s))
<1>3. /\ a \in Seq(S) /\ b \in Seq(S) /\ Len(a) = Len(s) /\ Len(b) = Len(s)
      /\ \A i \in 1..Len(s) : a[i] = s[i] /\ b[i] = t[i]
  <2> PICK n \in Nat : n = Len(s)
    BY <1>1
  <2>1. /\ SubSeq(s, 1, n) \in Seq(S) /\ SubSeq(t, 1, n) \in Seq(S)
        /\ Len(SubSeq(s, 1, n)) = IF 1 <= n THEN n - 1 + 1 ELSE 0
        /\ Len(SubSeq(t, 1, n)) = IF 1 <= n THEN n - 1 + 1 ELSE 0
        /\ \A i \in 1..n - 1 + 1 : SubSeq(s, 1, n)[i] = s[1 + i - 1]
        /\ \A i \in 1..n - 1 + 1 : SubSeq(t, 1, n)[i] = t[1 + i - 1]
    BY <1>2, SubSeqProperties
  <2> QED
    BY <2>1
<1> HIDE DEF a, b
<1>4. a = b
  BY <1>1, <1>3, SeqEqual
<1> QED
  BY <1>1, <1>4 DEF IsPrefix, a, b

\* The first of what G gives start the first n.
LEMMA FirstStartsWith ==
  ASSUME NEW S, NEW G, NEW n \in Nat, AllSeqs(G, S, n), NEW u \in 0..n
  PROVE  StartsWith(First(G, n), First(G, u))
<1> DEFINE T == {d \in Nat : u + d <= n => StartsWith(First(G, u + d), First(G, u))}
<1>1. \A k \in 0..n : AllSeqs(G, S, k) /\ First(G, k) \in Seq(S)
  BY FirstNext DEF AllSeqs
<1>2. 0 \in T
  <2>1. Len(First(G, u)) \in Nat /\ u + 0 = u
    BY <1>1, LenProperties
  <2> QED
    BY <2>1 DEF StartsWith
<1>3. ASSUME NEW d \in T PROVE d + 1 \in T
  <2> SUFFICES ASSUME u + (d + 1) <= n PROVE StartsWith(First(G, u + (d + 1)), First(G, u))
    OBVIOUS
  <2> DEFINE k == u + d
  <2>1. k \in Nat /\ k + 1 = u + (d + 1) /\ k \in 0..n /\ k + 1 \in 1..n /\ k + 1 \in 0..n
    OBVIOUS
  <2>2. StartsWith(First(G, k), First(G, u))
    BY <2>1
  <2> HIDE DEF k
  <2>3. G[k + 1] \in Seq(S) /\ First(G, k) \in Seq(S) /\ First(G, u) \in Seq(S) /\ First(G, k + 1) \in Seq(S)
    BY <1>1, <2>1 DEF AllSeqs
  <2>4. First(G, k + 1) = First(G, k) \o G[k + 1]
    BY <1>1, <2>1, <2>3, FirstNext
  <2>5. StartsWith(First(G, k + 1), First(G, k))
    BY <2>3, <2>4, ConcatStartsWith
  <2> QED
    BY <2>1, <2>2, <2>3, <2>5, StartsWithTrans
<1>4. T \subseteq Nat
  OBVIOUS
<1> HIDE DEF T
<1>5. \A d \in Nat : d \in T
  BY <1>2, <1>3, <1>4, InductionOnNat
<1>6. n - u \in Nat /\ u + (n - u) = n
  OBVIOUS
<1> QED
  BY <1>5, <1>6 DEF T

\* H is G without its first.
Without(H, G, n) == \A k \in 1..n : H[k] = G[k + 1]

\* Putting end to end may begin with the first.
LEMMA FirstOfMore ==
  ASSUME NEW S, NEW G, NEW H, NEW n \in Nat, AllSeqs(G, S, n + 1), Without(H, G, n)
  PROVE  First(G, n + 1) = G[1] \o First(H, n)
<1> DEFINE T == {d \in Nat : d <= n => First(G, d + 1) = G[1] \o First(H, d)}
<1>1. /\ G[1] \in Seq(S) /\ \A k \in 1..n : G[k + 1] \in Seq(S) /\ H[k] = G[k + 1]
      /\ \A k \in 0..n : AllSeqs(H, S, k) /\ AllSeqs(G, S, k) /\ AllSeqs(G, S, k + 1)
  BY DEF AllSeqs, Without
<1>2. 0 \in T
  <2>1. /\ First(H, 0) = <<>> /\ First(G, 0) = <<>> /\ First(G, 0 + 1) = First(G, 0) \o G[0 + 1]
    BY <1>1, FirstNext, SMTT(60)
  <2>2. <<>> \o G[1] = G[1] /\ G[1] \o <<>> = G[1]
    BY <1>1, ConcatEmptySeq
  <2>3. First(G, 0 + 1) = G[1] \o First(H, 0)
    BY <2>1, <2>2, SMTT(60)
  <2> QED
    BY <2>3
<1>3. ASSUME NEW d \in T PROVE d + 1 \in T
  <2>0. d \in Nat /\ d + 1 \in Nat
    OBVIOUS
  <2> SUFFICES ASSUME d + 1 <= n PROVE First(G, (d + 1) + 1) = G[1] \o First(H, d + 1)
    BY <2>0, Zenon
  <2>1. d <= n /\ d + 1 \in Nat /\ d \in 0..n /\ d + 1 \in 0..n /\ d + 1 \in 1..n
    BY <2>0
  <2>2. First(G, d + 1) = G[1] \o First(H, d)
    BY <2>1
  <2>3. G[1] \in Seq(S) /\ G[(d + 1) + 1] \in Seq(S) /\ H[d + 1] = G[(d + 1) + 1]
    BY <1>1, <2>1
  <2>4. First(G, (d + 1) + 1) = First(G, d + 1) \o G[(d + 1) + 1]
    BY <1>1, <2>0, <2>1, <2>3, FirstNext
  <2>5. First(H, d) \in Seq(S) /\ First(H, d + 1) = First(H, d) \o G[(d + 1) + 1]
    BY <1>1, <2>1, <2>3, FirstNext, ZenonT(60)
  <2>6. (G[1] \o First(H, d)) \o G[(d + 1) + 1] = G[1] \o (First(H, d) \o G[(d + 1) + 1])
    <3> DEFINE x == G[1]
               y == First(H, d)
               z == G[(d + 1) + 1]
    <3>1. x \in Seq(S) /\ y \in Seq(S) /\ z \in Seq(S)
      BY <2>3, <2>5
    <3> HIDE DEF x, y, z
    <3>2. (x \o y) \o z = x \o (y \o z)
      BY <3>1, ConcatAssociative, SMTT(60)
    <3> QED
      BY <3>2 DEF x, y, z
  <2> QED
    BY <2>2, <2>4, <2>5, <2>6
<1>4. T \subseteq Nat
  OBVIOUS
<1> HIDE DEF T
<1>5. \A d \in Nat : d \in T
  BY <1>2, <1>3, <1>4, InductionOnNat
<1> QED
  BY <1>5 DEF T

\* So may it element by element.
LEMMA FlattenEachHead ==
  ASSUME NEW A, NEW S, NEW F \in [A -> Seq(S)], NEW s \in Seq(A), s # <<>>
  PROVE  /\ Head(s) \in A /\ Tail(s) \in Seq(A)
         /\ FlattenEach(F, s) = F[Head(s)] \o FlattenEach(F, Tail(s))
<1> DEFINE t == Tail(s)
           G == [k \in DOMAIN s |-> F[s[k]]]
           H == [k \in DOMAIN t |-> F[t[k]]]
<1>1. /\ Head(s) \in A /\ Head(s) = s[1] /\ t \in Seq(A) /\ Len(t) = Len(s) - 1
      /\ \A k \in 1..Len(t) : t[k] = s[k + 1]
  BY HeadTailProperties
<1> HIDE DEF t
<1>2. /\ Len(t) \in Nat /\ Len(s) = Len(t) + 1 /\ DOMAIN s = 1..Len(s) /\ DOMAIN t = 1..Len(t)
  BY <1>1, LenProperties
<1>3. \A k \in 1..Len(s) : s[k] \in A
  BY ElementOfSeq
<1>4. AllSeqs(G, S, Len(t) + 1) /\ Without(H, G, Len(t)) /\ G[1] = F[Head(s)]
  BY <1>1, <1>2, <1>3, SMTT(60) DEF AllSeqs, Without
<1>5. FlattenEach(F, s) = First(G, Len(t) + 1) /\ FlattenEach(F, t) = First(H, Len(t))
  <2>1. [k \in 1..Len(t) + 1 |-> G[k]] = G /\ [k \in 1..Len(t) |-> H[k]] = H
    BY <1>2
  <2> QED
    BY <2>1 DEF First, FlattenEach
<1> HIDE DEF G, H
<1>6. First(G, Len(t) + 1) = G[1] \o First(H, Len(t))
  <2> PICK n \in Nat : n = Len(t)
    BY <1>2
  <2>1. AllSeqs(G, S, n + 1) /\ Without(H, G, n)
    BY <1>4
  <2>2. First(G, n + 1) = G[1] \o First(H, n)
    BY <2>1, FirstOfMore
  <2> QED
    BY <2>2, SMTT(60)
<1> QED
  BY <1>1, <1>4, <1>5, <1>6 DEF t
-----------------------------------------------------------------------------
\* A sequence of n elements.
LongAs(s, n) == IsSequence(s) /\ Len(s) = n

\* The functions on the first numbers are the sequences.
LEMMA SequenceMeans ==
  /\ \A n \in Nat : \A s : LongAs(s, n) => DOMAIN s = 1..n /\ s = [k \in 1..n |-> s[k]]
  /\ \A n \in Nat : \A s : s = [k \in 1..n |-> s[k]] => LongAs(s, n)
  /\ \A s : IsSequence(s) => Len(s) \in Nat
<1>1. ASSUME NEW s, IsSequence(s)
      PROVE  Len(s) \in Nat /\ DOMAIN s = 1..Len(s) /\ s = [k \in 1..Len(s) |-> s[k]]
  <2>1. s \in Seq({s[i] : i \in DOMAIN s})
    BY <1>1 DEF IsSequence
  <2>2. Len(s) \in Nat /\ DOMAIN s = 1..Len(s) /\ s \in [1..Len(s) -> {s[i] : i \in DOMAIN s}]
    BY <2>1, LenProperties
  <2> QED
    BY <2>2
<1>2. ASSUME NEW n \in Nat, NEW s, s = [k \in 1..n |-> s[k]] PROVE LongAs(s, n)
  <2>1. DOMAIN s = 1..n
    BY <1>2
  <2>2. s \in [1..n -> {s[i] : i \in DOMAIN s}]
    BY <1>2, <2>1
  <2>3. s \in Seq({s[i] : i \in DOMAIN s}) /\ Len(s) = n
    BY <2>2, FunctionIsSeq
  <2> QED
    BY <2>3 DEF LongAs, IsSequence
<1> QED
  BY <1>1, <1>2 DEF LongAs

\* u is the first a elements of s and then the first b of t.
Joins(u, s, a, t, b) ==
  /\ LongAs(u, a + b)
  /\ \A k \in 1..a : u[k] = s[k]
  /\ \A k \in 1..b : u[a + k] = t[k]

\* Two sequences end to end.
LEMMA JoinSequences ==
  ASSUME NEW a \in Nat, NEW b \in Nat, NEW s, LongAs(s, a), NEW t, LongAs(t, b)
  PROVE  Joins(s \o t, s, a, t, b)
<1> DEFINE S == {s[i] : i \in DOMAIN s} \cup {t[i] : i \in DOMAIN t}
<1>1. s \in Seq(S) /\ t \in Seq(S)
  <2>1. s \in Seq({s[i] : i \in DOMAIN s}) /\ t \in Seq({t[i] : i \in DOMAIN t})
    BY DEF LongAs, IsSequence
  <2>2. {s[i] : i \in DOMAIN s} \subseteq S /\ {t[i] : i \in DOMAIN t} \subseteq S
    OBVIOUS
  <2> HIDE DEF S
  <2> QED
    BY <2>1, <2>2, SeqMonotonic
<1> HIDE DEF S
<1>2. Len(s) = a /\ Len(t) = b
  BY DEF LongAs
<1>3. /\ s \o t \in Seq(S) /\ Len(s \o t) = Len(s) + Len(t)
      /\ \A k \in 1..Len(s) + Len(t) : (s \o t)[k] = IF k <= Len(s) THEN s[k] ELSE t[k - Len(s)]
  BY <1>1, ConcatProperties
<1>4. \A k \in 1..a + b : (s \o t)[k] = IF k <= a THEN s[k] ELSE t[k - a]
  BY <1>2, <1>3
<1>5. LongAs(s \o t, a + b)
  BY <1>2, <1>3, SeqIsSequence DEF LongAs
<1>6. /\ \A k \in 1..a : k \in 1..a + b /\ k <= a
      /\ \A k \in 1..b : a + k \in 1..a + b /\ ~(a + k <= a) /\ (a + k) - a = k
  OBVIOUS
<1>7. (\A k \in 1..a : (s \o t)[k] = s[k]) /\ (\A k \in 1..b : (s \o t)[a + k] = t[k])
  BY <1>4, <1>6
<1> QED
  BY <1>5, <1>7 DEF Joins

\* u is the elements of s behind its first d, up to its element e.
IsPart(u, s, d, e) == LongAs(u, e - d) /\ \A k \in 1..e - d : u[k] = s[d + k]

\* Part of a sequence.
LEMMA PartOfSequence ==
  ASSUME NEW a \in Nat, NEW s, LongAs(s, a), NEW d \in Nat, NEW e \in Nat, d <= e, e <= a
  PROVE  IsPart(SubSeq(s, d + 1, e), s, d, e)
<1> DEFINE S == {s[i] : i \in DOMAIN s}
<1>1. DOMAIN s = 1..a
  BY SequenceMeans
<1>2. \A i \in d + 1..e : s[i] \in S
  BY <1>1, SMTT(60)
<1> HIDE DEF S
<1> DEFINE m == d + 1
<1>3. m \in Int /\ e \in Int /\ e - m + 1 = e - d /\ (m <= e <=> e - d > 0)
  OBVIOUS
<1>4. \A k \in Int : m + k - 1 = d + k
  OBVIOUS
<1>5. \A i \in m..e : s[i] \in S
  BY <1>2
<1> HIDE DEF m
<1>6. /\ SubSeq(s, m, e) \in Seq(S)
      /\ Len(SubSeq(s, m, e)) = IF m <= e THEN e - m + 1 ELSE 0
      /\ \A k \in 1..e - m + 1 : SubSeq(s, m, e)[k] = s[m + k - 1]
  BY <1>3, <1>5, SubSeqProperties
<1>7. Len(SubSeq(s, m, e)) = e - d
  BY <1>3, <1>6
<1>8. LongAs(SubSeq(s, m, e), e - d)
  BY <1>6, <1>7, SeqIsSequence DEF LongAs
<1>9. \A k \in 1..e - d : SubSeq(s, m, e)[k] = s[d + k]
  BY <1>3, <1>4, <1>6
<1> QED
  BY <1>8, <1>9 DEF m, IsPart

\* One element.
LEMMA OneElement == ASSUME NEW x PROVE LongAs(<<x>>, 1) /\ <<x>>[1] = x
<1>1. <<x>> \in Seq({x}) /\ Len(<<x>>) = 1 /\ <<x>>[1] = x
  OBVIOUS
<1> QED
  BY <1>1, SeqIsSequence DEF LongAs

\* None.
LEMMA NoElement == LongAs(<<>>, 0)
<1>1. <<>> \in Seq({}) /\ Len(<<>>) = 0
  BY EmptySeq
<1> QED
  BY <1>1, SeqIsSequence DEF LongAs
=============================================================================
