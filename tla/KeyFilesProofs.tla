---------------------------- MODULE KeyFilesProofs ----------------------------
(***************************************************************************)
(* Proofs about KeyFiles: for all key files, encodings and parsers, the    *)
(* labels of the automaton are the indices of the pattern map, every       *)
(* pattern of every line is in the map or has an error of its own, and a   *)
(* program written to a buffer is read back as it was.                     *)
(***************************************************************************)
EXTENDS KeyFiles, DataLemmas

Entries == [pattern : Text, chain : Text, userIndex : Int]
Reasons == {"no pattern", "no encoding list", "parse", "encoding", "exception"}
Errors == [why : Reasons, source : Text \cup {Null}, index : Int]
Labels == [label : Int, pattern : Text, chain : Text]

Reading == {"line", "add", "thrown"}

\* t is what is left of s after its first k.
LeftOf(t, s, k) == Len(s) = k + Len(t) /\ \A i \in 1..Len(t) : t[i] = s[k + i]

\* The lines of the file being read, the line read last and how many of its
\* encodings the pattern was given to.
All == LinesOf(files[fileNo])
Line == All[lnum]
Tried == Len(EncodingsOf(Line)) - Len(encodings)

DataTypes ==
  /\ files \in KeyLists
  /\ inErr \in Seq(Errors) /\ errs \in Seq(Errors)
  /\ pmap \in Seq(Entries) /\ labels \in Seq(Labels)
  /\ pattern \in Text \cup {Null}

\* Where the reading is: the lines still to come are the rest of the file, and the
\* encodings still to come those of the line read last.
ReadInv ==
  /\ fileNo \in 0..Len(files)
  /\ pc \notin Reading \cup {"files"} => fileNo = Len(files)
  /\ pc \in Reading =>
       /\ fileNo \in 1..Len(files)
       /\ lnum \in 0..Len(All)
       /\ lines \in Seq(Seq(Text)) /\ LeftOf(lines, All, lnum)
  /\ pc = "add" =>
       /\ lnum \in 1..Len(All)
       /\ ~Refused(Line) /\ pattern = Columns(Line)[1]
       /\ encodings \in Seq(Text) /\ Tried \in Nat /\ LeftOf(encodings, EncodingsOf(Line), Tried)

\* What the encodings of a line, the lines of a file and the files come to.
EncodingPatterns(line, n) ==
  [k \in DOMAIN EncodingsOf(line) |->
     IF Admits(line, k) THEN <<[pattern |-> Columns(line)[1], chain |-> EncodingsOf(line)[k],
                                userIndex |-> n]>>
     ELSE <<>>]
EncodingErrors(line, n) ==
  [k \in DOMAIN EncodingsOf(line) |-> IF Admits(line, k) THEN <<>> ELSE <<n>>]

LinePatterns(file) == [n \in DOMAIN LinesOf(file) |-> PatternsOf(LinesOf(file)[n], n - 1)]
LineErrors(file) == [n \in DOMAIN LinesOf(file) |-> ErrorsOf(LinesOf(file)[n], n - 1)]

FilePatterns(fs) == [f \in DOMAIN fs |-> PatternsIn(fs[f])]
FileErrors(fs) == [f \in DOMAIN fs |-> ErrorsIn(fs[f])]

\* The pattern map and the errors are at every step what has been read so far comes
\* to; the errors of the file being read are still apart from those of the chain.
AccountInv ==
  NoneThrew =>
    /\ pc # "thrown"
    /\ pc = "files" =>
         /\ pmap = First(FilePatterns(files), fileNo)
         /\ Indices(errs) = First(FileErrors(files), fileNo)
    /\ pc \in Reading => Indices(errs) = First(FileErrors(files), fileNo - 1)
    /\ pc = "line" =>
         /\ pmap = First(FilePatterns(files), fileNo - 1)
                   \o First(LinePatterns(files[fileNo]), lnum)
         /\ Indices(inErr) = First(LineErrors(files[fileNo]), lnum)
    /\ pc = "add" =>
         /\ pmap = (First(FilePatterns(files), fileNo - 1)
                    \o First(LinePatterns(files[fileNo]), lnum - 1))
                   \o First(EncodingPatterns(Line, lnum - 1), Tried)
         /\ Indices(inErr) = First(LineErrors(files[fileNo]), lnum - 1)
                             \o First(EncodingErrors(Line, lnum - 1), Tried)
    /\ AllAccountedFor

Inv == DataTypes /\ ReadInv /\ LabelsAreIndices /\ AccountInv

-----------------------------------------------------------------------------
(* What the operators of KeyFiles return.                                  *)

\* Dropping what is empty leaves elements of the same kind.
LEMMA NonEmptyTyped ==
  ASSUME NEW S, NEW s \in Seq(S), NEW empty
  PROVE  NonEmpty(s, empty) \in Seq(S)
<1> DEFINE G == [k \in DOMAIN s |-> IF s[k] = empty THEN <<>> ELSE <<s[k]>>]
           n == Len(s)
<1>1. n \in Nat /\ DOMAIN s = 1..n /\ \A k \in 1..n : s[k] \in S
  BY LenProperties, ElementOfSeq
<1>2. AllSeqs(G, S, n)
  BY <1>1 DEF AllSeqs
<1>3. First(G, n) = NonEmpty(s, empty)
  <2>1. [k \in 1..n |-> G[k]] = G
    BY <1>1
  <2> QED
    BY <2>1 DEF First, NonEmpty
<1> HIDE DEF G, n
<1> QED
  BY <1>1, <1>2, <1>3, FirstNext

\* A file has lines of columns, and each line a list of encodings.
LEMMA FileTyped ==
  ASSUME NEW fs \in KeyLists, NEW f \in 1..Len(fs)
  PROVE  /\ fs[f].name \in Text
         /\ LinesOf(fs[f]) \in Seq(Seq(Text))
         /\ DOMAIN LinesOf(fs[f]) = 1..Len(LinesOf(fs[f])) /\ Len(LinesOf(fs[f])) \in Nat
         /\ \A n \in 1..Len(LinesOf(fs[f])) :
              /\ Columns(LinesOf(fs[f])[n]) \in Seq(Text)
              /\ EncodingsOf(LinesOf(fs[f])[n]) \in Seq(Text)
<1>1. fs \in Seq([name : Text, lines : Seq(Seq(Text))])
  BY KeyListsAssumption
<1>2. fs[f] \in [name : Text, lines : Seq(Seq(Text))] /\ f \in DOMAIN fs
  BY <1>1, ElementOfSeq, LenProperties
<1>3. fs[f].name \in Text /\ fs[f].lines \in Seq(Seq(Text))
  BY <1>2
<1>4. LinesOf(fs[f]) \in Seq(Seq(Text))
  BY <1>3, NonEmptyTyped DEF LinesOf
<1> DEFINE all == LinesOf(fs[f])
<1>5. all \in Seq(Seq(Text))
  BY <1>4
<1>6. \A n \in DOMAIN all : EncodingsOf(all[n]) \in Seq(Text)
  BY <1>2, EncodingsAssumption
<1> HIDE DEF all
<1>7. DOMAIN all = 1..Len(all) /\ Len(all) \in Nat
  BY <1>5, LenProperties
<1>8. ASSUME NEW n \in 1..Len(all) PROVE Columns(all[n]) \in Seq(Text)
  <2>1. all[n] \in Seq(Text)
    BY <1>5, ElementOfSeq
  <2> QED
    BY <2>1, NonEmptyTyped DEF Columns
<1> QED
  BY <1>3, <1>5, <1>6, <1>7, <1>8 DEF all

\* What a line that is not refused comes to, as far as its first encodings, is put
\* together encoding by encoding.
LEMMA EncodingsTyped ==
  ASSUME NEW line, Columns(line) \in Seq(Text), EncodingsOf(line) \in Seq(Text),
         ~Refused(line), NEW n \in Nat
  PROVE  /\ Columns(line)[1] \in Text
         /\ AllSeqs(EncodingPatterns(line, n), Entries, Len(EncodingsOf(line)))
         /\ AllSeqs(EncodingErrors(line, n), Int, Len(EncodingsOf(line)))
         /\ PatternsOf(line, n) = First(EncodingPatterns(line, n), Len(EncodingsOf(line)))
         /\ ErrorsOf(line, n) = First(EncodingErrors(line, n), Len(EncodingsOf(line)))
<1> DEFINE cols == Columns(line)
           list == EncodingsOf(line)
           G == EncodingPatterns(line, n)
           H == EncodingErrors(line, n)
<1>1. cols[1] \in Text
  <2>1. cols \in Seq(Text) /\ cols # <<>>
    BY DEF Refused
  <2> HIDE DEF cols
  <2>2. Len(cols) \in Nat /\ Len(cols) # 0
    BY <2>1, EmptySeq, LenProperties
  <2>3. 1 \in 1..Len(cols)
    BY <2>2
  <2> QED
    BY <2>1, <2>3, ElementOfSeq
<1>2. Len(list) \in Nat /\ DOMAIN list = 1..Len(list) /\ \A k \in 1..Len(list) : list[k] \in Text
  BY LenProperties, ElementOfSeq
<1>3. ASSUME NEW k \in 1..Len(list) PROVE G[k] \in Seq(Entries) /\ H[k] \in Seq(Int)
  <2> DEFINE e == [pattern |-> cols[1], chain |-> list[k], userIndex |-> n]
  <2>1. e \in Entries
    BY <1>1, <1>2 DEF Entries
  <2>2. <<>> \in Seq(Entries) /\ <<>> \in Seq(Int) /\ <<n>> \in Seq(Int)
    BY EmptySeq
  <2>3. G[k] = (IF Admits(line, k) THEN <<e>> ELSE <<>>) /\ H[k] = IF Admits(line, k) THEN <<>> ELSE <<n>>
    BY <1>2 DEF EncodingPatterns, EncodingErrors
  <2> HIDE DEF e, G, H
  <2>4. <<e>> \in Seq(Entries)
    BY <2>1
  <2> QED
    BY <2>2, <2>3, <2>4
<1>4. PatternsOf(line, n) = FlattenSeq(G) /\ ErrorsOf(line, n) = FlattenSeq(H)
  BY DEF PatternsOf, ErrorsOf, EncodingPatterns, EncodingErrors
<1>5. [k \in 1..Len(list) |-> G[k]] = G /\ [k \in 1..Len(list) |-> H[k]] = H
  BY <1>2 DEF EncodingPatterns, EncodingErrors
<1> QED
  BY <1>1, <1>3, <1>4, <1>5 DEF AllSeqs, First

\* What a line comes to are entries and indices.
LEMMA LineTyped ==
  ASSUME NEW line, Columns(line) \in Seq(Text), EncodingsOf(line) \in Seq(Text), NEW n \in Nat
  PROVE  PatternsOf(line, n) \in Seq(Entries) /\ ErrorsOf(line, n) \in Seq(Int)
<1>1. CASE Refused(line)
  <2>1. <<>> \in Seq(Entries) /\ <<n>> \in Seq(Int)
    BY EmptySeq
  <2> QED
    BY <1>1, <2>1 DEF PatternsOf, ErrorsOf
<1>2. CASE ~Refused(line)
  <2> PICK k \in Nat : k = Len(EncodingsOf(line))
    BY LenProperties
  <2>1. AllSeqs(EncodingPatterns(line, n), Entries, k) /\ AllSeqs(EncodingErrors(line, n), Int, k)
        /\ PatternsOf(line, n) = First(EncodingPatterns(line, n), k)
        /\ ErrorsOf(line, n) = First(EncodingErrors(line, n), k)
    BY <1>2, EncodingsTyped
  <2> QED
    BY <2>1, FirstNext
<1> QED
  BY <1>1, <1>2

\* What a file comes to is put together line by line.
LEMMA LinesTyped ==
  ASSUME NEW fs \in KeyLists, NEW f \in 1..Len(fs)
  PROVE  /\ AllSeqs(LinePatterns(fs[f]), Entries, Len(LinesOf(fs[f])))
         /\ AllSeqs(LineErrors(fs[f]), Int, Len(LinesOf(fs[f])))
         /\ PatternsIn(fs[f]) = First(LinePatterns(fs[f]), Len(LinesOf(fs[f])))
         /\ ErrorsIn(fs[f]) = First(LineErrors(fs[f]), Len(LinesOf(fs[f])))
         /\ PatternsIn(fs[f]) \in Seq(Entries) /\ ErrorsIn(fs[f]) \in Seq(Int)
<1> DEFINE all == LinesOf(fs[f])
           G == LinePatterns(fs[f])
           H == LineErrors(fs[f])
<1>1. DOMAIN all = 1..Len(all) /\ Len(all) \in Nat
  BY FileTyped
<1>2. ASSUME NEW n \in 1..Len(all) PROVE G[n] \in Seq(Entries) /\ H[n] \in Seq(Int)
  <2>1. G[n] = PatternsOf(all[n], n - 1) /\ H[n] = ErrorsOf(all[n], n - 1)
    BY <1>1 DEF LinePatterns, LineErrors
  <2>2. Columns(all[n]) \in Seq(Text) /\ EncodingsOf(all[n]) \in Seq(Text) /\ n - 1 \in Nat
    BY FileTyped
  <2> HIDE DEF all, G, H
  <2> QED
    BY <2>1, <2>2, LineTyped
<1>3. PatternsIn(fs[f]) = FlattenSeq(G) /\ ErrorsIn(fs[f]) = FlattenSeq(H)
  BY DEF PatternsIn, ErrorsIn, LinePatterns, LineErrors
<1>4. [n \in 1..Len(all) |-> G[n]] = G /\ [n \in 1..Len(all) |-> H[n]] = H
  BY <1>1 DEF LinePatterns, LineErrors
<1>5. AllSeqs(G, Entries, Len(all)) /\ AllSeqs(H, Int, Len(all))
  BY <1>2 DEF AllSeqs
<1>6. PatternsIn(fs[f]) = First(G, Len(all)) /\ ErrorsIn(fs[f]) = First(H, Len(all))
  BY <1>3, <1>4 DEF First
<1>7. First(G, Len(all)) \in Seq(Entries) /\ First(H, Len(all)) \in Seq(Int)
  <2> PICK n \in Nat : n = Len(all)
    BY <1>1
  <2> HIDE DEF all, G, H
  <2> QED
    BY <1>5, FirstNext
<1> QED
  BY <1>5, <1>6, <1>7

\* What the files come to is put together file by file.
LEMMA FilesTyped ==
  ASSUME NEW fs \in KeyLists
  PROVE  /\ Len(fs) \in Nat /\ DOMAIN fs = 1..Len(fs)
         /\ AllSeqs(FilePatterns(fs), Entries, Len(fs)) /\ AllSeqs(FileErrors(fs), Int, Len(fs))
         /\ FlattenSeq(FilePatterns(fs)) = First(FilePatterns(fs), Len(fs))
         /\ FlattenSeq(FileErrors(fs)) = First(FileErrors(fs), Len(fs))
<1>1. Len(fs) \in Nat /\ DOMAIN fs = 1..Len(fs)
  BY KeyListsAssumption, LenProperties
<1>2. \A f \in 1..Len(fs) : PatternsIn(fs[f]) \in Seq(Entries) /\ ErrorsIn(fs[f]) \in Seq(Int)
  BY LinesTyped
<1>3. AllSeqs(FilePatterns(fs), Entries, Len(fs)) /\ AllSeqs(FileErrors(fs), Int, Len(fs))
  BY <1>1, <1>2 DEF AllSeqs, FilePatterns, FileErrors
<1>4. /\ [f \in 1..Len(fs) |-> FilePatterns(fs)[f]] = FilePatterns(fs)
      /\ [f \in 1..Len(fs) |-> FileErrors(fs)[f]] = FileErrors(fs)
  BY <1>1 DEF FilePatterns, FileErrors
<1> QED
  BY <1>1, <1>3, <1>4 DEF First

-----------------------------------------------------------------------------
After(a, G, n) == a \o First(G, n)

\* What comes before the next sequence comes before the longer concatenation.
LEMMA Grows ==
  ASSUME NEW S, NEW a \in Seq(S), NEW G, NEW n \in Nat, AllSeqs(G, S, n), G[n + 1] \in Seq(S)
  PROVE  After(a, G, n + 1) = After(a, G, n) \o G[n + 1]
<1> DEFINE x == First(G, n)
           y == G[n + 1]
<1>1. y \in Seq(S) /\ n \in Nat
  OBVIOUS
<1>2. x \in Seq(S) /\ First(G, n + 1) = x \o y
  BY <1>1, FirstNext
<1> HIDE DEF x, y
<1>3. (a \o x) \o y = a \o (x \o y)
  BY <1>1, <1>2, ConcatAssociative, SMTT(60)
<1> QED
  BY <1>1, <1>2, <1>3 DEF x, y, After

\* Nothing has been put together at first.
LEMMA FirstNone == ASSUME NEW S, NEW G PROVE First(G, 0) = <<>>
<1>1. AllSeqs(G, S, 0)
  BY DEF AllSeqs
<1> QED
  BY <1>1, FirstNext

\* u has the elements of s, then those of t.
Parts(u, s, t) ==
  /\ Len(u) = Len(s) + Len(t)
  /\ \A i \in 1..Len(s) : u[i] = s[i]
  /\ \A i \in 1..Len(t) : u[Len(s) + i] = t[i]

\* A concatenation has the elements of the one, then those of the other.
LEMMA ConcatParts ==
  ASSUME NEW S, NEW s \in Seq(S), NEW t \in Seq(S)
  PROVE  s \o t \in Seq(S) /\ Parts(s \o t, s, t)
<1> DEFINE u == s \o t
<1>1. /\ u \in Seq(S) /\ Len(u) = Len(s) + Len(t)
      /\ \A i \in 1..Len(s) + Len(t) : u[i] = IF i <= Len(s) THEN s[i] ELSE t[i - Len(s)]
  BY ConcatProperties
<1> HIDE DEF u
<1> PICK m \in Nat, n \in Nat : m = Len(s) /\ n = Len(t)
  BY LenProperties
<1>2. ASSUME NEW i \in 1..m PROVE u[i] = s[i]
  <2>1. i \in 1..m + n /\ i <= m
    OBVIOUS
  <2> QED
    BY <1>1, <2>1
<1>3. ASSUME NEW i \in 1..n PROVE u[m + i] = t[i]
  <2>1. m + i \in 1..m + n /\ ~(m + i <= m) /\ (m + i) - m = i
    OBVIOUS
  <2> QED
    BY <1>1, <2>1
<1>4. Parts(u, s, t)
  BY <1>1, <1>2, <1>3 DEF Parts
<1> QED
  BY <1>1, <1>4 DEF u

\* A sequence of two parts is their concatenation.
LEMMA ConcatMeans ==
  ASSUME NEW S, NEW u \in Seq(S), NEW s \in Seq(S), NEW t \in Seq(S), Parts(u, s, t)
  PROVE  u = s \o t
<1> DEFINE v == s \o t
<1>1. v \in Seq(S) /\ Parts(v, s, t)
  BY ConcatParts
<1> HIDE DEF v
<1> PICK m \in Nat, n \in Nat : m = Len(s) /\ n = Len(t)
  BY LenProperties
<1>2. ASSUME NEW i \in 1..m + n PROVE u[i] = v[i]
  <2>1. CASE i \in 1..m
    BY <1>1, <2>1 DEF Parts
  <2>2. CASE i \notin 1..m
    <3> DEFINE k == i - m
    <3>1. k \in 1..n /\ m + k = i
      BY <2>2
    <3> HIDE DEF k
    <3> QED
      BY <1>1, <3>1 DEF Parts
  <2> QED
    BY <2>1, <2>2
<1>3. u = v
  BY <1>1, <1>2, SeqEqual DEF Parts
<1> QED
  BY <1>3 DEF v

\* The indices of one more error, and of an error list hung on a chain.
LEMMA IndicesGrow ==
  ASSUME NEW s \in Seq(Errors), NEW t \in Seq(Errors), NEW e \in Errors
  PROVE  /\ Indices(s) \in Seq(Int)
         /\ Append(s, e) \in Seq(Errors) /\ Indices(Append(s, e)) = Indices(s) \o <<e.index>>
         /\ s \o t \in Seq(Errors) /\ Indices(s \o t) = Indices(s) \o Indices(t)
<1>1. \A x \in Errors : x.index \in Int
  BY DEF Errors
<1>2. ASSUME NEW u \in Seq(Errors)
      PROVE  /\ Indices(u) \in Seq(Int) /\ Len(Indices(u)) = Len(u) /\ Len(u) \in Nat
             /\ \A i \in 1..Len(u) : Indices(u)[i] = u[i].index
  <2>1. DOMAIN u = 1..Len(u) /\ Len(u) \in Nat /\ \A i \in 1..Len(u) : u[i] \in Errors
    BY LenProperties, ElementOfSeq
  <2>2. Indices(u) \in [1..Len(u) -> Int] /\ \A i \in 1..Len(u) : Indices(u)[i] = u[i].index
    BY <1>1, <2>1 DEF Indices
  <2> QED
    BY <2>1, <2>2, FunctionIsSeq
<1>3. /\ Append(s, e) \in Seq(Errors) /\ Len(Append(s, e)) = Len(s) + 1
      /\ Append(s, e)[Len(s) + 1] = e /\ \A i \in 1..Len(s) : Append(s, e)[i] = s[i]
  BY AppendProperties
<1>4. s \o t \in Seq(Errors) /\ Parts(s \o t, s, t)
  BY ConcatParts
<1> DEFINE a == Append(s, e)
           c == s \o t
           one == <<e.index>>
<1>5. one \in Seq(Int) /\ Len(one) = 1 /\ one[1] = e.index
  BY <1>1
<1> HIDE DEF a, c, one
<1> PICK m \in Nat, n \in Nat : m = Len(s) /\ n = Len(t)
  BY <1>2
<1>6. Indices(a) = Indices(s) \o one
  <2> DEFINE x == Indices(a)
             y == Indices(s)
  <2>1. /\ x \in Seq(Int) /\ y \in Seq(Int) /\ Len(x) = m + 1 /\ Len(y) = m
        /\ (\A i \in 1..m + 1 : x[i] = a[i].index) /\ \A i \in 1..m : y[i] = s[i].index
    BY <1>2, <1>3 DEF a
  <2>2. a[m + 1] = e /\ \A i \in 1..m : a[i] = s[i]
    BY <1>3 DEF a
  <2> HIDE DEF x, y
  <2>3. ASSUME NEW i \in 1..m PROVE x[i] = y[i]
    <3>1. i \in 1..m + 1
      OBVIOUS
    <3> QED
      BY <2>1, <2>2, <3>1
  <2>4. ASSUME NEW i \in 1..1 PROVE x[m + i] = one[i]
    <3>1. i = 1 /\ m + 1 \in 1..m + 1
      OBVIOUS
    <3> QED
      BY <1>5, <2>1, <2>2, <3>1
  <2>5. Parts(x, y, one)
    BY <1>5, <2>1, <2>3, <2>4 DEF Parts
  <2>6. x = y \o one
    BY <1>5, <2>1, <2>5, ConcatMeans
  <2> QED
    BY <2>6 DEF x, y
<1>7. Indices(c) = Indices(s) \o Indices(t)
  <2> DEFINE x == Indices(c)
             y == Indices(s)
             z == Indices(t)
  <2>1. /\ x \in Seq(Int) /\ y \in Seq(Int) /\ z \in Seq(Int)
        /\ Len(x) = m + n /\ Len(y) = m /\ Len(z) = n
        /\ (\A i \in 1..m + n : x[i] = c[i].index) /\ (\A i \in 1..m : y[i] = s[i].index)
        /\ \A i \in 1..n : z[i] = t[i].index
    BY <1>2, <1>4 DEF c, Parts
  <2>2. (\A i \in 1..m : c[i] = s[i]) /\ \A i \in 1..n : c[m + i] = t[i]
    BY <1>4 DEF c, Parts
  <2> HIDE DEF x, y, z
  <2>3. ASSUME NEW i \in 1..m PROVE x[i] = y[i]
    <3>1. i \in 1..m + n
      OBVIOUS
    <3> QED
      BY <2>1, <2>2, <3>1
  <2>4. ASSUME NEW i \in 1..n PROVE x[m + i] = z[i]
    <3>1. m + i \in 1..m + n
      OBVIOUS
    <3> QED
      BY <2>1, <2>2, <3>1, ZenonT(60)
  <2>5. Parts(x, y, z)
    BY <2>1, <2>3, <2>4 DEF Parts
  <2>6. x = y \o z
    BY <2>1, <2>5, ConcatMeans
  <2> QED
    BY <2>6 DEF x, y, z
<1> QED
  BY <1>2, <1>3, <1>4, <1>6, <1>7 DEF a, c, one

\* Indices are numbers, as many as there are errors.
LEMMA IndicesTyped == ASSUME NEW s \in Seq(Errors) PROVE Indices(s) \in Seq(Int)
<1>1. DOMAIN s = 1..Len(s) /\ Len(s) \in Nat /\ \A i \in 1..Len(s) : s[i] \in Errors
  BY LenProperties, ElementOfSeq
<1>2. \A i \in 1..Len(s) : s[i].index \in Int
  BY <1>1 DEF Errors
<1>3. Indices(s) \in [1..Len(s) -> Int]
  BY <1>1, <1>2 DEF Indices
<1> QED
  BY <1>1, <1>3, FunctionIsSeq

\* Taking the head of what is left leaves the rest.
LEMMA LeftNext ==
  ASSUME NEW S, NEW s \in Seq(S), NEW t \in Seq(S), NEW k \in Nat, LeftOf(t, s, k)
  PROVE  /\ t = <<>> <=> k = Len(s)
         /\ t # <<>> => /\ k + 1 \in 1..Len(s) /\ Head(t) = s[k + 1] /\ Head(t) \in S
                        /\ Tail(t) \in Seq(S) /\ LeftOf(Tail(t), s, k + 1)
                        /\ Len(Tail(t)) = Len(t) - 1
<1>1. Len(s) \in Nat /\ Len(t) \in Nat /\ Len(s) = k + Len(t) /\ \A i \in 1..Len(t) : t[i] = s[k + i]
  BY LenProperties DEF LeftOf
<1>2. t = <<>> <=> Len(t) = 0
  BY EmptySeq
<1>3. ASSUME t # <<>>
      PROVE  /\ k + 1 \in 1..Len(s) /\ Head(t) = s[k + 1] /\ Head(t) \in S
             /\ Tail(t) \in Seq(S) /\ LeftOf(Tail(t), s, k + 1) /\ Len(Tail(t)) = Len(t) - 1
  <2> DEFINE u == Tail(t)
  <2>1. /\ Head(t) \in S /\ Head(t) = t[1] /\ u \in Seq(S) /\ Len(u) = Len(t) - 1
        /\ \A i \in 1..Len(u) : u[i] = t[i + 1]
    BY <1>3, HeadTailProperties
  <2> HIDE DEF u
  <2>2. 1 \in 1..Len(t) /\ k + 1 \in 1..Len(s)
    BY <1>1, <1>2, <1>3
  <2>3. Head(t) = s[k + 1]
    BY <1>1, <2>1, <2>2
  <2>4. ASSUME NEW i \in 1..Len(u) PROVE u[i] = s[(k + 1) + i]
    <3>1. i + 1 \in 1..Len(t) /\ k + (i + 1) = (k + 1) + i
      BY <1>1, <2>1
    <3> QED
      BY <1>1, <2>1, <3>1
  <2>5. LeftOf(u, s, k + 1)
    BY <1>1, <2>1, <2>4 DEF LeftOf
  <2> QED
    BY <2>1, <2>2, <2>3, <2>5 DEF u
<1> QED
  BY <1>1, <1>2, <1>3

-----------------------------------------------------------------------------
(* The reading of the key files.                                           *)

\* A line that was just read, and the errors it may be given.
LEMMA LineFacts ==
  ASSUME DataTypes, ReadInv, pc = "line", lines # <<>>
  PROVE  /\ lnum \in Nat /\ lnum + 1 \in 1..Len(All) /\ Len(All) \in Nat
         /\ Head(lines) = All[lnum + 1]
         /\ Columns(Head(lines)) \in Seq(Text) /\ EncodingsOf(Head(lines)) \in Seq(Text)
         /\ Tail(lines) \in Seq(Seq(Text)) /\ LeftOf(Tail(lines), All, lnum + 1)
         /\ files[fileNo].name \in Text
<1>1. files \in KeyLists /\ fileNo \in 1..Len(files)
  BY DEF DataTypes, ReadInv, Reading
<1>2. /\ All \in Seq(Seq(Text)) /\ Len(All) \in Nat /\ files[fileNo].name \in Text
      /\ \A n \in 1..Len(All) : Columns(All[n]) \in Seq(Text) /\ EncodingsOf(All[n]) \in Seq(Text)
  BY <1>1, FileTyped DEF All
<1>3. /\ lnum \in 0..Len(All) /\ lines \in Seq(Seq(Text)) /\ LeftOf(lines, All, lnum)
  BY DEF ReadInv, Reading
<1>4. lnum \in Nat
  BY <1>2, <1>3
<1>5. /\ lnum + 1 \in 1..Len(All) /\ Head(lines) = All[lnum + 1]
      /\ Tail(lines) \in Seq(Seq(Text)) /\ LeftOf(Tail(lines), All, lnum + 1)
  BY <1>2, <1>3, <1>4, LeftNext
<1> QED
  BY <1>2, <1>4, <1>5

\* The encoding that the pattern is added in next.
LEMMA EncodingFacts ==
  ASSUME DataTypes, ReadInv, pc = "add", encodings # <<>>
  PROVE  /\ lnum \in Nat /\ lnum \in 1..Len(All) /\ lnum - 1 \in Nat
         /\ Columns(Line) \in Seq(Text) /\ EncodingsOf(Line) \in Seq(Text)
         /\ ~Refused(Line) /\ pattern = Columns(Line)[1] /\ pattern \in Text
         /\ Tried \in Nat /\ Tried + 1 \in 1..Len(EncodingsOf(Line))
         /\ Head(encodings) = EncodingsOf(Line)[Tried + 1] /\ Head(encodings) \in Text
         /\ Tail(encodings) \in Seq(Text) /\ LeftOf(Tail(encodings), EncodingsOf(Line), Tried + 1)
         /\ Len(EncodingsOf(Line)) - Len(Tail(encodings)) = Tried + 1
<1>1. files \in KeyLists /\ fileNo \in 1..Len(files)
  BY DEF DataTypes, ReadInv, Reading
<1>2. /\ Len(All) \in Nat
      /\ \A n \in 1..Len(All) : Columns(All[n]) \in Seq(Text) /\ EncodingsOf(All[n]) \in Seq(Text)
  BY <1>1, FileTyped DEF All
<1>3. /\ lnum \in 1..Len(All) /\ ~Refused(Line) /\ pattern = Columns(Line)[1]
      /\ encodings \in Seq(Text) /\ Tried \in Nat /\ LeftOf(encodings, EncodingsOf(Line), Tried)
  BY DEF ReadInv
<1>4. Columns(Line) \in Seq(Text) /\ EncodingsOf(Line) \in Seq(Text)
  BY <1>2, <1>3 DEF Line
<1>5. /\ Tried + 1 \in 1..Len(EncodingsOf(Line))
      /\ Head(encodings) = EncodingsOf(Line)[Tried + 1] /\ Head(encodings) \in Text
      /\ Tail(encodings) \in Seq(Text) /\ LeftOf(Tail(encodings), EncodingsOf(Line), Tried + 1)
      /\ Len(Tail(encodings)) = Len(encodings) - 1
  BY <1>3, <1>4, LeftNext
<1>6. Len(EncodingsOf(Line)) \in Nat /\ Len(encodings) \in Nat
  BY <1>3, <1>4, LenProperties
<1>7. Len(EncodingsOf(Line)) - Len(Tail(encodings)) = Tried + 1
  BY <1>5, <1>6 DEF Tried
<1>8. lnum \in Nat /\ lnum - 1 \in Nat
  BY <1>2, <1>3
<1>9. pattern \in Text
  BY <1>3, <1>4, EncodingsTyped
<1> QED
  BY <1>3, <1>4, <1>5, <1>7, <1>8, <1>9

\* Every step keeps the types and the place of the reading.
LEMMA ReadNext ==
  ASSUME DataTypes, ReadInv, [Next]_vars
  PROVE  DataTypes' /\ ReadInv'
<1>0. Len(files) \in Nat
  BY FilesTyped DEF DataTypes
<1>1. ASSUME AddPatternList PROVE DataTypes' /\ ReadInv'
  <2>1. files' = files /\ fileNo' = fileNo + 1 /\ pc' = "line" /\ lnum' = 0 /\ lines' = All'
    BY <1>1 DEF AddPatternList, All
  <2>2. fileNo' \in 1..Len(files)
    BY <1>0, <1>1 DEF AddPatternList, ReadInv
  <2>3. All' \in Seq(Seq(Text)) /\ Len(All') \in Nat
    BY <2>1, <2>2, FileTyped DEF DataTypes, All
  <2>4. LeftOf(All', All', 0)
    BY <2>3 DEF LeftOf
  <2>5. DataTypes'
    <3>1. <<>> \in Seq(Errors)
      BY EmptySeq
    <3> QED
      BY <1>1, <3>1 DEF DataTypes, AddPatternList, adding
  <2>6. ReadInv'
    BY <1>0, <2>1, <2>2, <2>3, <2>4 DEF ReadInv, Reading
  <2> QED
    BY <2>5, <2>6
<1>2. ASSUME ReadLine PROVE DataTypes' /\ ReadInv'
  <2>0. pc = "line" /\ lines # <<>>
    BY <1>2 DEF ReadLine
  <2> DEFINE line == Head(lines)
             cols == Columns(line)
             listed == EncodingsOf(line)
             all == All
  <2>1. /\ lnum \in Nat /\ lnum + 1 \in 1..Len(all) /\ Len(all) \in Nat
        /\ line = all[lnum + 1]
        /\ cols \in Seq(Text) /\ listed \in Seq(Text)
        /\ Tail(lines) \in Seq(Seq(Text)) /\ LeftOf(Tail(lines), all, lnum + 1)
        /\ files[fileNo].name \in Text
    BY <2>0, LineFacts
  <2>2. /\ files' = files /\ fileNo' = fileNo /\ lines' = Tail(lines) /\ lnum' = lnum + 1
        /\ errs' = errs /\ labels' = labels /\ pmap' = pmap
    BY <1>2 DEF ReadLine, NextLine
  <2>3. all = All'
    BY <2>2 DEF All
  <2>4. /\ fileNo' \in 1..Len(files) /\ fileNo' \in 0..Len(files)
        /\ lnum' \in 0..Len(all) /\ lnum' \in 1..Len(all)
        /\ lines' \in Seq(Seq(Text)) /\ LeftOf(lines', all, lnum')
    BY <1>0, <2>0, <2>1, <2>2 DEF ReadInv, Reading
  <2>5. \/ /\ \E why \in Reasons : \E source \in {files[fileNo].name, Null} :
                Report(Error(why, source, lnum))
           /\ pc' = pc /\ pattern' = pattern
        \/ pc' = "thrown" /\ inErr' = inErr /\ pattern' = pattern
        \/ /\ cols # <<>> /\ (listed # <<>> \/ Len(cols) = 1) /\ cols[1] \in Parses
           /\ pattern' = cols[1] /\ encodings' = listed /\ pc' = "add" /\ inErr' = inErr
    <3>1. {"no pattern", "no encoding list", "parse"} \subseteq Reasons
      BY DEF Reasons
    <3> QED
      BY <1>2, <3>1 DEF ReadLine
  <2> HIDE DEF all
  <2>6. CASE (\E why \in Reasons : \E source \in {files[fileNo].name, Null} :
                Report(Error(why, source, lnum))) /\ pc' = pc /\ pattern' = pattern
    <3>1. PICK why \in Reasons, source \in Text \cup {Null} : Report(Error(why, source, lnum))
      BY <2>1, <2>6
    <3> DEFINE e == Error(why, source, lnum)
    <3>2. e \in Errors
      BY <2>1 DEF Error, Errors
    <3>3. inErr' = Append(inErr, e)
      BY <3>1 DEF Report
    <3> HIDE DEF e
    <3>4. DataTypes'
      BY <2>2, <2>6, <3>2, <3>3, IndicesGrow DEF DataTypes
    <3>5. ReadInv'
      BY <2>0, <2>2, <2>3, <2>4, <2>6 DEF ReadInv, Reading
    <3> QED
      BY <3>4, <3>5
  <2>7. CASE pc' = "thrown" /\ inErr' = inErr /\ pattern' = pattern
    <3>1. DataTypes'
      BY <2>2, <2>7 DEF DataTypes
    <3>2. ReadInv'
      BY <2>2, <2>3, <2>4, <2>7 DEF ReadInv, Reading
    <3> QED
      BY <3>1, <3>2
  <2>8. CASE /\ cols # <<>> /\ (listed # <<>> \/ Len(cols) = 1) /\ cols[1] \in Parses
             /\ pattern' = cols[1] /\ encodings' = listed /\ pc' = "add" /\ inErr' = inErr
    <3>1. Line' = line
      BY <2>1, <2>2, <2>3 DEF Line
    <3>2. ~Refused(line)
      <4>1. cols # <<>> /\ cols[1] \in Parses
        BY <2>8
      <4>2. Len(cols) > 1 => Len(cols) # 1
        <5>1. \A k \in Nat : k > 1 => k # 1
          OBVIOUS
        <5>2. Len(cols) \in Nat
          BY <2>1, LenProperties
        <5> QED
          BY <5>1, <5>2, Zenon
      <4>3. Len(cols) > 1 => listed # <<>>
        BY <2>8, <4>2
      <4> QED
        BY <4>1, <4>3, Zenon DEF Refused
    <3>3. cols[1] \in Text
      BY <2>1, <3>2, EncodingsTyped
    <3>4. Tried' = 0 /\ LeftOf(listed, listed, 0)
      <4>1. Len(listed) \in Nat
        BY <2>1, LenProperties
      <4>2. Tried' = Len(EncodingsOf(Line')) - Len(encodings')
        BY DEF Tried
      <4> QED
        BY <2>8, <3>1, <4>1, <4>2 DEF LeftOf
    <3>5. DataTypes'
      BY <2>2, <2>8, <3>3 DEF DataTypes
    <3>6. ReadInv'
      <4>1. ~Refused(Line') /\ pattern' = Columns(Line')[1] /\ encodings' \in Seq(Text)
        BY <2>1, <2>8, <3>1, <3>2
      <4>2. Tried' \in Nat /\ LeftOf(encodings', EncodingsOf(Line'), Tried')
        BY <2>8, <3>1, <3>4
      <4> HIDE DEF cols, listed, line
      <4> QED
        BY <2>2, <2>3, <2>4, <2>8, <4>1, <4>2 DEF ReadInv, Reading
    <3> QED
      BY <3>5, <3>6
  <2> QED
    BY <2>5, <2>6, <2>7, <2>8
<1>3. ASSUME AddPattern PROVE DataTypes' /\ ReadInv'
  <2>0. pc = "add" /\ encodings # <<>>
    BY <1>3 DEF AddPattern
  <2> DEFINE enc == Head(encodings)
             e == Error("encoding", Null, lnum - 1)
             info == [pattern |-> pattern, chain |-> enc, userIndex |-> lnum - 1]
             label == [label |-> Len(pmap), pattern |-> pattern, chain |-> enc]
  <2>1. /\ lnum \in Nat /\ lnum - 1 \in Nat /\ enc \in Text /\ Tried \in Nat
        /\ Tail(encodings) \in Seq(Text) /\ LeftOf(Tail(encodings), EncodingsOf(Line), Tried + 1)
        /\ Len(EncodingsOf(Line)) - Len(Tail(encodings)) = Tried + 1
    BY <2>0, EncodingFacts
  <2>2. /\ files' = files /\ fileNo' = fileNo /\ lines' = lines /\ lnum' = lnum
        /\ errs' = errs /\ pc' = pc /\ pattern' = pattern /\ encodings' = Tail(encodings)
    BY <1>3 DEF AddPattern, files_
  <2>3. All' = All /\ Line' = Line /\ Tried' = Tried + 1
    BY <2>1, <2>2 DEF All, Line, Tried
  <2>4. ReadInv'
    BY <2>0, <2>1, <2>2, <2>3 DEF ReadInv, Reading
  <2>5. e \in Errors /\ info \in Entries /\ label \in Labels
    <3>1. Null \in Text \cup {Null} /\ "encoding" \in Reasons
      BY DEF Reasons
    <3>2. Len(pmap) \in Int /\ pattern \in Text
      BY <2>0, EncodingFacts, LenProperties DEF DataTypes
    <3> QED
      BY <2>1, <3>1, <3>2 DEF Error, Errors, Entries, Labels
  <2>6. \/ labels' = Append(labels, label) /\ pmap' = Append(pmap, info) /\ inErr' = inErr
        \/ inErr' = Append(inErr, e) /\ labels' = labels /\ pmap' = pmap
    BY <1>3 DEF AddPattern, Report
  <2>7. inErr \in Seq(Errors) /\ labels \in Seq(Labels) /\ pmap \in Seq(Entries)
    BY DEF DataTypes
  <2> HIDE DEF enc, e, info, label
  <2>8. inErr' \in Seq(Errors) /\ labels' \in Seq(Labels) /\ pmap' \in Seq(Entries)
    <3>1. Append(inErr, e) \in Seq(Errors)
      BY <2>5, <2>7, AppendProperties
    <3>2. Append(labels, label) \in Seq(Labels)
      BY <2>5, <2>7, AppendProperties
    <3>3. Append(pmap, info) \in Seq(Entries)
      BY <2>5, <2>7, AppendProperties
    <3> QED
      BY <2>6, <2>7, <3>1, <3>2, <3>3
  <2>9. DataTypes'
    BY <2>2, <2>8 DEF DataTypes
  <2> QED
    BY <2>4, <2>9
<1>4. ASSUME PatternAdded PROVE DataTypes' /\ ReadInv'
  <2>1. /\ pc = "add" /\ pc' = "line" /\ UNCHANGED <<files, fileNo, lines, lnum, pattern, encodings>>
        /\ UNCHANGED <<inErr, errs, labels, pmap>>
    BY <1>4 DEF PatternAdded, files_, adding
  <2>2. All' = All
    BY <2>1 DEF All
  <2> QED
    BY <2>1, <2>2 DEF DataTypes, ReadInv, Reading
<1>5. ASSUME EndList PROVE DataTypes' /\ ReadInv'
  <2>1. /\ pc = "line" /\ pc' = "files" /\ UNCHANGED <<files, fileNo, pattern, inErr, labels, pmap>>
        /\ errs' = errs \o inErr
    BY <1>5 DEF EndList, Join, files_, adding
  <2>2. errs' \in Seq(Errors)
    BY <2>1, ConcatProperties DEF DataTypes
  <2> QED
    BY <2>1, <2>2 DEF DataTypes, ReadInv, Reading
<1>6. ASSUME ListThrew PROVE DataTypes' /\ ReadInv'
  <2>1. /\ pc = "thrown" /\ pc' = "files" /\ UNCHANGED <<files, fileNo, pattern, inErr, labels, pmap>>
        /\ errs' = errs \o WithCaught(inErr)
    BY <1>6 DEF ListThrew, Join, files_, adding
  <2>2. CaughtError \in Errors
    <3>1. Null \in Text \cup {Null} /\ "exception" \in Reasons /\ -1 \in Int
      BY DEF Reasons
    <3> QED
      BY <3>1 DEF CaughtError, Error, Errors
  <2>3. WithCaught(inErr) \in Seq(Errors)
    <3>1. inErr # <<>> => Head(inErr) \in Errors
      BY HeadTailProperties DEF DataTypes
    <3> QED
      BY <2>2, <3>1 DEF WithCaught
  <2>4. errs' \in Seq(Errors)
    BY <2>1, <2>3, ConcatProperties DEF DataTypes
  <2> QED
    BY <2>1, <2>4 DEF DataTypes, ReadInv, Reading
<1>7. ASSUME \/ HandleParseErrors \/ BuildProgram \/ WriteToBuffer \/ ReadFromBuffer
             \/ WriteFile \/ LoadProgram
      PROVE  DataTypes' /\ ReadInv'
  <2>1. /\ UNCHANGED <<files, fileNo, pattern, inErr, errs, labels, pmap>>
        /\ pc \notin Reading /\ pc' \notin Reading \cup {"files"}
        /\ pc = "files" => fileNo = Len(files)
    BY <1>7 DEF HandleParseErrors, BuildProgram, WriteToBuffer, ReadFromBuffer, WriteFile,
         LoadProgram, files_, adding, Reading
  <2> QED
    BY <2>1 DEF DataTypes, ReadInv, Reading
<1>8. ASSUME UNCHANGED vars PROVE DataTypes' /\ ReadInv'
  <2>1. /\ UNCHANGED <<files, fileNo, lines, lnum, pc, pattern, encodings, labels, pmap>>
        /\ UNCHANGED <<inErr, errs>>
    BY <1>8 DEF vars, files_, adding
  <2>2. UNCHANGED <<All, Line, Tried>>
    BY <2>1 DEF All, Line, Tried
  <2> QED
    BY <2>1, <2>2 DEF DataTypes, ReadInv
<1> QED
  BY <1>1, <1>2, <1>3, <1>4, <1>5, <1>6, <1>7, <1>8 DEF Next, Stopped

\* Every step keeps the labels equal to the indices.
LEMMA LabelsNext ==
  ASSUME DataTypes, ReadInv, LabelsAreIndices, [Next]_vars
  PROVE  LabelsAreIndices'
<1>1. CASE AddPattern
  <2> DEFINE label == [label |-> Len(pmap), pattern |-> pattern, chain |-> Head(encodings)]
             info == [pattern |-> pattern, chain |-> Head(encodings), userIndex |-> lnum - 1]
  <2>1. CASE labels' = labels /\ pmap' = pmap
    BY <2>1 DEF LabelsAreIndices
  <2>2. CASE labels' = Append(labels, label) /\ pmap' = Append(pmap, info)
    <3>1. /\ info.pattern = label.pattern /\ info.chain = label.chain /\ label.label = Len(pmap)
          /\ label = [label |-> Len(pmap), pattern |-> info.pattern, chain |-> info.chain]
      OBVIOUS
    <3>2. labels \in Seq(Labels) /\ pmap \in Seq(Entries)
      BY DEF DataTypes
    <3>3. IsSequence(labels) /\ IsSequence(pmap)
      BY <3>2, SeqIsSequence
    <3> HIDE DEF label, info
    <3> DEFINE n == Len(pmap)
               m == pmap'
               l == labels'
    <3>4. /\ n \in Nat /\ DOMAIN pmap = 1..n /\ DOMAIN m = 1..n + 1
          /\ (\A i \in 1..n : m[i] = pmap[i]) /\ m[n + 1] = info
      BY <2>2, <3>3, AppendSequence
    <3>5. labels = [i \in 1..n |-> [label |-> i - 1, pattern |-> pmap[i].pattern, chain |-> pmap[i].chain]]
      BY <3>4 DEF LabelsAreIndices
    <3>6. Len(labels) = n
      <4>1. DOMAIN labels = 1..n
        BY <3>5
      <4> HIDE DEF n
      <4> QED
        BY <3>2, <3>4, <4>1, LenProperties
    <3>7. /\ DOMAIN l = 1..n + 1 /\ l = [i \in DOMAIN l |-> l[i]]
          /\ (\A i \in 1..n : l[i] = labels[i]) /\ l[n + 1] = label
      <4>1. /\ DOMAIN l = 1..n + 1 /\ (\A i \in 1..n : l[i] = labels[i]) /\ l[n + 1] = label
        BY <2>2, <3>3, <3>6, AppendSequence
      <4>2. l \in Seq({l[i] : i \in DOMAIN l})
        <5>1. IsSequence(l)
          BY <2>2, <3>3, AppendSequence
        <5> HIDE DEF l
        <5> QED
          BY <5>1 DEF IsSequence
      <4>3. l = [i \in DOMAIN l |-> l[i]]
        BY <4>2
      <4> QED
        BY <4>1, <4>3
    <3> HIDE DEF n, m, l
    <3>8. ASSUME NEW i \in 1..n + 1
          PROVE  l[i] = [label |-> i - 1, pattern |-> m[i].pattern, chain |-> m[i].chain]
      <4>1. CASE i \in 1..n
        BY <3>4, <3>5, <3>7, <4>1
      <4>2. CASE i = n + 1
        <5>1. i - 1 = n
          BY <3>4, <4>2
        <5> QED
          BY <3>1, <3>4, <3>7, <4>2, <5>1 DEF n
      <4> QED
        BY <3>4, <4>1, <4>2
    <3>9. l = [i \in DOMAIN m |-> [label |-> i - 1, pattern |-> m[i].pattern, chain |-> m[i].chain]]
      BY <3>4, <3>7, <3>8
    <3> QED
      BY <3>9 DEF LabelsAreIndices, l, m
  <2> QED
    BY <1>1, <2>1, <2>2 DEF AddPattern
<1>2. CASE ~AddPattern
  <2>1. labels' = labels /\ pmap' = pmap
    BY <1>2 DEF Next, AddPatternList, ReadLine, PatternAdded, EndList, ListThrew, HandleParseErrors,
         BuildProgram, WriteToBuffer, ReadFromBuffer, WriteFile, LoadProgram, Stopped, vars, adding
  <2> QED
    BY <2>1 DEF LabelsAreIndices
<1> QED
  BY <1>1, <1>2

-----------------------------------------------------------------------------
(* The accounts.                                                           *)

\* What the file being read comes to, and the files before it.
LEMMA FileFacts ==
  ASSUME DataTypes, ReadInv, pc \in Reading
  PROVE  /\ First(FilePatterns(files), fileNo - 1) \in Seq(Entries)
         /\ First(FileErrors(files), fileNo - 1) \in Seq(Int)
         /\ First(FilePatterns(files), fileNo)
              = First(FilePatterns(files), fileNo - 1) \o First(LinePatterns(files[fileNo]), Len(All))
         /\ First(FileErrors(files), fileNo)
              = First(FileErrors(files), fileNo - 1) \o First(LineErrors(files[fileNo]), Len(All))
         /\ AllSeqs(LinePatterns(files[fileNo]), Entries, Len(All))
         /\ AllSeqs(LineErrors(files[fileNo]), Int, Len(All))
         /\ Len(All) \in Nat
<1>1. files \in KeyLists /\ fileNo \in 1..Len(files)
  BY DEF DataTypes, ReadInv
<1>2. /\ Len(files) \in Nat /\ DOMAIN files = 1..Len(files)
      /\ AllSeqs(FilePatterns(files), Entries, Len(files)) /\ AllSeqs(FileErrors(files), Int, Len(files))
  BY <1>1, FilesTyped
<1>3. /\ FilePatterns(files)[fileNo] = PatternsIn(files[fileNo])
      /\ FileErrors(files)[fileNo] = ErrorsIn(files[fileNo])
  BY <1>1, <1>2 DEF FilePatterns, FileErrors
<1>4. /\ AllSeqs(LinePatterns(files[fileNo]), Entries, Len(All))
      /\ AllSeqs(LineErrors(files[fileNo]), Int, Len(All))
      /\ PatternsIn(files[fileNo]) = First(LinePatterns(files[fileNo]), Len(All))
      /\ ErrorsIn(files[fileNo]) = First(LineErrors(files[fileNo]), Len(All))
  BY <1>1, LinesTyped DEF All
<1>5. Len(All) \in Nat
  BY <1>1, FileTyped DEF All
<1> DEFINE F == FilePatterns(files)
           E == FileErrors(files)
<1>6. fileNo - 1 \in Nat /\ (fileNo - 1) + 1 = fileNo
  BY <1>1, <1>2
<1> PICK i \in Nat : i = fileNo - 1 /\ i + 1 = fileNo
  BY <1>6
<1>7. AllSeqs(F, Entries, i) /\ AllSeqs(E, Int, i) /\ F[i + 1] \in Seq(Entries) /\ E[i + 1] \in Seq(Int)
  <2> PICK m \in Nat : m = Len(files)
    BY <1>2
  <2>1. i + 1 \in 1..m /\ 1..i \subseteq 1..m
    BY <1>1
  <2> HIDE DEF F, E
  <2>2. AllSeqs(F, Entries, m) /\ AllSeqs(E, Int, m)
    BY <1>2 DEF F, E
  <2> QED
    BY <2>1, <2>2, SMTT(60) DEF AllSeqs
<1> HIDE DEF F, E
<1>8. First(F, i) \in Seq(Entries) /\ First(F, i + 1) = First(F, i) \o F[i + 1]
  BY <1>7, FirstNext, ZenonT(60)
<1>9. First(E, i) \in Seq(Int) /\ First(E, i + 1) = First(E, i) \o E[i + 1]
  BY <1>7, FirstNext
<1> QED
  BY <1>3, <1>4, <1>5, <1>6, <1>8, <1>9 DEF F, E

\* The options that are looked at are the columns from the third to the fifth.
LEMMA OptionsMeans ==
  ASSUME NEW line, Columns(line) \in Seq(Text), EncodingsOf(line) # <<>>,
         NEW i \in DOMAIN OptionsOf(Columns(line)), ~IsBool(OptionsOf(Columns(line))[i])
  PROVE  Throws(line)
<1> DEFINE cols == Columns(line)
           opts == OptionsOf(cols)
<1> PICK n \in Nat : n = Len(cols)
  BY LenProperties
<1> DEFINE m == IF n < 5 THEN n ELSE 5
<1>1. opts = SubSeq(cols, 3, m)
  BY DEF OptionsOf
<1>2. \A k \in 3..m : k \in 1..n
  OBVIOUS
<1>3. \A k \in 1..n : cols[k] \in Text
  BY ElementOfSeq
<1>4. m \in Int
  OBVIOUS
<1> HIDE DEF cols, m
<1>5. \A k \in 3..m : cols[k] \in Text
  BY <1>2, <1>3
<1>6. /\ SubSeq(cols, 3, m) \in Seq(Text)
      /\ Len(SubSeq(cols, 3, m)) = IF 3 <= m THEN m - 3 + 1 ELSE 0
      /\ \A k \in 1..m - 3 + 1 : SubSeq(cols, 3, m)[k] = cols[3 + k - 1]
  BY <1>4, <1>5, SubSeqProperties
<1> HIDE DEF opts
<1>7. i \in 1..Len(opts) /\ Len(opts) = (IF 3 <= m THEN m - 3 + 1 ELSE 0)
  <2>1. DOMAIN opts = 1..Len(opts)
    BY <1>1, <1>6, LenProperties
  <2> QED
    BY <1>1, <1>6, <2>1 DEF opts, cols
<1>8. 3 <= m /\ i \in 1..m - 3 + 1 /\ 3 + i - 1 \in 3..m
  BY <1>4, <1>7, SMTT(60)
<1>9. opts[i] = cols[3 + i - 1] /\ ~IsBool(opts[i])
  BY <1>1, <1>6, <1>8 DEF opts, cols
<1>10. n > 2 /\ 3 + i - 1 \in 3..n /\ 3 + i - 1 <= 5
  BY <1>8 DEF m
<1>11. \E k \in 3..n : k <= 5 /\ ~IsBool(cols[k])
  BY <1>9, <1>10
<1> QED
  BY <1>10, <1>11 DEF Throws, cols

\* A file is begun with nothing of its own.
LEMMA AccountBegin ==
  ASSUME DataTypes, ReadInv, AccountInv, AddPatternList, NoneThrew, ReadInv', DataTypes'
  PROVE  AccountInv'
<1>1. /\ files' = files /\ fileNo' = fileNo + 1 /\ lnum' = 0 /\ pc' = "line" /\ pc = "files"
      /\ pmap' = pmap /\ errs' = errs /\ inErr' = <<>>
  BY DEF AddPatternList, adding
<1>2. pmap = First(FilePatterns(files), fileNo) /\ Indices(errs) = First(FileErrors(files), fileNo)
  BY <1>1 DEF AccountInv
<1>3. fileNo' - 1 = fileNo
  BY <1>1, FilesTyped DEF DataTypes, ReadInv
<1>4. First(LinePatterns(files'[fileNo']), 0) = <<>> /\ First(LineErrors(files'[fileNo']), 0) = <<>>
  BY FirstNone
<1>5. Indices(<<>>) = <<>>
  BY FunctionIsSeq, EmptySeq DEF Indices
<1>6. pmap \o <<>> = pmap
  BY ConcatEmptySeq DEF DataTypes
<1>7. /\ pmap' = First(FilePatterns(files'), fileNo' - 1) \o First(LinePatterns(files'[fileNo']), lnum')
      /\ Indices(errs') = First(FileErrors(files'), fileNo' - 1)
      /\ Indices(inErr') = First(LineErrors(files'[fileNo']), lnum')
  BY <1>1, <1>2, <1>3, <1>4, <1>5, <1>6
<1> QED
  BY <1>1, <1>7 DEF AccountInv, AllAccountedFor

\* A line is refused and has its error, or is given to the encodings.
LEMMA AccountLine ==
  ASSUME DataTypes, ReadInv, AccountInv, ReadLine, NoneThrew, ReadInv', DataTypes'
  PROVE  AccountInv'
<1> DEFINE line == Head(lines)
           cols == Columns(line)
           listed == EncodingsOf(line)
           file == files[fileNo]
           all == All
           a == First(FilePatterns(files), fileNo - 1)
           G == LinePatterns(file)
           H == LineErrors(file)
<1>0. pc = "line" /\ lines # <<>> /\ pc \in Reading
  BY DEF ReadLine, Reading
<1>1. /\ lnum \in Nat /\ lnum + 1 \in 1..Len(all) /\ Len(all) \in Nat
      /\ line = all[lnum + 1] /\ cols \in Seq(Text) /\ listed \in Seq(Text)
  BY <1>0, LineFacts
<1>2. /\ files' = files /\ fileNo' = fileNo /\ lnum' = lnum + 1
      /\ errs' = errs /\ pmap' = pmap
  BY DEF ReadLine, NextLine
<1>3. /\ pmap = a \o First(G, lnum) /\ Indices(inErr) = First(H, lnum)
      /\ Indices(errs) = First(FileErrors(files), fileNo - 1)
  BY <1>0 DEF AccountInv
<1>4. a \in Seq(Entries) /\ AllSeqs(G, Entries, Len(all)) /\ AllSeqs(H, Int, Len(all))
  BY <1>0, FileFacts
<1>5. G[lnum + 1] = PatternsOf(line, lnum) /\ H[lnum + 1] = ErrorsOf(line, lnum)
  <2>1. lnum + 1 \in DOMAIN all /\ (lnum + 1) - 1 = lnum
    <3>1. DOMAIN all = 1..Len(all)
      BY FileTyped DEF DataTypes, ReadInv, Reading, All, ReadLine
    <3> QED
      BY <1>1, <3>1
  <2>2. G[lnum + 1] = PatternsOf(all[lnum + 1], (lnum + 1) - 1)
    BY <2>1 DEF LinePatterns, All
  <2>3. H[lnum + 1] = ErrorsOf(all[lnum + 1], (lnum + 1) - 1)
    BY <2>1 DEF LineErrors, All
  <2> QED
    BY <1>1, <2>1, <2>2, <2>3
<1>6. ~Throws(line)
  <2>1. fileNo \in DOMAIN files /\ lnum + 1 \in DOMAIN LinesOf(files[fileNo])
    BY <1>0, <1>1, FilesTyped, FileTyped DEF DataTypes, ReadInv, All
  <2> QED
    BY <1>1, <2>1 DEF NoneThrew, All
<1>7. \/ Refused(line) /\ pc' = pc /\ \E why \in Reasons : \E source \in {files[fileNo].name, Null} :
                Report(Error(why, source, lnum))
      \/ Throws(line)
      \/ /\ cols # <<>> /\ pc' = "add" /\ inErr' = inErr
  <2>1. {"no pattern", "no encoding list", "parse"} \subseteq Reasons
    BY DEF Reasons
  <2>2. cols = <<>> => Refused(line)
    BY DEF Refused
  <2>3. Len(cols) > 1 /\ listed = <<>> => Refused(line)
    BY DEF Refused
  <2>4. cols[1] \notin Parses => Refused(line)
    BY DEF Refused
  <2>5. listed # <<>> /\ (\E i \in DOMAIN OptionsOf(cols) : ~IsBool(OptionsOf(cols)[i])) => Throws(line)
    BY <1>1, OptionsMeans
  <2> HIDE DEF line, cols, listed
  <2>6. /\ NextLine
        /\ \/ /\ cols = <<>> /\ Report(Error("no pattern", files[fileNo].name, lnum)) /\ pc' = pc
           \/ /\ cols # <<>> /\ Len(cols) > 1 /\ listed = <<>>
              /\ Report(Error("no encoding list", files[fileNo].name, lnum)) /\ pc' = pc
           \/ /\ cols # <<>> /\ listed # <<>>
              /\ \E i \in DOMAIN OptionsOf(cols) : ~IsBool(OptionsOf(cols)[i])
           \/ /\ cols[1] \notin Parses /\ Report(Error("parse", Null, lnum)) /\ pc' = pc
           \/ cols # <<>> /\ pc' = "add" /\ inErr' = inErr
    BY DEF ReadLine, line, cols, listed
  <2> QED
    BY <2>1, <2>2, <2>3, <2>4, <2>5, <2>6
<1>8. CASE Refused(line) /\ pc' = pc /\ \E why \in Reasons : \E source \in {files[fileNo].name, Null} :
                Report(Error(why, source, lnum))
  <2>1. PICK why \in Reasons, source \in {files[fileNo].name, Null} : Report(Error(why, source, lnum))
    BY <1>8
  <2> DEFINE e == Error(why, source, lnum)
  <2>2. inErr' = Append(inErr, e)
    BY <2>1 DEF Report
  <2>3. e \in Errors /\ e.index = lnum
    <3>1. files[fileNo].name \in Text
      BY <1>0, LineFacts
    <3> QED
      BY <1>1, <3>1 DEF Error, Errors
  <2>4. PatternsOf(line, lnum) = <<>> /\ ErrorsOf(line, lnum) = <<lnum>>
    BY <1>8 DEF PatternsOf, ErrorsOf
  <2>5. <<>> \in Seq(Errors) /\ inErr \in Seq(Errors)
    BY EmptySeq DEF DataTypes
  <2> HIDE DEF e, line, cols, listed, file, all, a, G, H
  <2>6. Indices(inErr') = First(H, lnum) \o <<lnum>>
    BY <1>3, <2>2, <2>3, <2>5, IndicesGrow
  <2>7. PICK n \in Nat, k \in Nat : n = Len(all) /\ k = lnum /\ k + 1 <= n
    BY <1>1
  <2>12. /\ AllSeqs(G, Entries, k) /\ AllSeqs(H, Int, k) /\ a \in Seq(Entries)
         /\ G[k + 1] \in Seq(Entries) /\ H[k + 1] \in Seq(Int)
    <3>1. k + 1 \in 1..n /\ 1..k \subseteq 1..n
      BY <2>7
    <3>2. AllSeqs(G, Entries, n) /\ AllSeqs(H, Int, n)
      BY <1>4, <2>7
    <3> QED
      BY <1>4, <3>1, <3>2 DEF AllSeqs
  <2>8. (a \o First(G, k)) \o G[k + 1] = a \o First(G, k + 1)
    <3>1. After(a, G, k + 1) = After(a, G, k) \o G[k + 1]
      BY <2>12, Grows
    <3> QED
      BY <3>1 DEF After
  <2>9. First(H, k + 1) = First(H, k) \o H[k + 1]
    BY <2>12, FirstNext
  <2>10. pmap \o <<>> = pmap
    BY ConcatEmptySeq DEF DataTypes
  <2>11. pmap' = a \o First(G, lnum') /\ Indices(inErr') = First(H, lnum')
    BY <1>2, <1>3, <1>5, <2>4, <2>6, <2>7, <2>8, <2>9, <2>10
  <2> QED
    BY <1>0, <1>2, <1>3, <1>8, <2>11 DEF AccountInv, AllAccountedFor, a, G, H, file, Reading
<1>9. CASE cols # <<>> /\ pc' = "add" /\ inErr' = inErr
  <2>1. lnum' - 1 = lnum
    BY <1>1, <1>2
  <2>2. Tried' = 0
    <3>1. encodings' = listed /\ Line' = line
      <4>1. Line' = all[lnum + 1]
        BY <1>2 DEF Line, All
      <4>2. encodings' = listed
        <5>1. pc # "add" /\ pc' = "add"
          BY <1>0, <1>9
        <5> QED
          BY <5>1 DEF ReadLine
      <4> QED
        BY <1>1, <4>1, <4>2
    <3>2. Tried' = Len(EncodingsOf(Line')) - Len(encodings')
      BY DEF Tried
    <3>3. Len(listed) \in Nat
      BY <1>1, LenProperties
    <3> QED
      BY <3>1, <3>2, <3>3
  <2>3. /\ First(EncodingPatterns(Line', lnum' - 1), 0) = <<>>
        /\ First(EncodingErrors(Line', lnum' - 1), 0) = <<>>
    BY FirstNone
  <2>4. pmap \o <<>> = pmap /\ First(H, lnum) \o <<>> = First(H, lnum)
    <3>1. Indices(inErr) \in Seq(Int)
      BY IndicesTyped DEF DataTypes
    <3> QED
      BY <1>3, <3>1, ConcatEmptySeq DEF DataTypes
  <2>5. /\ pmap' = (a \o First(G, lnum' - 1)) \o First(EncodingPatterns(Line', lnum' - 1), Tried')
        /\ Indices(inErr') = First(H, lnum' - 1) \o First(EncodingErrors(Line', lnum' - 1), Tried')
    BY <1>2, <1>3, <1>9, <2>1, <2>2, <2>3, <2>4
  <2> HIDE DEF line, cols, listed, all
  <2> QED
    BY <1>2, <1>3, <1>9, <2>5 DEF AccountInv, AllAccountedFor, Reading
<1> QED
  BY <1>6, <1>7, <1>8, <1>9

\* What the encodings of the line read last come to.
LEMMA LastLine ==
  ASSUME DataTypes, ReadInv, pc = "add"
  PROVE  /\ lnum - 1 \in Nat /\ (lnum - 1) + 1 = lnum /\ lnum \in 1..Len(All)
         /\ Columns(Line) \in Seq(Text) /\ EncodingsOf(Line) \in Seq(Text)
         /\ ~Refused(Line)
         /\ LinePatterns(files[fileNo])[lnum] = PatternsOf(Line, lnum - 1)
         /\ LineErrors(files[fileNo])[lnum] = ErrorsOf(Line, lnum - 1)
<1>1. files \in KeyLists /\ fileNo \in 1..Len(files) /\ lnum \in 1..Len(All) /\ ~Refused(Line)
  BY DEF DataTypes, ReadInv, Reading
<1>2. /\ DOMAIN All = 1..Len(All) /\ Len(All) \in Nat
      /\ \A n \in 1..Len(All) : Columns(All[n]) \in Seq(Text) /\ EncodingsOf(All[n]) \in Seq(Text)
  BY <1>1, FileTyped DEF All
<1>3. LinePatterns(files[fileNo])[lnum] = PatternsOf(Line, lnum - 1)
  BY <1>1, <1>2 DEF LinePatterns, All, Line
<1>4. LineErrors(files[fileNo])[lnum] = ErrorsOf(Line, lnum - 1)
  BY <1>1, <1>2, SMTT(60) DEF LineErrors, All, Line
<1> QED
  BY <1>1, <1>2, <1>3, <1>4 DEF Line

\* An encoding admits the pattern, which is entered, or has its error.
LEMMA AccountAdd ==
  ASSUME DataTypes, ReadInv, AccountInv, AddPattern, NoneThrew, ReadInv', DataTypes'
  PROVE  AccountInv'
<1> DEFINE file == files[fileNo]
           n == lnum - 1
           line == Line
           G == EncodingPatterns(line, n)
           H == EncodingErrors(line, n)
           a == First(FilePatterns(files), fileNo - 1) \o First(LinePatterns(file), n)
           b == First(LineErrors(file), n)
           k == Tried
           enc == Head(encodings)
           info == [pattern |-> pattern, chain |-> enc, userIndex |-> n]
           e == Error("encoding", Null, n)
<1>0. pc = "add" /\ encodings # <<>> /\ pc \in Reading
  BY DEF AddPattern, Reading
<1>1. /\ UNCHANGED <<files, fileNo, lines, lnum, pc, pattern, errs>> /\ encodings' = Tail(encodings)
      /\ \/ <<pattern, enc>> \in Encodes /\ pmap' = Append(pmap, info) /\ inErr' = inErr
         \/ <<pattern, enc>> \notin Encodes /\ inErr' = Append(inErr, e) /\ pmap' = pmap
  BY DEF AddPattern, files_, Report
<1>2. /\ n \in Nat /\ line = Line /\ EncodingsOf(line) \in Seq(Text) /\ Columns(line) \in Seq(Text)
      /\ ~Refused(line) /\ pattern = Columns(line)[1]
      /\ k \in Nat /\ k + 1 \in 1..Len(EncodingsOf(line))
      /\ enc = EncodingsOf(line)[k + 1]
      /\ Len(EncodingsOf(line)) - Len(Tail(encodings)) = k + 1
  BY <1>0, EncodingFacts
<1>3. line = Line' /\ Tried' = k + 1 /\ lnum' - 1 = n
  BY <1>1, <1>2 DEF Tried, Line, All
<1>4. /\ pmap = a \o First(G, k) /\ Indices(inErr) = b \o First(H, k)
      /\ Indices(errs) = First(FileErrors(files), fileNo - 1)
  BY <1>0 DEF AccountInv
<1>5. a \in Seq(Entries) /\ b \in Seq(Int)
  <2>1. /\ First(FilePatterns(files), fileNo - 1) \in Seq(Entries)
        /\ AllSeqs(LinePatterns(file), Entries, Len(All)) /\ AllSeqs(LineErrors(file), Int, Len(All))
        /\ Len(All) \in Nat
    BY <1>0, FileFacts
  <2>2. lnum \in 1..Len(All) /\ n + 1 = lnum
    BY <1>0, LastLine
  <2>3. AllSeqs(LinePatterns(file), Entries, n) /\ AllSeqs(LineErrors(file), Int, n)
    <3>1. 1..n \subseteq 1..Len(All)
      BY <2>1, <2>2
    <3> QED
      BY <2>1, <3>1 DEF AllSeqs
  <2> HIDE DEF file, n
  <2>4. First(LinePatterns(file), n) \in Seq(Entries) /\ First(LineErrors(file), n) \in Seq(Int)
    BY <1>2, <2>3, FirstNext
  <2> QED
    BY <2>1, <2>4, ConcatProperties
<1>6. /\ AllSeqs(G, Entries, k) /\ AllSeqs(H, Int, k)
      /\ G[k + 1] \in Seq(Entries) /\ H[k + 1] \in Seq(Int)
  <2>1. AllSeqs(G, Entries, Len(EncodingsOf(line))) /\ AllSeqs(H, Int, Len(EncodingsOf(line)))
    BY <1>2, EncodingsTyped
  <2> PICK m \in Nat : m = Len(EncodingsOf(line))
    BY <1>2, LenProperties
  <2>2. k + 1 \in 1..m /\ 1..k \subseteq 1..m
    BY <1>2
  <2> HIDE DEF G, H, line, k
  <2> QED
    BY <2>1, <2>2 DEF AllSeqs
<1>7. /\ G[k + 1] = (IF <<pattern, enc>> \in Encodes THEN <<info>> ELSE <<>>)
      /\ H[k + 1] = IF <<pattern, enc>> \in Encodes THEN <<>> ELSE <<n>>
  <2>1. k + 1 \in DOMAIN EncodingsOf(line)
    <3>1. DOMAIN EncodingsOf(line) = 1..Len(EncodingsOf(line))
      BY <1>2, LenProperties
    <3> QED
      BY <1>2, <3>1
  <2>2. Admits(line, k + 1) <=> <<pattern, enc>> \in Encodes
    BY <1>2 DEF Admits
  <2>3. G[k + 1] = IF Admits(line, k + 1) THEN <<info>> ELSE <<>>
    BY <1>2, <2>1 DEF EncodingPatterns
  <2>4. H[k + 1] = IF Admits(line, k + 1) THEN <<>> ELSE <<n>>
    BY <2>1 DEF EncodingErrors
  <2> HIDE DEF G, H, line, k, info, enc
  <2> QED
    BY <2>2, <2>3, <2>4
<1>8. info \in Entries /\ e \in Errors /\ e.index = n
  <2>1. enc \in Text /\ pattern \in Text
    BY <1>0, EncodingFacts
  <2>2. Null \in Text \cup {Null} /\ "encoding" \in Reasons
    BY DEF Reasons
  <2> QED
    BY <1>2, <2>1, <2>2 DEF Error, Errors, Entries
<1>9. pmap \in Seq(Entries) /\ inErr \in Seq(Errors) /\ Indices(inErr) \in Seq(Int)
  BY IndicesTyped DEF DataTypes
<1> HIDE DEF file, n, line, G, H, a, b, k, enc, info, e
<1>10. /\ a \o First(G, k + 1) = (a \o First(G, k)) \o G[k + 1]
       /\ b \o First(H, k + 1) = (b \o First(H, k)) \o H[k + 1]
  <2>1. After(a, G, k + 1) = After(a, G, k) \o G[k + 1]
    BY <1>2, <1>5, <1>6, Grows, SMTT(60)
  <2>2. After(b, H, k + 1) = After(b, H, k) \o H[k + 1]
    BY <1>2, <1>5, <1>6, Grows, SMTT(60)
  <2> QED
    BY <2>1, <2>2 DEF After
<1>11. pmap' = pmap \o G[k + 1] /\ Indices(inErr') = Indices(inErr) \o H[k + 1]
  <2>1. pmap \o <<>> = pmap /\ Indices(inErr) \o <<>> = Indices(inErr)
    BY <1>9, ConcatEmptySeq
  <2>2. Append(pmap, info) = pmap \o <<info>>
    BY <1>8, <1>9, AppendIsConcat
  <2>3. <<>> \in Seq(Errors)
    BY EmptySeq
  <2>4. Indices(Append(inErr, e)) = Indices(inErr) \o <<e.index>>
    BY <1>8, <1>9, <2>3, IndicesGrow, SMTT(60)
  <2> QED
    BY <1>1, <1>7, <1>8, <2>1, <2>2, <2>4
<1>12. pmap' = a \o First(G, k + 1) /\ Indices(inErr') = b \o First(H, k + 1)
  BY <1>4, <1>10, <1>11
<1>13. /\ pmap' = (First(FilePatterns(files'), fileNo' - 1) \o First(LinePatterns(files'[fileNo']), lnum' - 1))
                   \o First(EncodingPatterns(Line', lnum' - 1), Tried')
       /\ Indices(inErr') = First(LineErrors(files'[fileNo']), lnum' - 1)
                   \o First(EncodingErrors(Line', lnum' - 1), Tried')
  BY <1>1, <1>3, <1>12 DEF a, b, G, H, file
<1> QED
  BY <1>0, <1>1, <1>4, <1>13 DEF AccountInv, AllAccountedFor

\* When the encodings are through, the line is.
LEMMA AccountAdded ==
  ASSUME DataTypes, ReadInv, AccountInv, PatternAdded, NoneThrew, ReadInv', DataTypes'
  PROVE  AccountInv'
<1> DEFINE file == files[fileNo]
           n == lnum - 1
           G == LinePatterns(file)
           H == LineErrors(file)
           a == First(FilePatterns(files), fileNo - 1)
<1>0. pc = "add" /\ encodings = <<>> /\ pc' = "line" /\ pc \in Reading
  BY DEF PatternAdded, Reading
<1>1. UNCHANGED <<files, fileNo, lines, lnum, pmap, inErr, errs>>
  BY DEF PatternAdded, files_, adding
<1>2. /\ n \in Nat /\ n + 1 = lnum /\ lnum \in 1..Len(All)
      /\ Columns(Line) \in Seq(Text) /\ EncodingsOf(Line) \in Seq(Text) /\ ~Refused(Line)
      /\ G[n + 1] = PatternsOf(Line, n) /\ H[n + 1] = ErrorsOf(Line, n)
  BY <1>0, LastLine
<1>3. Tried = Len(EncodingsOf(Line))
  <2>1. Len(encodings) = 0 /\ Len(EncodingsOf(Line)) \in Nat
    BY <1>0, <1>2, LenProperties
  <2> QED
    BY <2>1 DEF Tried
<1>4. /\ First(EncodingPatterns(Line, n), Tried) = G[n + 1]
      /\ First(EncodingErrors(Line, n), Tried) = H[n + 1]
  BY <1>2, <1>3, EncodingsTyped
<1>5. /\ pmap = (a \o First(G, n)) \o G[n + 1] /\ Indices(inErr) = First(H, n) \o H[n + 1]
      /\ Indices(errs) = First(FileErrors(files), fileNo - 1)
  BY <1>0, <1>4 DEF AccountInv
<1>6. /\ a \in Seq(Entries) /\ AllSeqs(G, Entries, n) /\ AllSeqs(H, Int, n)
      /\ G[n + 1] \in Seq(Entries) /\ H[n + 1] \in Seq(Int)
  <2>1. /\ a \in Seq(Entries) /\ Len(All) \in Nat
        /\ AllSeqs(G, Entries, Len(All)) /\ AllSeqs(H, Int, Len(All))
    BY <1>0, FileFacts
  <2> PICK m \in Nat : m = Len(All)
    BY <2>1
  <2>2. n + 1 \in 1..m /\ 1..n \subseteq 1..m
    BY <1>2
  <2> HIDE DEF G, H, n, a
  <2> QED
    BY <2>1, <2>2 DEF AllSeqs
<1> HIDE DEF G, H, n, a, file
<1>7. a \o First(G, n + 1) = (a \o First(G, n)) \o G[n + 1]
  <2>1. After(a, G, n + 1) = After(a, G, n) \o G[n + 1]
    BY <1>2, <1>6, Grows
  <2> QED
    BY <2>1 DEF After
<1>8. First(H, n + 1) = First(H, n) \o H[n + 1]
  BY <1>2, <1>6, FirstNext
<1>9. pmap' = a \o First(G, lnum') /\ Indices(inErr') = First(H, lnum')
  BY <1>1, <1>2, <1>5, <1>7, <1>8
<1> QED
  BY <1>0, <1>1, <1>5, <1>9 DEF AccountInv, AllAccountedFor, G, H, a, file

\* When the lines are through, the file is, and its errors are on the chain.
LEMMA AccountEnd ==
  ASSUME DataTypes, ReadInv, AccountInv, EndList, NoneThrew, ReadInv', DataTypes'
  PROVE  AccountInv'
<1>0. pc = "line" /\ lines = <<>> /\ pc' = "files" /\ pc \in Reading
  BY DEF EndList, Reading
<1>1. UNCHANGED <<files, fileNo, pmap>> /\ errs' = errs \o inErr
  BY DEF EndList, Join, files_, adding
<1>2. lnum = Len(All)
  <2>1. files \in KeyLists /\ fileNo \in 1..Len(files)
    BY <1>0 DEF DataTypes, ReadInv
  <2>2. All \in Seq(Seq(Text)) /\ Len(All) \in Nat
    BY <2>1, FileTyped DEF All
  <2>3. lnum \in Nat /\ lines \in Seq(Seq(Text)) /\ LeftOf(lines, All, lnum)
    BY <1>0, <2>2 DEF ReadInv
  <2> QED
    BY <1>0, <2>2, <2>3, LeftNext, ZenonT(60)
<1>3. /\ pmap = First(FilePatterns(files), fileNo - 1) \o First(LinePatterns(files[fileNo]), lnum)
      /\ Indices(inErr) = First(LineErrors(files[fileNo]), lnum)
      /\ Indices(errs) = First(FileErrors(files), fileNo - 1)
  BY <1>0 DEF AccountInv
<1>4. /\ First(FilePatterns(files), fileNo)
           = First(FilePatterns(files), fileNo - 1) \o First(LinePatterns(files[fileNo]), Len(All))
      /\ First(FileErrors(files), fileNo)
           = First(FileErrors(files), fileNo - 1) \o First(LineErrors(files[fileNo]), Len(All))
  BY <1>0, FileFacts
<1>5. Indices(errs \o inErr) = Indices(errs) \o Indices(inErr)
  <2>1. CaughtError \in Errors
    <3>1. Null \in Text \cup {Null} /\ "exception" \in Reasons /\ -1 \in Int
      BY DEF Reasons
    <3> QED
      BY <3>1 DEF CaughtError, Error, Errors
  <2> QED
    BY <2>1, IndicesGrow DEF DataTypes
<1>6. pmap' = First(FilePatterns(files'), fileNo') /\ Indices(errs') = First(FileErrors(files'), fileNo')
  BY <1>1, <1>2, <1>3, <1>4, <1>5
<1> QED
  BY <1>0, <1>6 DEF AccountInv, AllAccountedFor, Reading

\* When the files are through, everything is accounted for.
LEMMA AccountShown ==
  ASSUME DataTypes, ReadInv, AccountInv, HandleParseErrors, NoneThrew
  PROVE  AccountInv'
<1>1. /\ pc = "files" /\ fileNo = Len(files) /\ pc' = "build" /\ UNCHANGED <<files, pmap, errs>>
      /\ printed' = Visible(errs)
  BY DEF HandleParseErrors, files_, adding
<1>2. /\ pmap = First(FilePatterns(files), Len(files))
      /\ Indices(errs) = First(FileErrors(files), Len(files))
  BY <1>1 DEF AccountInv
<1>3. /\ pmap = FlattenSeq([f \in DOMAIN files |-> PatternsIn(files[f])])
      /\ Indices(errs) = FlattenSeq([f \in DOMAIN files |-> ErrorsIn(files[f])])
  BY <1>2, FilesTyped DEF DataTypes, FilePatterns, FileErrors
<1>4. ~NamesFiles => printed' = errs
  BY <1>1 DEF Visible
<1>5. NamesFiles' = NamesFiles
  BY <1>1 DEF NamesFiles
<1> QED
  BY <1>1, <1>3, <1>4, <1>5 DEF AccountInv, AllAccountedFor, Reading

\* Every step keeps the accounts.
LEMMA AccountNext ==
  ASSUME DataTypes, ReadInv, AccountInv, [Next]_vars, DataTypes', ReadInv'
  PROVE  AccountInv'
<1>1. files' = files
  BY DEF Next, AddPatternList, ReadLine, AddPattern, PatternAdded, EndList, ListThrew, HandleParseErrors,
     BuildProgram, WriteToBuffer, ReadFromBuffer, WriteFile, LoadProgram, Stopped, vars, files_
<1>2. NoneThrew' = NoneThrew
  BY <1>1 DEF NoneThrew
<1>3. CASE ~NoneThrew
  BY <1>2, <1>3 DEF AccountInv
<1>4. CASE NoneThrew
  <2>1. ~ListThrew
    BY <1>4 DEF ListThrew, AccountInv
  <2>2. ASSUME BuildProgram \/ WriteToBuffer \/ ReadFromBuffer \/ WriteFile \/ LoadProgram
        PROVE  AccountInv'
    <3>1. /\ UNCHANGED <<files, pmap, errs, printed>>
          /\ pc \notin Reading \cup {"files"} /\ pc' \notin Reading \cup {"files"}
      BY <2>2 DEF BuildProgram, WriteToBuffer, ReadFromBuffer, WriteFile, LoadProgram, files_, adding, Reading
    <3>2. NamesFiles' = NamesFiles
      BY <3>1 DEF NamesFiles
    <3> QED
      BY <1>4, <3>1, <3>2 DEF AccountInv, AllAccountedFor, Reading
  <2>3. ASSUME UNCHANGED vars PROVE AccountInv'
    <3>1. UNCHANGED <<files, pc, fileNo, lnum, encodings, pmap, inErr, errs, printed>>
      BY <2>3 DEF vars, files_, adding
    <3>2. UNCHANGED <<All, Line, Tried, AllAccountedFor>>
      BY <1>2, <3>1 DEF All, Line, Tried, AllAccountedFor, NamesFiles
    <3> QED
      BY <1>2, <3>1, <3>2 DEF AccountInv
  <2> QED
    BY <1>4, <2>1, <2>2, <2>3, AccountBegin, AccountLine, AccountAdd, AccountAdded, AccountEnd, AccountShown
    DEF Next, Stopped
<1> QED
  BY <1>3, <1>4

-----------------------------------------------------------------------------
\* Nothing has been read at first.
LEMMA InitInv == Init => Inv
<1> SUFFICES ASSUME Init PROVE Inv
  OBVIOUS
<1>1. /\ files \in KeyLists /\ pc = "files" /\ fileNo = 0 /\ pattern = Null
      /\ inErr = <<>> /\ errs = <<>> /\ labels = <<>> /\ pmap = <<>>
  BY DEF Init
<1>2. Len(files) \in Nat
  BY <1>1, FilesTyped
<1>3. /\ <<>> \in Seq(Errors) /\ <<>> \in Seq(Entries) /\ <<>> \in Seq(Labels)
  BY EmptySeq
<1>4. DataTypes
  BY <1>1, <1>3 DEF DataTypes
<1>5. ReadInv
  BY <1>1, <1>2 DEF ReadInv, Reading
<1>7. LabelsAreIndices
  <2>1. DOMAIN pmap = {}
    BY <1>1
  <2>2. labels \in [{} -> {}]
    BY <1>1
  <2> QED
    BY <2>1, <2>2 DEF LabelsAreIndices
<1>8. AccountInv
  <2>1. First(FilePatterns(files), 0) = <<>> /\ First(FileErrors(files), 0) = <<>>
    BY FirstNone
  <2>2. Indices(<<>>) = <<>>
    BY FunctionIsSeq, EmptySeq DEF Indices
  <2> QED
    BY <1>1, <2>1, <2>2 DEF AccountInv, AllAccountedFor, Reading
<1> QED
  BY <1>4, <1>5, <1>7, <1>8 DEF Inv

\* Where the reading is, what the labels are and what the accounts say, in every
\* state and for all key files.
THEOREM Invariance == Spec => []Inv
<1>1. Inv /\ [Next]_vars => Inv'
  BY ReadNext, LabelsNext, AccountNext DEF Inv
<1> QED
  BY InitInv, <1>1, PTL DEF Spec

\* A label of the automaton is the index in the pattern map of the pattern and the
\* encoding it stands for, for all key files and whatever is refused.
THEOREM LabelsAreIndicesAlways == Spec => []LabelsAreIndices
<1>1. Inv => LabelsAreIndices
  BY DEF Inv
<1> QED
  BY Invariance, <1>1, PTL

\* If no options are malformed, every pattern of every line of every key file is in
\* the pattern map once for each encoding or has an error under the line's index, in
\* order, and of one key file all errors are shown.
THEOREM AccountedAlways == Spec => []AllAccountedFor
<1>1. Inv => AllAccountedFor
  BY DEF Inv, AccountInv, AllAccountedFor
<1> QED
  BY Invariance, <1>1, PTL

-----------------------------------------------------------------------------
(* What is written as bytes is read again.                               *)

\* The bytes of s are in the buffer from an address on.
Holds(buf, at, s) ==
  /\ at \in Nat /\ Len(buf) \in Nat /\ Len(s) \in Nat
  /\ at + Len(s) <= Len(buf)
  /\ \A k \in 1..Len(s) : buf[at + k] = s[k]

\* A buffer holds two sequences one after the other if it holds what they make.
LEMMA HoldsBoth ==
  ASSUME NEW S, NEW s \in Seq(S), NEW t \in Seq(S), NEW buf, NEW at,
         Holds(buf, at, s \o t)
  PROVE  Holds(buf, at, s) /\ Holds(buf, at + Len(s), t) /\ Len(s \o t) = Len(s) + Len(t)
<1> DEFINE u == s \o t
<1>1. Parts(u, s, t)
  BY ConcatParts
<1>2. Holds(buf, at, u)
  OBVIOUS
<1> HIDE DEF u
<1> PICK m \in Nat, n \in Nat : m = Len(s) /\ n = Len(t)
  BY LenProperties
<1>3. Len(u) = m + n /\ (\A i \in 1..m : u[i] = s[i]) /\ \A i \in 1..n : u[m + i] = t[i]
  BY <1>1 DEF Parts
<1>4. /\ at \in Nat /\ Len(buf) \in Nat /\ at + (m + n) <= Len(buf)
      /\ \A k \in 1..m + n : buf[at + k] = u[k]
  BY <1>2, <1>3 DEF Holds
<1>5. ASSUME NEW k \in 1..m PROVE buf[at + k] = s[k]
  <2>1. k \in 1..m + n
    OBVIOUS
  <2> QED
    BY <1>3, <1>4, <2>1
<1>6. ASSUME NEW k \in 1..n PROVE buf[(at + m) + k] = t[k]
  <2>1. m + k \in 1..m + n /\ at + (m + k) = (at + m) + k
    BY <1>4
  <2>2. buf[at + (m + k)] = u[m + k]
    BY <1>4, <2>1
  <2> QED
    BY <1>3, <2>1, <2>2
<1>7. Holds(buf, at, s)
  BY <1>4, <1>5 DEF Holds
<1>8. Holds(buf, at + m, t)
  BY <1>4, <1>6 DEF Holds
<1> QED
  BY <1>3, <1>7, <1>8 DEF u

\* A number is its bytes.
LEMMA BytesOfNumber ==
  ASSUME NEW n \in 0..LargestNumber
  PROVE  LET a == n % 256 
             b == (n \div 256) % 256 
             c == ((n \div 256) \div 256) % 256 
             d == (((n \div 256) \div 256) \div 256) % 256
         IN /\ a \in 0..255 /\ b \in 0..255 /\ c \in 0..255 /\ d \in 0..255
            /\ n = a + 256 * (b + 256 * (c + 256 * d))
<1> DEFINE p == n \div 256 
           q == (n \div 256) \div 256
           r == ((n \div 256) \div 256) \div 256
<1>1. n \in Nat /\ LargestNumber \in Nat /\ n <= LargestNumber /\ ((LargestNumber \div 256) \div 256) \div 256 <= 255
  BY NumbersAssumption
<1>2. p \in Nat /\ q \in Nat /\ r \in 0..255
  BY <1>1
<1>3. n = 256 * p + (n % 256)
  BY <1>1
<1>4. p = 256 * q + (p % 256)
  BY <1>1
<1>5. q = 256 * r + (q % 256)
  BY <1>1
<1>6. r % 256 = r
  BY <1>2
<1>7. n % 256 \in 0..255 /\ p % 256 \in 0..255 /\ q % 256 \in 0..255
  BY <1>1, <1>2
<1> QED
  BY <1>1, <1>2, <1>3, <1>4, <1>5, <1>6, <1>7

Sizes == {Size32, Size64}

\* What is written as a number is read as that number.
LEMMA NumberRead ==
  ASSUME NEW n \in 0..LargestNumber, NEW size \in Sizes, NEW buf, NEW at,
         Holds(buf, at, LittleEndian(n, size))
  PROVE  NumberAt(buf, at, size) = n
<1> DEFINE s == LittleEndian(n, size)
           a == n % 256
           b == (n \div 256) % 256 
           c == ((n \div 256) \div 256) % 256 
           d == (((n \div 256) \div 256) \div 256) % 256
<1>1. size \in {4, 8}
  BY DEF Sizes, Size32, Size64
<1>2. n \in Nat /\ LargestNumber \in Nat /\ n <= LargestNumber
  BY NumbersAssumption
<1>3. Len(s) = size /\ \A k \in 1..size : s[k] = IF k <= 4 THEN <<n, n \div 256, (n \div 256) \div 256, ((n \div 256) \div 256) \div 256>>[k] % 256 ELSE 0
  <2>1. s \in [1..size -> Int]
    BY <1>1, <1>2, SMTT(60) DEF LittleEndian
  <2>2. Len(s) = size
    BY <1>1, <2>1, FunctionIsSeq
  <2> QED
    BY <2>2 DEF LittleEndian
<1>4. at \in Nat /\ Len(buf) \in Nat /\ at + size <= Len(buf) /\ \A k \in 1..size : buf[at + k] = s[k]
  BY <1>3 DEF Holds
<1>5. /\ buf[at + 1] = a /\ buf[at + 2] = b /\ buf[at + 3] = c /\ buf[at + 4] = d
      /\ \A k \in 5..size : buf[at + k] = 0
  <2>1. 1 \in 1..size /\ 2 \in 1..size /\ 3 \in 1..size /\ 4 \in 1..size
    BY <1>1
  <2>2. s[1] = a /\ s[2] = b /\ s[3] = c /\ s[4] = d
    BY <1>3, <2>1, SMTT(60)
  <2>4. ASSUME NEW k \in 5..size PROVE buf[at + k] = 0
    <3>1. k \in 1..size /\ ~(k <= 4)
      BY <1>1
    <3> QED
      BY <1>3, <1>4, <3>1, SMTT(60)
  <2> QED
    BY <1>4, <2>1, <2>2, <2>4
<1>6. /\ a \in 0..255 /\ b \in 0..255 /\ c \in 0..255 /\ d \in 0..255
      /\ n = a + 256 * (b + 256 * (c + 256 * d))
  BY BytesOfNumber
<1> HIDE DEF a, b, c, d
<1>7. NumberAt(buf, at, size) = Capped(a + 256 * Capped(b + 256 * Capped(c + 256 * d)))
  <2>1. ~(at + size > Len(buf))
    BY <1>1, <1>4
  <2>2. ~(\E k \in 5..size : buf[at + k] # 0)
    BY <1>5, Zenon
  <2>3. NumberAt(buf, at, size)
          = Capped(buf[at + 1] + 256 * Capped(buf[at + 2] + 256 * Capped(buf[at + 3] + 256 * buf[at + 4])))
    BY <2>1, <2>2, Zenon DEF NumberAt
  <2> QED
    BY <1>5, <2>3, ZenonT(60)
<1>8. Capped(c + 256 * d) = c + 256 * d
  BY <1>2, <1>6 DEF Capped
<1>9. Capped(b + 256 * (c + 256 * d)) = b + 256 * (c + 256 * d)
  BY <1>2, <1>6 DEF Capped
<1>10. Capped(n) = n
  BY <1>2 DEF Capped
<1> QED
  BY <1>6, <1>7, <1>8, <1>9, <1>10

\* A character is a number, and no zero.
LEMMA CharIsNumber == Char \subseteq Int /\ \A c \in Char : c # 0
  BY DEF Char

\* A string is read up to its zero.
LEMMA StringRead ==
  ASSUME NEW s \in Seq(Char), NEW buf \in Seq(Int), NEW at, Holds(buf, at, String(s))
  PROVE  StringAt(buf, at) = s
<1> DEFINE z == String(s)
           ends == {k \in at..Len(buf) - 1 : buf[k + 1] = 0}
           x == SubSeq(buf, at + 1, at + Len(s))
<1> PICK m \in Nat : m = Len(s)
  BY LenProperties
<1>1. \A k \in 1..m : s[k] \in Int /\ s[k] # 0
  <2>1. \A k \in 1..m : s[k] \in Char
    BY ElementOfSeq
  <2> QED
    BY <2>1, CharIsNumber
<1>2. Len(z) = m + 1 /\ z[m + 1] = 0 /\ \A k \in 1..m : z[k] = s[k]
  <2>1. s \in Seq(Int)
    BY CharIsNumber, SeqMonotonic
  <2> QED
    BY <2>1, AppendProperties DEF String
<1>3. /\ at \in Nat /\ Len(buf) \in Nat /\ at + (m + 1) <= Len(buf)
      /\ \A k \in 1..m + 1 : buf[at + k] = z[k]
  BY <1>2 DEF Holds
<1>4. ASSUME NEW k \in 1..m PROVE buf[at + k] = s[k] /\ buf[at + k] # 0
  <2>1. k \in 1..m + 1
    OBVIOUS
  <2>2. buf[at + k] = s[k]
    BY <1>2, <1>3, <2>1
  <2> QED
    BY <1>1, <2>2
<1>5. at + m \in ends
  <2>1. m + 1 \in 1..m + 1 /\ at + (m + 1) = (at + m) + 1 /\ at + m \in at..Len(buf) - 1
    BY <1>3
  <2> QED
    BY <1>2, <1>3, <2>1
<1>6. ASSUME NEW e \in ends PROVE at + m <= e
  <2> SUFFICES ASSUME e < at + m PROVE FALSE
    BY <1>3
  <2> DEFINE k == e + 1 - at
  <2>1. k \in 1..m /\ at + k = e + 1 /\ buf[e + 1] = 0
    BY <1>3
  <2> HIDE DEF k, ends
  <2> QED
    BY <1>4, <2>1
<1>7. ends \subseteq Int
  BY <1>3
<1> HIDE DEF ends
<1>8. Min(ends) = at + m /\ ends # {}
  <2>1. Min(ends) \in ends /\ \A y \in ends : Min(ends) <= y
    BY <1>5, <1>6, Zenon DEF Min
  <2> QED
    <3>1. Min(ends) \in Int /\ at + m \in Int /\ Min(ends) <= at + m /\ at + m <= Min(ends)
      BY <1>3, <1>5, <1>6, <1>7, <2>1
    <3> QED
      BY <1>5, <3>1
<1>9. StringAt(buf, at) = SubSeq(buf, at + 1, at + m)
  BY <1>8 DEF StringAt, ends
<1>10. x = s
  <2>1. /\ x \in Seq(Int) /\ Len(x) = m /\ \A k \in 1..m : x[k] = buf[at + k]
    <3> DEFINE d == at + m
    <3>1. at + 1 \in 1..Len(buf) + 1 /\ d \in at + 1 - 1..Len(buf) /\ d - (at + 1) + 1 = m
      BY <1>3
    <3>2. \A k \in 1..m : (at + 1) + k - 1 = at + k
      BY <1>3
    <3> QED
      BY <3>1, <3>2, SubSeqProperties, SMTT(60)
  <2>2. s \in Seq(Int)
    BY CharIsNumber, SeqMonotonic
  <2> HIDE DEF x
  <2> QED
    BY <1>4, <2>1, <2>2, SeqEqual
<1> QED
  BY <1>9, <1>10

-----------------------------------------------------------------------------
Infos == [pattern : Seq(Char), chain : Seq(Char), userIndex : 0..LargestNumber]

\* A number is written in its size, a string with its zero.
LEMMA WrittenSizes ==
  /\ \A n \in Nat, size \in Sizes :
       LittleEndian(n, size) \in Seq(Int) /\ Len(LittleEndian(n, size)) = size
  /\ \A s \in Seq(Char) : String(s) \in Seq(Int) /\ Len(String(s)) = Len(s) + 1 /\ Len(s) \in Nat
<1>1. ASSUME NEW n \in Nat, NEW size \in Sizes
      PROVE  LittleEndian(n, size) \in Seq(Int) /\ Len(LittleEndian(n, size)) = size
  <2>1. size \in {4, 8}
    BY DEF Sizes, Size32, Size64
  <2>2. LittleEndian(n, size) \in [1..size -> Int]
    BY <2>1 DEF LittleEndian
  <2> QED
    BY <2>1, <2>2, FunctionIsSeq
<1>2. ASSUME NEW s \in Seq(Char)
      PROVE  String(s) \in Seq(Int) /\ Len(String(s)) = Len(s) + 1 /\ Len(s) \in Nat
  <2>1. s \in Seq(Int)
    BY CharIsNumber, SeqMonotonic
  <2> QED
    BY <2>1, AppendProperties, LenProperties DEF String
<1> QED
  BY <1>1, <1>2

\* The places of what an entry consists of.
LEMMA PlacesAdd ==
  ASSUME NEW at \in Nat, NEW m \in Nat, NEW n \in Nat
  PROVE
    /\ m + 1 + n + 1 + 8 = ((m + 1) + (n + 1)) + 8
    /\ m + 1 + n + 1 + 8 \in Nat /\ m + 1 + n + 1 + 8 > 0
    /\ at + (m + 1) = at + m + 1 /\ at + ((m + 1) + (n + 1)) = at + m + 1 + n + 1
    /\ at + m + 1 + n + 1 + 8 = at + (m + 1 + n + 1 + 8)
  OBVIOUS

\* The lengths of two strings with their zeros and a number, and of all of them.
Lengths(p, c, u, m, n) == Len(p) = m + 1 /\ Len(c) = n + 1 /\ Len(u) = 8
LengthOfAll(s, m, n) == s \in Seq(Int) /\ Len(s) = m + 1 + n + 1 + 8

\* The length of what an entry consists of.
LEMMA LengthsAdd ==
  ASSUME NEW p \in Seq(Int), NEW c \in Seq(Int), NEW u \in Seq(Int), NEW m \in Nat, NEW n \in Nat,
         Lengths(p, c, u, m, n)
  PROVE  LengthOfAll((p \o c) \o u, m, n)
<1>1. p \o c \in Seq(Int) /\ Len(p \o c) = Len(p) + Len(c)
  BY ConcatProperties
<1>2. (p \o c) \o u \in Seq(Int) /\ Len((p \o c) \o u) = Len(p \o c) + Len(u)
  BY <1>1, ConcatProperties
<1>3. Len(p) = m + 1 /\ Len(c) = n + 1 /\ Len(u) = 8
  BY DEF Lengths
<1> QED
  BY <1>1, <1>2, <1>3 DEF LengthOfAll

\* An entry of the pattern map takes as many bytes as bufSize counts.
LEMMA InfoShape ==
  ASSUME NEW info \in Infos
  PROVE  /\ MarshallInfo(info) \in Seq(Int) /\ InfoSize(info) \in Nat /\ InfoSize(info) > 0
         /\ Len(MarshallInfo(info)) = InfoSize(info)
<1> DEFINE p == String(info.pattern)
           c == String(info.chain)
           u == LittleEndian(info.userIndex, Size64)
           m == Len(info.pattern)
           n == Len(info.chain)
<1>1. info.pattern \in Seq(Char) /\ info.chain \in Seq(Char) /\ info.userIndex \in 0..LargestNumber
  BY DEF Infos
<1>2. p \in Seq(Int) /\ Len(p) = m + 1 /\ m \in Nat
  BY <1>1, WrittenSizes
<1>3. c \in Seq(Int) /\ Len(c) = n + 1 /\ n \in Nat
  BY <1>1, WrittenSizes
<1>4. u \in Seq(Int) /\ Len(u) = 8
  BY <1>1, WrittenSizes, SMTT(60) DEF Sizes, Size64
<1>5. MarshallInfo(info) = (p \o c) \o u
  BY DEF MarshallInfo
<1>6. InfoSize(info) = m + 1 + n + 1 + 8
  BY Zenon DEF InfoSize, Size64
<1> HIDE DEF p, c, u, m, n
<1>7. LengthOfAll((p \o c) \o u, m, n)
  <2>1. Lengths(p, c, u, m, n)
    BY <1>2, <1>3, <1>4 DEF Lengths
  <2> QED
    BY <1>2, <1>3, <1>4, <2>1, LengthsAdd, Zenon
<1>8. m + 1 + n + 1 + 8 \in Nat /\ m + 1 + n + 1 + 8 > 0
  BY <1>2, <1>3
<1> QED
  BY <1>5, <1>6, <1>7, <1>8, Zenon DEF LengthOfAll

\* Where an entry was written it is read, up to its end.
LEMMA InfoRead ==
  ASSUME NEW info \in Infos, NEW buf \in Seq(Int), NEW at, Holds(buf, at, MarshallInfo(info))
  PROVE  /\ InfoOf(buf, EntryAt(buf, at)) = info
         /\ EntryEnd(buf, at) = at + InfoSize(info)
<1> DEFINE p == String(info.pattern)
           c == String(info.chain)
           u == LittleEndian(info.userIndex, Size64)
<1>1. info.pattern \in Seq(Char) /\ info.chain \in Seq(Char) /\ info.userIndex \in 0..LargestNumber
      /\ info = [pattern |-> info.pattern, chain |-> info.chain, userIndex |-> info.userIndex]
  BY DEF Infos
<1>2. p \in Seq(Int) /\ Len(p) = Len(info.pattern) + 1 /\ Len(info.pattern) \in Nat
  BY <1>1, WrittenSizes
<1>3. c \in Seq(Int) /\ Len(c) = Len(info.chain) + 1 /\ Len(info.chain) \in Nat
  BY <1>1, WrittenSizes
<1>4. u \in Seq(Int)
  BY <1>1, WrittenSizes DEF Sizes
<1>5. Holds(buf, at, (p \o c) \o u) /\ at \in Nat
  BY DEF MarshallInfo, Holds
<1> DEFINE chainAt == at + Len(info.pattern) + 1
           indexAt == chainAt + Len(info.chain) + 1
<1>6. Holds(buf, at, p) /\ Holds(buf, chainAt, c) /\ Holds(buf, indexAt, u)
  <2> HIDE DEF p, c, u, chainAt, indexAt
  <2>1. p \o c \in Seq(Int) /\ Len(p \o c) = Len(p) + Len(c)
    BY <1>2, <1>3, ConcatProperties
  <2>2. Holds(buf, at, p \o c) /\ Holds(buf, at + Len(p \o c), u)
    BY <1>4, <1>5, <2>1, HoldsBoth
  <2>3. Holds(buf, at, p) /\ Holds(buf, at + Len(p), c)
    BY <1>2, <1>3, <2>2, HoldsBoth
  <2>4. at + Len(p) = chainAt /\ at + Len(p \o c) = indexAt
    <3> PICK m \in Nat, n \in Nat : m = Len(info.pattern) /\ n = Len(info.chain)
      BY <1>2, <1>3
    <3>1. Len(p) = m + 1 /\ Len(p \o c) = (m + 1) + (n + 1)
      BY <1>2, <1>3, <2>1, Zenon
    <3>2. chainAt = at + m + 1 /\ indexAt = chainAt + n + 1
      BY Zenon DEF chainAt, indexAt
    <3> QED
      <4>1. at \in Nat
        BY <1>5
      <4>2. at + (m + 1) = at + m + 1 /\ at + ((m + 1) + (n + 1)) = at + m + 1 + n + 1
        BY <4>1, PlacesAdd, ZenonT(60)
      <4> QED
        BY <3>1, <3>2, <4>2, Zenon
  <2> QED
    BY <2>2, <2>3, <2>4
<1>7. StringAt(buf, at) = info.pattern
  BY <1>1, <1>6, StringRead
<1>8. StringAt(buf, chainAt) = info.chain
  BY <1>1, <1>6, StringRead
<1>9. NumberAt(buf, indexAt, Size64) = info.userIndex
  BY <1>1, <1>6, NumberRead DEF Sizes
<1>10. EntryAt(buf, at) = [pattern |-> at, chain |-> chainAt, userIndex |-> info.userIndex]
  BY <1>7, <1>8, <1>9 DEF EntryAt
<1>11. InfoOf(buf, EntryAt(buf, at)) = info
  BY <1>1, <1>7, <1>8, <1>10 DEF InfoOf
<1>12. EntryEnd(buf, at) = indexAt + Size64
  BY <1>8, <1>10 DEF EntryEnd
<1>13. indexAt + Size64 = at + InfoSize(info)
  <2> PICK m \in Nat, n \in Nat : m = Len(info.pattern) /\ n = Len(info.chain)
    BY <1>2, <1>3
  <2>1. InfoSize(info) = m + 1 + n + 1 + 8 /\ indexAt = at + m + 1 + n + 1 /\ Size64 = 8
    BY Zenon DEF InfoSize, Size64
  <2> QED
    <3>1. at \in Nat
      BY <1>5
    <3>2. at + m + 1 + n + 1 + 8 = at + (m + 1 + n + 1 + 8)
      BY <3>1, PlacesAdd, ZenonT(60)
    <3> HIDE DEF indexAt
    <3> QED
      BY <2>1, <3>2, Zenon
<1> QED
  BY <1>11, <1>12, <1>13

-----------------------------------------------------------------------------
\* A string ends in front of the next address, whatever is in the buffer: entries do.
LEMMA EntryGoesOn ==
  ASSUME NEW buf \in Seq(Int), NEW at \in Nat
  PROVE  EntryEnd(buf, at) \in Nat /\ EntryEnd(buf, at) > at
<1>1. ASSUME NEW a \in Nat PROVE Len(StringAt(buf, a)) \in Nat
  <2> DEFINE ends == {k \in a..Len(buf) - 1 : buf[k + 1] = 0}
  <2>1. CASE ends = {}
    <3>1. StringAt(buf, a) = <<NoNumber>>
      BY <2>1 DEF StringAt, NoString
    <3> QED
      BY <3>1
  <2>2. CASE ends # {}
    <3>1. StringAt(buf, a) = SubSeq(buf, a + 1, Min(ends))
      BY <2>2 DEF StringAt
    <3>2. ends \subseteq Nat /\ \A k \in ends : k <= Len(buf) /\ Len(buf) \in Nat
      BY LenProperties
    <3> HIDE DEF ends
    <3>3. \E m \in ends : \A n \in ends : m <= n
      BY <2>2, <3>2, LeastNatural
    <3>4. Min(ends) \in ends
      BY <3>3, Zenon DEF Min
    <3> PICK m \in Nat : m = Min(ends)
      BY <3>2, <3>4
    <3>5. m <= Len(buf) /\ Len(buf) \in Nat
      BY <3>2, <3>4
    <3>6. \A i \in a + 1..m : buf[i] \in Int
      <4>1. \A i \in 1..Len(buf) : buf[i] \in Int
        BY ElementOfSeq
      <4> QED
        BY <3>5, <4>1
    <3>7. Len(SubSeq(buf, a + 1, m)) = IF a + 1 <= m THEN m - (a + 1) + 1 ELSE 0
      BY <3>6, SubSeqProperties
    <3> QED
      BY <3>1, <3>7
  <2> QED
    BY <2>1, <2>2
<1> DEFINE l == Len(StringAt(buf, at))
           chainAt == at + l + 1
           m == Len(StringAt(buf, chainAt))
<1>2. l \in Nat
  BY <1>1
<1>3. chainAt \in Nat /\ chainAt > at
  BY <1>2
<1>4. m \in Nat
  BY <1>1, <1>3
<1>5. EntryEnd(buf, at) = chainAt + m + 1 + Size64
  BY DEF EntryEnd, EntryAt
<1> HIDE DEF chainAt, m
<1> QED
  BY <1>3, <1>4, <1>5 DEF Size64

\* R reads the entries in front of end, as far as they begin among the last n addresses.
ReadsEntries(R, buf, end, n) ==
  R = [at \in Nat |-> IF at >= end \/ at >= Len(buf) \/ at + n < end THEN <<>>
                      ELSE <<EntryAt(buf, at)>> \o R[EntryEnd(buf, at)]]

\* There is such a function for any n.
LEMMA EntriesExist ==
  ASSUME NEW buf \in Seq(Int), NEW end \in Nat
  PROVE  \A n \in Nat : \E R : ReadsEntries(R, buf, end, n)
<1> DEFINE T == {n \in Nat : \E R : ReadsEntries(R, buf, end, n)}
           Past(at) == at >= end \/ at >= Len(buf)
           This(at) == <<EntryAt(buf, at)>>
           Behind(at) == EntryEnd(buf, at)
<1>0. Len(buf) \in Nat /\ \A at \in Nat : Behind(at) \in Nat /\ Behind(at) > at
  BY EntryGoesOn, LenProperties
<1>1. 0 \in T
  <2> DEFINE R == [at \in Nat |-> <<>>]
  <2>1. \A at \in Nat : at >= end \/ at >= Len(buf) \/ at + 0 < end
    OBVIOUS
  <2>2. R = [at \in Nat |-> IF at >= end \/ at >= Len(buf) \/ at + 0 < end THEN <<>>
                            ELSE <<EntryAt(buf, at)>> \o R[EntryEnd(buf, at)]]
    BY <2>1
  <2>3. ReadsEntries(R, buf, end, 0)
    BY <2>2 DEF ReadsEntries
  <2> QED
    BY <2>3
<1>2. ASSUME NEW n \in T PROVE n + 1 \in T
  <2>1. PICK R : ReadsEntries(R, buf, end, n)
    OBVIOUS
  <2> DEFINE early(at) == at + (n + 1) < end
             Q == [at \in Nat |-> IF Past(at) \/ early(at) THEN <<>>
                                  ELSE This(at) \o R[Behind(at)]]
  <2>2. \A at \in Nat : R[at] = IF Past(at) \/ at + n < end THEN <<>> ELSE This(at) \o R[Behind(at)]
    BY <2>1 DEF ReadsEntries
  <2>3. \A at \in Nat : Q[at] = IF Past(at) \/ early(at) THEN <<>> ELSE This(at) \o R[Behind(at)]
    OBVIOUS
  <2> HIDE DEF This, Behind, Q, Past
  <2>4. ASSUME NEW at \in Nat, ~Past(at), ~early(at) PROVE Q[Behind(at)] = R[Behind(at)]
    <3> DEFINE b == Behind(at)
    <3>0. b \in Nat /\ b > at /\ n \in Nat /\ ~(at + (n + 1) < end)
      BY <1>0, <2>4
    <3> HIDE DEF b
    <3>1. b \in Nat /\ b > at /\ ~(b + n < end) /\ ~(b + (n + 1) < end)
      BY <3>0
    <3> HIDE DEF early
    <3>2. Q[b] = IF Past(b) THEN <<>> ELSE This(b) \o R[Behind(b)]
      BY <2>3, <3>1 DEF early
    <3>3. R[b] = IF Past(b) THEN <<>> ELSE This(b) \o R[Behind(b)]
      BY <2>2, <3>1
    <3> QED
      BY <3>2, <3>3 DEF b
  <2>5. Q = [at \in Nat |-> IF Past(at) \/ early(at) THEN <<>> ELSE This(at) \o Q[Behind(at)]]
    <3>1. Q = [at \in Nat |-> Q[at]]
      BY DEF Q
    <3> HIDE DEF early
    <3>2. \A at \in Nat : Q[at] = IF Past(at) \/ early(at) THEN <<>> ELSE This(at) \o Q[Behind(at)]
      BY <2>3, <2>4
    <3> QED
      BY <3>1, <3>2
  <2>6. ReadsEntries(Q, buf, end, n + 1)
    BY <2>5 DEF ReadsEntries, Past, This, Behind
  <2> QED
    BY <2>6
<1>3. T \subseteq Nat
  OBVIOUS
<1> HIDE DEF T
<1>4. \A n \in Nat : n \in T
  BY <1>1, <1>2, <1>3, InductionOnNat
<1> QED
  BY <1>4 DEF T

\* The entries from an address on: none at the end, or one and those behind it.
LEMMA EntriesUnfold ==
  ASSUME NEW buf \in Seq(Int), NEW end \in Nat, NEW at \in Nat
  PROVE  UnmarshallPatterns(buf, at, end) =
           IF at >= end \/ at >= Len(buf) THEN <<>>
           ELSE <<EntryAt(buf, at)>> \o UnmarshallPatterns(buf, EntryEnd(buf, at), end)
<1> DEFINE E(f) == [a \in Nat |-> IF a >= end \/ a >= Len(buf) THEN <<>>
                                  ELSE <<EntryAt(buf, a)>> \o f[EntryEnd(buf, a)]]
           R == CHOOSE f : f = E(f)
<1>1. \A a : UnmarshallPatterns(buf, a, end) = R[a]
  BY DEF UnmarshallPatterns
<1>2. \E f : f = E(f)
  <2>1. PICK f : ReadsEntries(f, buf, end, end)
    BY EntriesExist
  <2>2. \A a \in Nat : ~(a + end < end)
    OBVIOUS
  <2>3. f = E(f)
    BY <2>1, <2>2 DEF ReadsEntries
  <2> QED
    BY <2>3
<1>3. R = E(R)
  BY <1>2
<1> HIDE DEF R
<1>4. R[at] = IF at >= end \/ at >= Len(buf) THEN <<>> ELSE <<EntryAt(buf, at)>> \o R[EntryEnd(buf, at)]
  BY <1>3
<1> HIDE DEF E
<1> QED
  BY <1>1, <1>4

-----------------------------------------------------------------------------
\* The entries written one after the other, and where each of them begins.
Written(pm) == [i \in DOMAIN pm |-> MarshallInfo(pm[i])]
Place(pm, i) == Len(First(Written(pm), i))

\* An entry begins where the one in front of it ends.
LEMMA PlacesMove ==
  ASSUME NEW pm \in Seq(Infos), NEW i \in 0..Len(pm)
  PROVE  /\ AllSeqs(Written(pm), Int, i)
         /\ First(Written(pm), i) \in Seq(Int) /\ Place(pm, i) \in Nat
         /\ i = 0 => Place(pm, i) = 0
         /\ i < Len(pm) =>
              /\ pm[i + 1] \in Infos
              /\ First(Written(pm), i + 1) = First(Written(pm), i) \o MarshallInfo(pm[i + 1])
              /\ Place(pm, i + 1) = Place(pm, i) + InfoSize(pm[i + 1])
<1> DEFINE G == Written(pm)
<1> PICK n \in Nat : n = Len(pm)
  BY LenProperties
<1>1. \A k \in 1..n : pm[k] \in Infos /\ G[k] = MarshallInfo(pm[k])
  BY ElementOfSeq, LenProperties DEF Written
<1>2. \A k \in 1..n : G[k] \in Seq(Int) /\ Len(G[k]) = InfoSize(pm[k]) /\ InfoSize(pm[k]) \in Nat
  BY <1>1, InfoShape
<1> HIDE DEF G
<1>3. i \in Nat /\ i <= n
  OBVIOUS
<1>4. AllSeqs(G, Int, i)
  BY <1>2, <1>3 DEF AllSeqs
<1>5. First(G, i) \in Seq(Int) /\ (i = 0 => First(G, i) = <<>>)
  BY <1>3, <1>4, FirstNext
<1>6. Len(First(G, i)) \in Nat /\ (i = 0 => Len(First(G, i)) = 0)
  BY <1>5, LenProperties
<1>7. ASSUME i < n
      PROVE  /\ pm[i + 1] \in Infos
             /\ First(G, i + 1) = First(G, i) \o MarshallInfo(pm[i + 1])
             /\ Len(First(G, i + 1)) = Len(First(G, i)) + InfoSize(pm[i + 1])
  <2>1. i + 1 \in 1..n
    BY <1>3, <1>7
  <2>2. G[i + 1] \in Seq(Int) /\ G[i + 1] = MarshallInfo(pm[i + 1]) /\ Len(G[i + 1]) = InfoSize(pm[i + 1])
        /\ pm[i + 1] \in Infos
    BY <1>1, <1>2, <2>1
  <2>3. First(G, i + 1) = First(G, i) \o G[i + 1]
    BY <1>3, <1>4, <2>2, FirstNext, ZenonT(60)
  <2> DEFINE x == First(G, i)
             y == G[i + 1]
  <2>4. x \in Seq(Int) /\ y \in Seq(Int)
    BY <1>5, <2>2
  <2> HIDE DEF x, y
  <2>5. Len(x \o y) = Len(x) + Len(y)
    BY <2>4, ConcatProperties
  <2> QED
    BY <2>2, <2>3, <2>5 DEF x, y
<1> QED
  BY <1>4, <1>5, <1>6, <1>7, Zenon DEF G, Place

\* What is written of the patterns is all of their entries.
LEMMA PatternsAreAll ==
  ASSUME NEW pm \in Seq(Infos)
  PROVE  MarshallPatterns(pm) = First(Written(pm), Len(pm))
<1>1. DOMAIN pm = 1..Len(pm)
  BY LenProperties
<1>2. [i \in 1..Len(pm) |-> Written(pm)[i]] = Written(pm)
  BY <1>1 DEF Written
<1> QED
  BY <1>2 DEF First, MarshallPatterns, Written

\* An int holds what is not too large for it.
LEMMA IntHolds ==
  /\ LargestInt \in Nat /\ LargestInt <= LargestNumber
  /\ \A n \in 0..LargestInt : AsInt(n) = n /\ AsUnsigned(n) = n
<1>1. LargestInt \in Nat /\ LargestInt <= LargestNumber /\ LargestNumber \in Nat
  BY NumbersAssumption DEF LargestInt
<1>2. ASSUME NEW n \in 0..LargestInt PROVE AsInt(n) = n /\ AsUnsigned(n) = n
  <2> PICK k \in Nat : k = LargestInt
    BY <1>1
  <2>1. n \in Nat /\ n <= k
    OBVIOUS
  <2>2. (n + k + 1) % (2 * (k + 1)) = n + k + 1
    BY <2>1
  <2>3. n % (LargestNumber + 1) = n
    BY <1>1, <2>1
  <2> QED
    BY <2>1, <2>2, <2>3 DEF AsInt, AsUnsigned
<1> QED
  BY <1>1, <1>2

\* bufSize counts the bytes of the entries, as long as an int holds their number.
LEMMA PatternsSized ==
  ASSUME NEW pm \in Seq(Infos)
  PROVE  /\ MarshallPatterns(pm) \in Seq(Int) /\ Len(MarshallPatterns(pm)) \in Nat
         /\ Len(MarshallPatterns(pm)) = Place(pm, Len(pm))
         /\ Len(MarshallPatterns(pm)) <= LargestInt => PatternsSize(pm) = Len(MarshallPatterns(pm))
<1> PICK n \in Nat : n = Len(pm)
  BY LenProperties
<1> DEFINE E(f) == [k \in 0..n |-> IF k = 0 THEN 0 ELSE AsInt(f[k - 1] + InfoSize(pm[k]))]
           R == CHOOSE f : f = E(f)
           P == [k \in 0..n |-> Place(pm, k)]
           T == {k \in Nat : k <= n => R[k] = Place(pm, k)}
<1>1. PatternsSize(pm) = R[n]
  BY DEF PatternsSize
<1>2. n \in 0..Len(pm)
  OBVIOUS
<1>3. First(Written(pm), n) \in Seq(Int) /\ Place(pm, n) \in Nat /\ AllSeqs(Written(pm), Int, n)
  BY <1>2, PlacesMove
<1>4. MarshallPatterns(pm) \in Seq(Int) /\ Len(MarshallPatterns(pm)) = Place(pm, n)
  BY <1>3, PatternsAreAll DEF Place
<1> SUFFICES ASSUME Place(pm, n) <= LargestInt PROVE PatternsSize(pm) = Place(pm, n)
  BY <1>3, <1>4
<1>5. ASSUME NEW k \in 0..n PROVE Place(pm, k) \in 0..LargestInt
  <2>1. StartsWith(First(Written(pm), n), First(Written(pm), k))
    BY <1>3, FirstStartsWith
  <2>2. Place(pm, k) <= Place(pm, n)
    BY <2>1 DEF StartsWith, Place
  <2>3. Place(pm, k) \in Nat
    BY PlacesMove
  <2> QED
    BY <1>3, <2>2, <2>3, IntHolds
<1>6. \A k \in 1..n : Place(pm, k) = AsInt(Place(pm, k - 1) + InfoSize(pm[k]))
  <2> TAKE k \in 1..n
  <2>1. k - 1 \in 0..Len(pm) /\ k - 1 < Len(pm) /\ (k - 1) + 1 = k /\ k \in 0..n
    OBVIOUS
  <2>2. Place(pm, k) = Place(pm, k - 1) + InfoSize(pm[k])
    BY <2>1, PlacesMove
  <2> QED
    BY <1>5, <2>1, <2>2, IntHolds
<1>7. Place(pm, 0) = 0
  BY PlacesMove
<1>8. P = E(P)
  <2>1. ASSUME NEW k \in 0..n
        PROVE  Place(pm, k) = IF k = 0 THEN 0 ELSE AsInt(P[k - 1] + InfoSize(pm[k]))
    <3>1. CASE k = 0
      BY <1>7, <3>1
    <3>2. CASE k # 0
      <4>1. k \in 1..n /\ k - 1 \in 0..n
        BY <3>2
      <4>2. P[k - 1] = Place(pm, k - 1)
        BY <4>1
      <4> QED
        BY <1>6, <3>2, <4>1, <4>2
    <3> QED
      BY <3>1, <3>2
  <2>2. P = [k \in 0..n |-> Place(pm, k)]
    OBVIOUS
  <2> HIDE DEF P
  <2> QED
    BY <2>1, <2>2
<1>9. R = E(R)
  BY <1>8
<1> HIDE DEF R
<1>10. \A k \in 0..n : R[k] = IF k = 0 THEN 0 ELSE AsInt(R[k - 1] + InfoSize(pm[k]))
  BY <1>9
<1>11. 0 \in T
  <2>1. 0 \in 0..n
    OBVIOUS
  <2> QED
    BY <1>7, <1>10, <2>1
<1>12. ASSUME NEW k \in T PROVE k + 1 \in T
  <2> SUFFICES ASSUME k + 1 <= n PROVE R[k + 1] = Place(pm, k + 1)
    OBVIOUS
  <2>1. k \in Nat /\ k + 1 \in 1..n /\ k + 1 \in 0..n /\ (k + 1) - 1 = k /\ k + 1 # 0 /\ k <= n
    OBVIOUS
  <2>2. R[k + 1] = AsInt(R[k] + InfoSize(pm[k + 1]))
    BY <1>10, <2>1
  <2> QED
    BY <1>6, <2>1, <2>2
<1>13. T \subseteq Nat
  OBVIOUS
<1> HIDE DEF T
<1>14. n \in T
  BY <1>11, <1>12, <1>13, InductionOnNat
<1> QED
  BY <1>1, <1>14 DEF T

\* A buffer that holds all entries holds each of them.
LEMMA HoldsEach ==
  ASSUME NEW pm \in Seq(Infos), NEW buf \in Seq(Int), NEW at, Holds(buf, at, MarshallPatterns(pm)),
         NEW i \in Nat, i < Len(pm)
  PROVE  /\ Holds(buf, at + Place(pm, i), MarshallInfo(pm[i + 1]))
         /\ Place(pm, i) < Place(pm, Len(pm)) /\ at + Place(pm, Len(pm)) <= Len(buf)
<1> PICK n \in Nat : n = Len(pm)
  BY LenProperties
<1> DEFINE G == Written(pm)
           z == First(G, n)
           y == First(G, i + 1)
           x == First(G, i)
           e == MarshallInfo(pm[i + 1])
<1>1. n \in 0..Len(pm) /\ i \in 0..Len(pm) /\ i + 1 \in 0..Len(pm) /\ i + 1 \in 0..n
  OBVIOUS
<1>2. AllSeqs(G, Int, n) /\ z \in Seq(Int) /\ y \in Seq(Int) /\ x \in Seq(Int)
      /\ y = x \o e /\ pm[i + 1] \in Infos /\ Place(pm, i + 1) = Place(pm, i) + InfoSize(pm[i + 1])
  BY <1>1, PlacesMove
<1>3. Place(pm, n) = Len(z) /\ Place(pm, i + 1) = Len(y) /\ Place(pm, i) = Len(x)
  BY DEF Place
<1>4. StartsWith(z, y)
  BY <1>1, <1>2, FirstStartsWith
<1>5. Holds(buf, at, z)
  BY PatternsAreAll
<1>6. e \in Seq(Int) /\ InfoSize(pm[i + 1]) \in Nat /\ InfoSize(pm[i + 1]) > 0
  BY <1>2, InfoShape
<1> HIDE DEF x, y, z, e, G
<1>7. Len(x) \in Nat /\ Len(y) \in Nat /\ Len(z) \in Nat
  BY <1>2, LenProperties
<1>8. Holds(buf, at, y)
  <2> PICK k \in Nat, m \in Nat : k = Len(y) /\ m = Len(z)
    BY <1>7
  <2>1. k <= m /\ \A j \in 1..k : z[j] = y[j]
    BY <1>4 DEF StartsWith
  <2>2. at \in Nat /\ Len(buf) \in Nat /\ at + m <= Len(buf) /\ \A j \in 1..m : buf[at + j] = z[j]
    BY <1>5 DEF Holds
  <2>3. at + k <= Len(buf) /\ \A j \in 1..k : j \in 1..m
    BY <2>1, <2>2
  <2>4. \A j \in 1..k : buf[at + j] = y[j]
    BY <2>1, <2>2, <2>3
  <2> QED
    BY <2>2, <2>3, <2>4 DEF Holds
<1>9. Holds(buf, at + Len(x), e)
  BY <1>2, <1>6, <1>8, HoldsBoth
<1>10. Len(x) < Len(z)
  BY <1>2, <1>3, <1>4, <1>6, <1>7, SMTT(60) DEF StartsWith
<1> QED
  BY <1>3, <1>5, <1>9, <1>10, Zenon DEF Holds, e

-----------------------------------------------------------------------------
\* The entries u are the last d of the patterns.
AreLast(u, pm, d, buf) ==
  /\ LongAs(u, d)
  /\ \A k \in 1..d : InfoOf(buf, u[k]) = pm[(Len(pm) - d) + k]

\* One more entry in front of the last ones.
LEMMA LastGrow ==
  ASSUME NEW pm, NEW n \in Nat, n = Len(pm), NEW i \in Nat, i < n, NEW buf, NEW u,
         AreLast(u, pm, n - (i + 1), buf), NEW e, InfoOf(buf, e) = pm[i + 1]
  PROVE  AreLast(<<e>> \o u, pm, n - i, buf)
<1> DEFINE d == n - (i + 1)
           v == <<e>> \o u
<1>1. d \in Nat /\ 1 + d = n - i /\ n - d = i + 1 /\ n - (1 + d) = i
  OBVIOUS
<1>2. LongAs(u, d) /\ \A k \in 1..d : InfoOf(buf, u[k]) = pm[(n - d) + k]
  BY DEF AreLast
<1> HIDE DEF d, v
<1>3. LongAs(<<e>>, 1) /\ <<e>>[1] = e
  BY OneElement
<1>4. Joins(v, <<e>>, 1, u, d)
  BY <1>1, <1>2, <1>3, JoinSequences DEF v
<1>5. ASSUME NEW k \in 1..1 + d PROVE InfoOf(buf, v[k]) = pm[i + k]
  <2>1. CASE k = 1
    <3>1. v[1] = e
      BY <1>3, <1>4 DEF Joins
    <3> QED
      BY <2>1, <3>1
  <2>2. CASE k # 1
    <3> DEFINE j == k - 1
    <3>1. j \in 1..d /\ 1 + j = k /\ (n - d) + j = i + k
      BY <1>1, <2>2
    <3> HIDE DEF j
    <3>2. v[1 + j] = u[j]
      BY <1>4, <3>1 DEF Joins
    <3> QED
      BY <1>2, <3>1, <3>2
  <2> QED
    BY <2>1, <2>2
<1>6. LongAs(v, 1 + d)
  BY <1>4 DEF Joins
<1>7. AreLast(v, pm, 1 + d, buf)
  BY <1>1, <1>5, <1>6 DEF AreLast
<1> QED
  BY <1>1, <1>7 DEF v

\* What is written of the patterns is read as those patterns.
LEMMA PatternsRead ==
  ASSUME NEW pm \in Seq(Infos), NEW buf \in Seq(Int), NEW at \in Nat,
         Holds(buf, at, MarshallPatterns(pm))
  PROVE  LET u == UnmarshallPatterns(buf, at, at + Len(MarshallPatterns(pm)))
         IN [i \in DOMAIN u |-> InfoOf(buf, u[i])] = pm
<1> DEFINE n == Len(pm)
           P(i) == Place(pm, i)
           end == at + P(n)
           U(i) == UnmarshallPatterns(buf, at + P(i), end)
           T == {d \in Nat : d <= n => AreLast(U(n - d), pm, d, buf)}
<1>1. n \in Nat /\ Len(buf) \in Nat
  BY LenProperties
<1>2. \A i \in 0..n : P(i) \in Nat
  BY PlacesMove
<1>3. P(0) = 0 /\ P(n) = Len(MarshallPatterns(pm))
  <2>1. 0 \in 0..n
    BY <1>1
  <2> QED
    BY <2>1, PlacesMove, PatternsSized
<1>4. n \in 0..n /\ end \in Nat
  BY <1>1, <1>2
<1>5. 0 \in T
  <2> HIDE DEF end
  <2>1. end >= end /\ n - 0 = n
    BY <1>1, <1>4
  <2>2. U(n) = <<>>
    <3>1. at + P(n) = end
      BY DEF end
    <3>2. UnmarshallPatterns(buf, end, end) = <<>>
      BY <1>4, <2>1, EntriesUnfold
    <3> QED
      BY <3>1, <3>2
  <2>3. AreLast(<<>>, pm, 0, buf)
    BY NoElement DEF AreLast
  <2> QED
    BY <2>1, <2>2, <2>3
<1>6. ASSUME NEW d \in T PROVE d + 1 \in T
  <2> SUFFICES ASSUME d + 1 <= n PROVE AreLast(U(n - (d + 1)), pm, d + 1, buf)
    OBVIOUS
  <2> DEFINE i == n - (d + 1)
             a == at + P(i)
             info == pm[i + 1]
  <2>0. d \in Nat /\ d <= n
    OBVIOUS
  <2>1. /\ i \in Nat /\ i < n /\ i \in 0..n /\ i + 1 \in 0..n /\ n - i = d + 1 /\ n - (i + 1) = d
        /\ n - d = i + 1
    BY <1>1, <2>0
  <2>2. AreLast(U(n - d), pm, d, buf)
    BY <2>0
  <2> HIDE DEF U, T, i
  <2>3. a \in Nat
    BY <1>2, <2>1, SMTT(60)
  <2>4. Holds(buf, a, MarshallInfo(info)) /\ P(i) < P(n) /\ end <= Len(buf)
    BY <2>1, HoldsEach
  <2>5. info \in Infos /\ P(i + 1) = P(i) + InfoSize(info)
    BY <2>1, PlacesMove
  <2> HIDE DEF info
  <2>6. InfoOf(buf, EntryAt(buf, a)) = info /\ EntryEnd(buf, a) = a + InfoSize(info)
    BY <2>4, <2>5, InfoRead
  <2>7. a + InfoSize(info) = at + P(i + 1)
    <3>1. InfoSize(info) \in Nat /\ P(i) \in Nat /\ P(i + 1) \in Nat
      BY <1>2, <2>1, <2>5, InfoShape
    <3> QED
      BY <2>5, <3>1
  <2>8. ~(a >= end) /\ ~(a >= Len(buf))
    <3>1. P(i) \in Nat /\ P(n) \in Nat
      BY <1>2, <1>4, <2>1
    <3> HIDE DEF P
    <3> QED
      BY <1>1, <2>4, <3>1, SMTT(60)
  <2> HIDE DEF a, end
  <2>9. UnmarshallPatterns(buf, a, end)
          = <<EntryAt(buf, a)>> \o UnmarshallPatterns(buf, at + P(i + 1), end)
    <3>1. UnmarshallPatterns(buf, a, end)
            = IF a >= end \/ a >= Len(buf) THEN <<>>
              ELSE <<EntryAt(buf, a)>> \o UnmarshallPatterns(buf, EntryEnd(buf, a), end)
      BY <1>4, <2>3, EntriesUnfold
    <3>2. EntryEnd(buf, a) = at + P(i + 1)
      BY <2>6, <2>7
    <3> QED
      BY <2>8, <3>1, <3>2
  <2>10. U(i) = <<EntryAt(buf, a)>> \o U(i + 1)
    BY <2>9 DEF U, a
  <2>11. AreLast(U(i + 1), pm, n - (i + 1), buf)
    BY <2>1, <2>2
  <2>12. AreLast(<<EntryAt(buf, a)>> \o U(i + 1), pm, n - i, buf)
    BY <1>1, <2>1, <2>6, <2>11, LastGrow DEF info
  <2> QED
    BY <2>1, <2>10, <2>12 DEF i
<1>7. T \subseteq Nat
  OBVIOUS
<1> HIDE DEF T
<1>8. n \in T
  BY <1>1, <1>5, <1>6, <1>7, InductionOnNat
<1>9. AreLast(U(0), pm, n, buf)
  <2>1. n - n = 0 /\ n <= n
    BY <1>1
  <2> HIDE DEF U
  <2> QED
    BY <1>8, <2>1 DEF T
<1>10. U(0) = UnmarshallPatterns(buf, at, at + Len(MarshallPatterns(pm)))
  <2>1. at + 0 = at
    OBVIOUS
  <2> QED
    BY <1>3, <2>1
<1> DEFINE u == U(0)
<1>11. DOMAIN u = 1..n
  <2>1. LongAs(u, n)
    BY <1>9 DEF AreLast
  <2> HIDE DEF u
  <2> QED
    BY <1>1, <2>1, SequenceMeans
<1>12. \A k \in 1..n : InfoOf(buf, u[k]) = pm[k]
  <2>1. \A k \in 1..n : InfoOf(buf, u[k]) = pm[(n - n) + k]
    BY <1>9 DEF AreLast
  <2>2. \A k \in 1..n : (n - n) + k = k
    BY <1>1
  <2> QED
    BY <2>1, <2>2
<1>13. pm = [k \in 1..n |-> pm[k]]
  BY <1>1, SeqIsSequence, SequenceMeans DEF LongAs
<1> HIDE DEF u
<1>14. [k \in DOMAIN u |-> InfoOf(buf, u[k])] = pm
  BY <1>11, <1>12, <1>13
<1> QED
  BY <1>10, <1>14 DEF u

-----------------------------------------------------------------------------
Programs ==
  [maxLabel : 0..LargestNumber, maxCheck : 0..LargestNumber, filterOff : 0..LargestNumber,
   filter : SUBSET (0..FilterBits - 1), code : Seq([1..InstructionBytes -> Byte])]

\* The byte of eight bits, and the bits of a byte.
ByteOf(b0, b1, b2, b3, b4, b5, b6, b7) ==
  b0 + 2 * b1 + 4 * b2 + 8 * b3 + 16 * b4 + 32 * b5 + 64 * b6 + 128 * b7
BitsAre(x, b0, b1, b2, b3, b4, b5, b6, b7) ==
  /\ x \in 0..255
  /\ (x \div 1) % 2 = b0 /\ (x \div 2) % 2 = b1 /\ (x \div 4) % 2 = b2 /\ (x \div 8) % 2 = b3
  /\ (x \div 16) % 2 = b4 /\ (x \div 32) % 2 = b5 /\ (x \div 64) % 2 = b6 /\ (x \div 128) % 2 = b7

\* Eight bits, read from the byte they make.
LEMMA BitsOfByte ==
  ASSUME NEW b0 \in {0, 1}, NEW b1 \in {0, 1}, NEW b2 \in {0, 1}, NEW b3 \in {0, 1},
         NEW b4 \in {0, 1}, NEW b5 \in {0, 1}, NEW b6 \in {0, 1}, NEW b7 \in {0, 1}
  PROVE  BitsAre(ByteOf(b0, b1, b2, b3, b4, b5, b6, b7), b0, b1, b2, b3, b4, b5, b6, b7)
<1> DEFINE x == b0 + 2 * b1 + 4 * b2 + 8 * b3 + 16 * b4 + 32 * b5 + 64 * b6 + 128 * b7
<1>0. x \in 0..255 /\ x \div 1 = x
  OBVIOUS
<1>1. x % 2 = b0
  OBVIOUS
<1>2. x \div 2 = b1 + 2 * b2 + 4 * b3 + 8 * b4 + 16 * b5 + 32 * b6 + 64 * b7
  OBVIOUS
<1>3. x \div 4 = b2 + 2 * b3 + 4 * b4 + 8 * b5 + 16 * b6 + 32 * b7
  OBVIOUS
<1>4. x \div 8 = b3 + 2 * b4 + 4 * b5 + 8 * b6 + 16 * b7
  OBVIOUS
<1>5. x \div 16 = b4 + 2 * b5 + 4 * b6 + 8 * b7
  OBVIOUS
<1>6. x \div 32 = b5 + 2 * b6 + 4 * b7
  OBVIOUS
<1>7. x \div 64 = b6 + 2 * b7 /\ x \div 128 = b7
  OBVIOUS
<1>8. ByteOf(b0, b1, b2, b3, b4, b5, b6, b7) = x
  BY DEF ByteOf
<1> HIDE DEF x
<1>9. BitsAre(x, b0, b1, b2, b3, b4, b5, b6, b7)
  BY <1>0, <1>1, <1>2, <1>3, <1>4, <1>5, <1>6, <1>7 DEF BitsAre
<1> QED
  BY <1>8, <1>9

\* A bit of the filter, read from the byte it is packed into.
LEMMA PackedBit ==
  ASSUME NEW filter, NEW n \in Nat, NEW j \in 0..7
  PROVE  PackByte(filter, n) \in Int /\ ((PackByte(filter, n) \div Mask[j + 1]) % 2 = 1 <=> n + j \in filter)
<1> DEFINE b(k) == Bit(filter, k)
           x == PackByte(filter, n)
<1>1. ASSUME NEW k PROVE b(k) \in {0, 1} /\ (b(k) = 1 <=> k \in filter)
  BY DEF Bit
<1>2. x = ByteOf(b(n), b(n + 1), b(n + 2), b(n + 3), b(n + 4), b(n + 5), b(n + 6), b(n + 7))
  BY SMTT(60) DEF PackByte, ByteOf
<1> HIDE DEF b, x
<1>3. BitsAre(x, b(n), b(n + 1), b(n + 2), b(n + 3), b(n + 4), b(n + 5), b(n + 6), b(n + 7))
  BY <1>1, <1>2, BitsOfByte
<1>4. (x \div Mask[j + 1]) % 2 = b(n + j)
  <2>1. /\ Mask[1] = 1 /\ Mask[2] = 2 /\ Mask[3] = 4 /\ Mask[4] = 8 /\ Mask[5] = 16 /\ Mask[6] = 32
        /\ Mask[7] = 64 /\ Mask[8] = 128
    BY DEF Mask
  <2>2. n + 0 = n
    OBVIOUS
  <2>3. CASE j = 0
    BY <1>3, <2>1, <2>2, <2>3 DEF BitsAre
  <2>4. CASE j = 1
    BY <1>3, <2>1, <2>4 DEF BitsAre
  <2>5. CASE j = 2
    BY <1>3, <2>1, <2>5 DEF BitsAre
  <2>6. CASE j = 3
    BY <1>3, <2>1, <2>6 DEF BitsAre
  <2>7. CASE j = 4
    BY <1>3, <2>1, <2>7 DEF BitsAre
  <2>8. CASE j = 5
    BY <1>3, <2>1, <2>8 DEF BitsAre
  <2>9. CASE j = 6
    BY <1>3, <2>1, <2>9 DEF BitsAre
  <2>10. CASE j = 7
    BY <1>3, <2>1, <2>10 DEF BitsAre
  <2> QED
    BY <2>3, <2>4, <2>5, <2>6, <2>7, <2>8, <2>9, <2>10
<1> QED
  BY <1>1, <1>3, <1>4 DEF x, BitsAre

\* The bytes of the filter.
Packed(filter) == [k \in 1..FilterBits \div 8 |-> PackByte(filter, 8 * (k - 1))]

\* There is a byte for each eight bits.
LEMMA FilterBytes ==
  ASSUME NEW filter
  PROVE  FilterBits \div 8 \in Nat /\ Packed(filter) \in Seq(Int) /\ Len(Packed(filter)) = FilterBits \div 8
<1>1. FilterBits \div 8 \in Nat
  BY NumbersAssumption
<1>2. \A k \in 1..FilterBits \div 8 : PackByte(filter, 8 * (k - 1)) \in Int
  <2> TAKE k \in 1..FilterBits \div 8
  <2>1. 8 * (k - 1) \in Nat /\ 0 \in 0..7
    BY <1>1
  <2> QED
    BY <2>1, PackedBit
<1>3. Packed(filter) \in [1..FilterBits \div 8 -> Int]
  BY <1>2 DEF Packed
<1> QED
  BY <1>1, <1>3, FunctionIsSeq

\* The filter that is read at an address.
FilterIn(buf, at) ==
  {b \in 0..FilterBits - 1 : (buf[at + (b \div 8) + 1] \div Mask[(b % 8) + 1]) % 2 = 1}

\* What is written of the filter is read as the filter.
LEMMA FilterRead ==
  ASSUME NEW filter \in SUBSET (0..FilterBits - 1), NEW buf, NEW at, Holds(buf, at, Packed(filter))
  PROVE  FilterIn(buf, at) = filter
<1>1. FilterBits \in Nat /\ FilterBits % 8 = 0
  BY NumbersAssumption
<1>2. ASSUME NEW b \in 0..FilterBits - 1
      PROVE  (buf[at + (b \div 8) + 1] \div Mask[(b % 8) + 1]) % 2 = 1 <=> b \in filter
  <2> DEFINE k == (b \div 8) + 1
             j == b % 8
  <2>1. k \in 1..FilterBits \div 8 /\ j \in 0..7 /\ 8 * (k - 1) \in Nat /\ 8 * (k - 1) + j = b
    BY <1>1
  <2>2. at + (b \div 8) + 1 = at + k
    BY <1>1 DEF Holds
  <2> HIDE DEF k, j
  <2>3. buf[at + k] = PackByte(filter, 8 * (k - 1))
    <3>1. buf[at + k] = Packed(filter)[k]
      BY <2>1, FilterBytes DEF Holds
    <3> QED
      BY <2>1, <3>1 DEF Packed
  <2>4. (PackByte(filter, 8 * (k - 1)) \div Mask[j + 1]) % 2 = 1 <=> b \in filter
    BY <2>1, PackedBit
  <2> QED
    BY <2>2, <2>3, <2>4 DEF j
<1> QED
  BY <1>2 DEF FilterIn

-----------------------------------------------------------------------------
Instructions == Seq([1..InstructionBytes -> Byte])

\* The instructions written so far.
LEMMA CodeMoves ==
  ASSUME NEW code \in Instructions, NEW i \in 0..Len(code)
  PROVE  /\ AllSeqs(code, Int, Len(code)) /\ Len(code) \in Nat
         /\ First(code, i) \in Seq(Int) /\ Len(First(code, i)) = 4 * i
         /\ i < Len(code) => /\ code[i + 1] \in Seq(Int) /\ Len(code[i + 1]) = 4
                             /\ First(code, i + 1) = First(code, i) \o code[i + 1]
<1> PICK n \in Nat : n = Len(code)
  BY LenProperties
<1>1. ASSUME NEW k \in 1..n PROVE code[k] \in Seq(Int) /\ Len(code[k]) = 4
  <2>1. code[k] \in [1..4 -> Byte]
    BY ElementOfSeq DEF Instructions, InstructionBytes
  <2>2. Byte \subseteq Int
    BY DEF Byte
  <2>3. code[k] \in [1..4 -> Int]
    BY <2>1, <2>2
  <2> QED
    BY <2>3, FunctionIsSeq
<1>2. \A k \in 0..n : AllSeqs(code, Int, k)
  BY <1>1 DEF AllSeqs
<1>3. ASSUME NEW k \in 0..n, k < n PROVE First(code, k + 1) = First(code, k) \o code[k + 1]
  <2>1. k \in Nat /\ k + 1 \in 1..n
    BY <1>3
  <2> QED
    BY <1>1, <1>2, <2>1, FirstNext
<1>4. \A k \in 0..n : First(code, k) \in Seq(Int)
  BY <1>2, FirstNext
<1> DEFINE T == {k \in Nat : k <= n => Len(First(code, k)) = 4 * k}
<1>5. 0 \in T
  <2>1. First(code, 0) = <<>>
    BY <1>2, FirstNext
  <2> QED
    BY <2>1
<1>6. ASSUME NEW k \in T PROVE k + 1 \in T
  <2> SUFFICES ASSUME k + 1 <= n PROVE Len(First(code, k + 1)) = 4 * (k + 1)
    OBVIOUS
  <2>1. k \in 0..n /\ k < n /\ k + 1 \in 1..n /\ Len(First(code, k)) = 4 * k
    OBVIOUS
  <2> DEFINE x == First(code, k)
             y == code[k + 1]
  <2>2. x \in Seq(Int) /\ y \in Seq(Int) /\ Len(y) = 4 /\ Len(x) = 4 * k /\ First(code, k + 1) = x \o y
    BY <1>1, <1>3, <1>4, <2>1
  <2> HIDE DEF x, y
  <2>3. Len(x \o y) = Len(x) + Len(y)
    BY <2>2, ConcatProperties
  <2> QED
    BY <2>1, <2>2, <2>3
<1>7. T \subseteq Nat
  OBVIOUS
<1> HIDE DEF T
<1>8. \A k \in 0..n : Len(First(code, k)) = 4 * k
  <2>1. \A k \in Nat : k \in T
    BY <1>5, <1>6, <1>7, InductionOnNat
  <2> QED
    BY <2>1 DEF T
<1>9. i \in 0..n /\ n \in 0..n /\ (i < n => i + 1 \in 1..n)
  OBVIOUS
<1>10. i < n => code[i + 1] \in Seq(Int) /\ Len(code[i + 1]) = 4 /\ First(code, i + 1) = First(code, i) \o code[i + 1]
  BY <1>1, <1>3, <1>9
<1>11. AllSeqs(code, Int, n) /\ First(code, i) \in Seq(Int) /\ Len(First(code, i)) = 4 * i
  BY <1>2, <1>4, <1>8, <1>9
<1> QED
  BY <1>10, <1>11, Zenon

\* The instructions are written one after the other.
LEMMA CodeShape ==
  ASSUME NEW code \in Instructions
  PROVE  /\ FlattenSeq(code) \in Seq(Int) /\ Len(FlattenSeq(code)) = 4 * Len(code)
         /\ FlattenSeq(code) = First(code, Len(code))
<1>1. code = [k \in 1..Len(code) |-> code[k]] /\ Len(code) \in Nat
  <2>1. LongAs(code, Len(code)) /\ Len(code) \in Nat
    BY SeqIsSequence, LenProperties DEF LongAs, Instructions
  <2> QED
    BY <2>1, SequenceMeans
<1>2. FlattenSeq(code) = First(code, Len(code))
  BY <1>1 DEF First
<1>3. Len(code) \in 0..Len(code)
  BY <1>1
<1> QED
  BY <1>2, <1>3, CodeMoves

\* The instructions that are read at an address.
InstructionsIn(buf, at, n) ==
  [i \in 1..n |-> SubSeq(buf, at + (i - 1) * InstructionBytes + 1, at + i * InstructionBytes)]

\* What is written of the instructions is read as those instructions.
LEMMA CodeRead ==
  ASSUME NEW code \in Instructions, NEW buf \in Seq(Int), NEW at, Holds(buf, at, FlattenSeq(code)),
         NEW n \in Nat, n = Len(code)
  PROVE  InstructionsIn(buf, at, n) = code
<1>1. at \in Nat /\ Len(buf) \in Nat
  BY DEF Holds
<1>2. ASSUME NEW i \in 1..n
      PROVE  SubSeq(buf, at + (i - 1) * InstructionBytes + 1, at + i * InstructionBytes) = code[i]
  <2> DEFINE k == i - 1
             x == First(code, k)
             y == First(code, i)
             z == First(code, n)
             e == code[i]
             a == at + 4 * k
  <2>1. k \in 0..n /\ i \in 0..n /\ n \in 0..n /\ k < n /\ k + 1 = i
    OBVIOUS
  <2>2. /\ x \in Seq(Int) /\ Len(x) = 4 * k /\ e \in Seq(Int) /\ Len(e) = 4 /\ y = x \o e
        /\ y \in Seq(Int) /\ z \in Seq(Int) /\ AllSeqs(code, Int, n)
    BY <2>1, CodeMoves
  <2>3. StartsWith(z, y)
    BY <2>1, <2>2, FirstStartsWith
  <2>4. Holds(buf, at, z)
    BY CodeShape
  <2> HIDE DEF x, y, z, e, k
  <2>5. Len(y) \in Nat /\ Len(z) \in Nat
    BY <2>2, LenProperties
  <2>6. Holds(buf, at, y)
    BY <2>3, <2>4, <2>5, SMTT(60) DEF Holds, StartsWith
  <2>7. Holds(buf, a, e)
    BY <2>2, <2>6, HoldsBoth
  <2>8. a \in Nat /\ a + 4 <= Len(buf) /\ \A j \in 1..4 : buf[a + j] = e[j]
    BY <1>1, <2>1, <2>2, <2>7 DEF Holds
  <2>9. at + (i - 1) * InstructionBytes + 1 = a + 1 /\ at + i * InstructionBytes = a + 4
    BY <1>1 DEF InstructionBytes, k
  <2> HIDE DEF a
  <2> DEFINE s == SubSeq(buf, a + 1, a + 4)
  <2>10. LongAs(s, 4) /\ \A j \in 1..4 : s[j] = buf[a + j]
    <3>1. IsPart(s, buf, a, a + 4)
      <4>1. LongAs(buf, Len(buf)) /\ a \in Nat /\ a + 4 \in Nat /\ a <= a + 4
        BY <1>1, <2>8, SeqIsSequence DEF LongAs
      <4> QED
        BY <1>1, <2>8, <4>1, PartOfSequence
    <3>2. (a + 4) - a = 4
      BY <2>8
    <3>3. LongAs(s, 4) /\ \A j \in 1..4 : s[j] = buf[a + j]
      BY <3>1, <3>2 DEF IsPart
    <3> QED
      BY <3>3 DEF LongAs
  <2> HIDE DEF s
  <2>11. s = e
    <3>1. LongAs(e, 4)
      BY <2>2, SeqIsSequence DEF LongAs
    <3>2. s = [j \in 1..4 |-> s[j]] /\ e = [j \in 1..4 |-> e[j]]
      BY <2>10, <3>1, SequenceMeans
    <3>3. \A j \in 1..4 : s[j] = e[j]
      BY <2>8, <2>10
    <3> QED
      BY <3>2, <3>3
  <2> QED
    BY <2>9, <2>11 DEF s, e
<1>3. code = [k \in 1..n |-> code[k]]
  BY SeqIsSequence, SequenceMeans DEF LongAs, Instructions
<1> QED
  BY <1>2, <1>3 DEF InstructionsIn

-----------------------------------------------------------------------------
\* A sequence of numbers as long as n.
Bytes(s, n) == s \in Seq(Int) /\ n \in Nat /\ Len(s) = n

\* A buffer that holds all holds four sequences one after the other.
HeldInFour(all, s, t, u, v, a, b, c) ==
  \A buf, at : Holds(buf, at, all) =>
    /\ Holds(buf, at, s) /\ Holds(buf, at + a, t) /\ Holds(buf, at + a + b, u)
    /\ Holds(buf, at + a + b + c, v)

\* Four sequences end to end, and where a buffer that holds them holds each.
LEMMA FourParts ==
  ASSUME NEW s, NEW t, NEW u, NEW v, NEW a, NEW b, NEW c, NEW d,
         Bytes(s, a), Bytes(t, b), Bytes(u, c), Bytes(v, d)
  PROVE  /\ Bytes(((s \o t) \o u) \o v, a + b + c + d)
         /\ HeldInFour(((s \o t) \o u) \o v, s, t, u, v, a, b, c)
<1>1. /\ s \in Seq(Int) /\ t \in Seq(Int) /\ u \in Seq(Int) /\ v \in Seq(Int)
      /\ Len(s) = a /\ Len(t) = b /\ Len(u) = c /\ Len(v) = d
      /\ a \in Nat /\ b \in Nat /\ c \in Nat /\ d \in Nat
  BY DEF Bytes
<1> DEFINE x == s \o t
<1>2. x \in Seq(Int) /\ Len(x) = a + b
  BY <1>1, ConcatProperties
<1> DEFINE y == x \o u
<1>3. y \in Seq(Int) /\ Len(y) = (a + b) + c
  <2> HIDE DEF x
  <2>1. x \o u \in Seq(Int) /\ Len(x \o u) = Len(x) + Len(u)
    <3>1. x \in Seq(Int) /\ u \in Seq(Int)
      BY <1>1, <1>2
    <3> QED
      BY <3>1, ConcatProperties
  <2> QED
    BY <1>1, <1>2, <2>1
<1> DEFINE z == y \o v
<1>4. z \in Seq(Int) /\ Len(z) = ((a + b) + c) + d
  <2> HIDE DEF y
  <2> QED
    BY <1>1, <1>3, ConcatProperties, ZenonT(60)
<1>5. ASSUME NEW buf, NEW at, Holds(buf, at, z)
      PROVE  /\ Holds(buf, at, s) /\ Holds(buf, at + a, t) /\ Holds(buf, at + a + b, u)
             /\ Holds(buf, at + a + b + c, v)
  <2> HIDE DEF x
  <2>1. at \in Nat
    BY <1>5 DEF Holds
  <2>2. Holds(buf, at, y) /\ Holds(buf, at + ((a + b) + c), v)
    <3> HIDE DEF y
    <3> QED
      BY <1>1, <1>3, <1>5, HoldsBoth, ZenonT(60)
  <2>3. Holds(buf, at, x) /\ Holds(buf, at + (a + b), u)
    BY <1>1, <1>2, <2>2, HoldsBoth, ZenonT(60)
  <2>4. Holds(buf, at, s) /\ Holds(buf, at + a, t)
    BY <1>1, <2>3, HoldsBoth DEF x
  <2>5. at + (a + b) = at + a + b /\ at + ((a + b) + c) = at + a + b + c
    BY <1>1, <2>1
  <2> QED
    BY <2>2, <2>3, <2>4, <2>5
<1>6. Bytes(z, a + b + c + d)
  <2> HIDE DEF z
  <2> QED
    BY <1>1, <1>4 DEF Bytes
<1>7. HeldInFour(z, s, t, u, v, a, b, c)
  <2> HIDE DEF z
  <2> QED
    BY <1>5 DEF HeldInFour
<1> QED
  BY <1>6, <1>7

\* A buffer that holds all holds five sequences one after the other.
HeldApart(all, s, t, u, v, w, a, b, c, d) ==
  \A buf, at : Holds(buf, at, all) =>
    /\ Holds(buf, at, s) /\ Holds(buf, at + a, t) /\ Holds(buf, at + a + b, u)
    /\ Holds(buf, at + a + b + c, v) /\ Holds(buf, at + a + b + c + d, w)

\* Five sequences end to end.
LEMMA FiveParts ==
  ASSUME NEW s, NEW t, NEW u, NEW v, NEW w, NEW a, NEW b, NEW c, NEW d, NEW e,
         Bytes(s, a), Bytes(t, b), Bytes(u, c), Bytes(v, d), Bytes(w, e)
  PROVE  /\ Bytes((((s \o t) \o u) \o v) \o w, a + b + c + d + e)
         /\ HeldApart((((s \o t) \o u) \o v) \o w, s, t, u, v, w, a, b, c, d)
<1> DEFINE z == ((s \o t) \o u) \o v
           n == a + b + c + d
           all == z \o w
<1>1. /\ Bytes(z, n)
      /\ \A buf, at : Holds(buf, at, z) =>
           /\ Holds(buf, at, s) /\ Holds(buf, at + a, t) /\ Holds(buf, at + a + b, u)
           /\ Holds(buf, at + a + b + c, v)
  BY FourParts DEF HeldInFour
<1>2. a \in Nat /\ b \in Nat /\ c \in Nat /\ d \in Nat
  BY DEF Bytes
<1> HIDE DEF z
<1>3. z \in Seq(Int) /\ Len(z) = n /\ n \in Nat /\ w \in Seq(Int) /\ Len(w) = e /\ e \in Nat
  BY <1>1 DEF Bytes
<1>4. Bytes(all, n + e)
  <2>1. all \in Seq(Int) /\ Len(all) = Len(z) + Len(w)
    BY <1>3, ConcatProperties
  <2> HIDE DEF all, n
  <2> QED
    BY <1>3, <2>1 DEF Bytes
<1>5. ASSUME NEW buf, NEW at, Holds(buf, at, all)
      PROVE  Holds(buf, at, z) /\ Holds(buf, at + n, w) /\ at + n = at + a + b + c + d
  <2>1. at \in Nat
    BY <1>5 DEF Holds
  <2>2. Holds(buf, at, z) /\ Holds(buf, at + n, w)
    <3> HIDE DEF n
    <3> QED
      BY <1>3, <1>5, HoldsBoth
  <2> QED
    BY <1>2, <2>1, <2>2
<1>6. ASSUME NEW buf, NEW at, Holds(buf, at, all)
      PROVE  /\ Holds(buf, at, s) /\ Holds(buf, at + a, t) /\ Holds(buf, at + a + b, u)
             /\ Holds(buf, at + a + b + c, v) /\ Holds(buf, at + a + b + c + d, w)
  <2> HIDE DEF n, all
  <2> QED
    BY <1>1, <1>5, <1>6
<1>7. HeldApart(all, s, t, u, v, w, a, b, c, d)
  <2> HIDE DEF all
  <2> QED
    BY <1>6 DEF HeldApart
<1> QED
  BY <1>4, <1>7 DEF z

-----------------------------------------------------------------------------
\* What a program is written as.
LEMMA ProgramParts ==
  ASSUME NEW p \in Programs
  PROVE  /\ p.maxLabel \in 0..LargestNumber /\ p.maxCheck \in 0..LargestNumber
         /\ p.filterOff \in 0..LargestNumber /\ p.filter \in SUBSET (0..FilterBits - 1)
         /\ p.code \in Instructions /\ Len(p.code) \in Nat
         /\ Bytes(LittleEndian(p.maxLabel, Size32), 4) /\ Bytes(LittleEndian(p.maxCheck, Size32), 4)
         /\ Bytes(LittleEndian(p.filterOff, Size32), 4)
         /\ Bytes(Packed(p.filter), FilterBits \div 8)
         /\ Bytes(FlattenSeq(p.code), 4 * Len(p.code))
         /\ MarshallProgram(p) =
              (((LittleEndian(p.maxLabel, Size32) \o LittleEndian(p.maxCheck, Size32))
                \o LittleEndian(p.filterOff, Size32)) \o Packed(p.filter)) \o FlattenSeq(p.code)
<1>1. /\ p.maxLabel \in 0..LargestNumber /\ p.maxCheck \in 0..LargestNumber
      /\ p.filterOff \in 0..LargestNumber /\ p.filter \in SUBSET (0..FilterBits - 1)
      /\ p.code \in Instructions
  BY DEF Programs, Instructions
<1>2. \A n \in 0..LargestNumber : Bytes(LittleEndian(n, Size32), 4)
  BY WrittenSizes DEF Bytes, Sizes, Size32
<1>3. Bytes(Packed(p.filter), FilterBits \div 8)
  BY FilterBytes DEF Bytes
<1>4. Len(p.code) \in Nat
  BY <1>1, LenProperties DEF Instructions
<1>5. Bytes(FlattenSeq(p.code), 4 * Len(p.code))
  <2>1. FlattenSeq(p.code) \in Seq(Int) /\ Len(FlattenSeq(p.code)) = 4 * Len(p.code)
    BY <1>1, CodeShape
  <2>2. 4 * Len(p.code) \in Nat
    BY <1>4
  <2> QED
    BY <2>1, <2>2 DEF Bytes
<1>6. MarshallProgram(p) =
        (((LittleEndian(p.maxLabel, Size32) \o LittleEndian(p.maxCheck, Size32))
          \o LittleEndian(p.filterOff, Size32)) \o Packed(p.filter)) \o FlattenSeq(p.code)
  BY DEF MarshallProgram, Packed
<1> QED
  BY <1>1, <1>2, <1>3, <1>4, <1>5, <1>6

\* bufSize counts the bytes of a program.
LEMMA ProgramSized ==
  ASSUME NEW p \in Programs
  PROVE  Bytes(MarshallProgram(p), ProgramSize(p))
<1>1. Bytes(MarshallProgram(p), 4 + 4 + 4 + (FilterBits \div 8) + 4 * Len(p.code))
  BY ProgramParts, FiveParts, ZenonT(60)
<1> DEFINE m == Len(p.code)
           n == FilterBits \div 8
<1>2. m \in Nat /\ n \in Nat
  BY ProgramParts, FilterBytes
<1>3. ProgramSize(p) = 12 + n + m * 4
  BY DEF ProgramSize, HeaderBytes, InstructionBytes
<1> HIDE DEF m, n
<1>4. 12 + n + m * 4 = 4 + 4 + 4 + n + 4 * m
  BY <1>2
<1> QED
  BY <1>1, <1>3, <1>4 DEF m, n

\* What is written of a program is read as that program.
LEMMA ProgramRead ==
  ASSUME NEW p \in Programs, NEW buf \in Seq(Int), NEW at, Holds(buf, at, MarshallProgram(p))
  PROVE  ProgramOf(buf, UnmarshallProgram(buf, at, ProgramSize(p))) = p
<1> DEFINE m == Len(p.code)
           n == FilterBits \div 8
           filterAt == at + HeaderBytes
           codeAt == filterAt + n
           u == UnmarshallProgram(buf, at, ProgramSize(p))
<1>1. m \in Nat /\ n \in Nat /\ at \in Nat /\ Len(buf) \in Nat
  BY ProgramParts, FilterBytes DEF Holds
<1>2. /\ Holds(buf, at, LittleEndian(p.maxLabel, Size32))
      /\ Holds(buf, at + 4, LittleEndian(p.maxCheck, Size32))
      /\ Holds(buf, at + 4 + 4, LittleEndian(p.filterOff, Size32))
      /\ Holds(buf, at + 4 + 4 + 4, Packed(p.filter))
      /\ Holds(buf, at + 4 + 4 + 4 + n, FlattenSeq(p.code))
  <2> DEFINE a == LittleEndian(p.maxLabel, Size32)
             b == LittleEndian(p.maxCheck, Size32)
             c == LittleEndian(p.filterOff, Size32)
             d == Packed(p.filter)
             e == FlattenSeq(p.code)
             k == 4 * Len(p.code)
  <2>1. /\ Bytes(a, 4) /\ Bytes(b, 4) /\ Bytes(c, 4) /\ Bytes(d, n) /\ Bytes(e, k)
        /\ MarshallProgram(p) = (((a \o b) \o c) \o d) \o e
    BY ProgramParts
  <2> HIDE DEF a, b, c, d, e, k, n
  <2>2. Holds(buf, at, (((a \o b) \o c) \o d) \o e)
    BY <2>1
  <2> DEFINE f == 4
  <2>4. Bytes(a, f) /\ Bytes(b, f) /\ Bytes(c, f) /\ Bytes(d, n) /\ Bytes(e, k)
    BY <2>1
  <2> HIDE DEF f
  <2>6. HeldApart((((a \o b) \o c) \o d) \o e, a, b, c, d, e, f, f, f, n)
    BY <2>4, FiveParts
  <2>5. /\ Holds(buf, at, a) /\ Holds(buf, at + f, b) /\ Holds(buf, at + f + f, c)
        /\ Holds(buf, at + f + f + f, d) /\ Holds(buf, at + f + f + f + n, e)
    BY <2>2, <2>6 DEF HeldApart
  <2>3. /\ Holds(buf, at, a) /\ Holds(buf, at + 4, b) /\ Holds(buf, at + 4 + 4, c)
        /\ Holds(buf, at + 4 + 4 + 4, d) /\ Holds(buf, at + 4 + 4 + 4 + n, e)
    BY <2>5 DEF f
  <2> QED
    BY <2>3 DEF a, b, c, d, e
<1>3. at + 4 + 4 = at + 8 /\ at + 4 + 4 + 4 = filterAt /\ at + 4 + 4 + 4 + n = codeAt
  BY <1>1 DEF HeaderBytes
<1>4. codeAt + 4 * m <= Len(buf) /\ codeAt \in Nat
  <2>1. Holds(buf, codeAt, FlattenSeq(p.code)) /\ Len(FlattenSeq(p.code)) = 4 * m
    BY <1>2, <1>3, ProgramParts DEF Bytes
  <2> HIDE DEF codeAt, m
  <2> QED
    BY <2>1 DEF Holds
<1>5. ProgramSize(p) = 12 + n + m * 4
  BY DEF ProgramSize, HeaderBytes, InstructionBytes
<1>6. (ProgramSize(p) - (codeAt - at)) \div InstructionBytes = m
  <2>1. codeAt - at = 12 + n
    BY <1>1 DEF HeaderBytes
  <2> HIDE DEF codeAt, m, n
  <2>2. ProgramSize(p) - (codeAt - at) = m * 4
    BY <1>1, <1>5, <2>1
  <2> QED
    BY <1>1, <2>2 DEF InstructionBytes
<1>7. u = [maxLabel |-> NumberAt(buf, at, Size32), maxCheck |-> NumberAt(buf, at + 4, Size32),
           filterOff |-> NumberAt(buf, at + 8, Size32),
           filter |-> IF codeAt > Len(buf) THEN {}
                      ELSE FilterIn(buf, filterAt),
           code |-> codeAt, size |-> m]
  BY <1>6 DEF UnmarshallProgram, FilterIn
<1> HIDE DEF u, m, n, filterAt, codeAt
<1>8. /\ u.maxLabel = p.maxLabel /\ u.maxCheck = p.maxCheck /\ u.filterOff = p.filterOff
  <2>1. Size32 \in Sizes
    BY DEF Sizes
  <2>2. NumberAt(buf, at, Size32) = p.maxLabel
    BY <1>2, <2>1, ProgramParts, NumberRead
  <2>3. NumberAt(buf, at + 4, Size32) = p.maxCheck
    BY <1>2, <2>1, ProgramParts, NumberRead
  <2>4. NumberAt(buf, at + 8, Size32) = p.filterOff
    BY <1>2, <1>3, <2>1, ProgramParts, NumberRead
  <2> QED
    BY <1>7, <2>2, <2>3, <2>4
<1>9. u.filter = p.filter
  <2>1. ~(codeAt > Len(buf))
    BY <1>1, <1>4
  <2>2. FilterIn(buf, filterAt) = p.filter
    <3>1. Holds(buf, filterAt, Packed(p.filter)) /\ p.filter \in SUBSET (0..FilterBits - 1)
      BY <1>2, <1>3, ProgramParts
    <3> QED
      BY <3>1, FilterRead
  <2> QED
    BY <1>7, <2>1, <2>2
<1>10. CodeOf(buf, u) = p.code
  <2>1. u.size = m /\ u.code = codeAt
    BY <1>7
  <2>2. ~(m < 0) /\ ~(codeAt + m * InstructionBytes > Len(buf))
    BY <1>1, <1>4 DEF InstructionBytes
  <2>3. CodeOf(buf, u) = InstructionsIn(buf, codeAt, m)
    BY <2>1, <2>2 DEF CodeOf, InstructionsIn
  <2>4. Holds(buf, codeAt, FlattenSeq(p.code)) /\ p.code \in Instructions /\ m = Len(p.code)
    BY <1>2, <1>3, ProgramParts DEF m
  <2>5. InstructionsIn(buf, codeAt, m) = p.code
    BY <1>1, <2>4, CodeRead
  <2> QED
    BY <2>3, <2>5
<1>11. p = [maxLabel |-> p.maxLabel, maxCheck |-> p.maxCheck, filterOff |-> p.filterOff,
            filter |-> p.filter, code |-> p.code]
  BY DEF Programs
<1>12. ProgramOf(buf, u) = p
  BY <1>8, <1>9, <1>10, <1>11 DEF ProgramOf
<1> QED
  BY <1>12 DEF u

-----------------------------------------------------------------------------
\* What lg_write_program stores consists of two sizes, each with what it is the size of;
\* it is as long as lg_program_size says, as long as an int holds that.
LEMMA HandleParts ==
  ASSUME NEW pm \in Seq(Infos), NEW p \in Programs
  PROVE  LET m == Len(MarshallPatterns(pm))
             n == ProgramSize(p)
             all == WriteProgram(pm, p)
         IN /\ m \in Nat /\ n \in Nat /\ Bytes(all, 8 + m + 8 + n)
            /\ HeldInFour(all, LittleEndian(m, Size64), MarshallPatterns(pm),
                          LittleEndian(n, Size64), MarshallProgram(p), 8, m, 8)
            /\ Len(all) <= LargestInt => ProgramHandleSize(pm, p) = Len(all)
<1> DEFINE m == Len(MarshallPatterns(pm))
           n == ProgramSize(p)
           s == LittleEndian(m, Size64)
           t == MarshallPatterns(pm)
           u == LittleEndian(n, Size64)
           v == MarshallProgram(p)
           all == ((s \o t) \o u) \o v
<1>1. Bytes(t, m) /\ m \in Nat /\ (m <= LargestInt => PatternsSize(pm) = m)
  BY PatternsSized DEF Bytes
<1>2. Bytes(v, n) /\ n \in Nat /\ Len(v) = n
  BY ProgramSized DEF Bytes
<1>3. \A k \in Nat : Bytes(LittleEndian(k, Size64), 8)
  BY WrittenSizes DEF Bytes, Sizes, Size64
<1>4. WriteProgram(pm, p) = all
  BY <1>2 DEF WriteProgram
<1>5. ProgramHandleSize(pm, p) = AsUnsigned(8 + PatternsSize(pm) + 8 + n)
  BY DEF ProgramHandleSize, Size64
<1>6. Bytes(s, 8) /\ Bytes(u, 8)
  BY <1>1, <1>2, <1>3
<1> HIDE DEF s, t, u, v, m, n
<1> DEFINE f == 8
<1>7. Bytes(s, f) /\ Bytes(t, m) /\ Bytes(u, f) /\ Bytes(v, n)
  BY <1>1, <1>2, <1>6
<1> HIDE DEF f
<1>8. Bytes(all, f + m + f + n) /\ HeldInFour(all, s, t, u, v, f, m, f)
  BY <1>7, FourParts
<1> HIDE DEF all
<1>9. Bytes(all, 8 + m + 8 + n) /\ HeldInFour(all, s, t, u, v, 8, m, 8)
  BY <1>8 DEF f
<1>10. ASSUME Len(all) <= LargestInt PROVE ProgramHandleSize(pm, p) = Len(all)
  <2>1. Len(all) = 8 + m + 8 + n
    BY <1>9 DEF Bytes
  <2>2. m <= LargestInt /\ 8 + m + 8 + n \in 0..LargestInt
    BY <1>1, <1>2, <1>10, <2>1, IntHolds
  <2> QED
    BY <1>1, <1>5, <2>1, <2>2, IntHolds
<1> QED
  BY <1>1, <1>2, <1>4, <1>9, <1>10 DEF s, t, u, v, m, n

\* What lg_write_program stores, lg_read_program gives back, if the sizes are told.
LEMMA HandleRead ==
  ASSUME NEW pm \in Seq(Infos), NEW p \in Programs, NEW buf, buf = WriteProgram(pm, p),
         Len(buf) <= LargestInt
  PROVE  /\ LET u == ReadProgram(buf).pmap IN [i \in DOMAIN u |-> InfoOf(buf, u[i])] = pm
         /\ ProgramOf(buf, ReadProgram(buf).prog) = p
<1> DEFINE m == Len(MarshallPatterns(pm))
           n == ProgramSize(p)
<1>1. buf \in Seq(Int) /\ Len(buf) = 8 + m + 8 + n /\ m \in Nat /\ n \in Nat
  BY HandleParts DEF Bytes
<1> HIDE DEF m, n
<1>3. m \in 0..LargestNumber /\ n \in 0..LargestNumber
  BY <1>1, IntHolds, NumbersAssumption
<1>4. Holds(buf, 0, buf)
  BY <1>1, LenProperties DEF Holds
<1>5. /\ Holds(buf, 0, LittleEndian(m, Size64)) /\ Holds(buf, 0 + 8, MarshallPatterns(pm))
      /\ Holds(buf, 0 + 8 + m, LittleEndian(n, Size64)) /\ Holds(buf, 0 + 8 + m + 8, MarshallProgram(p))
  <2>1. HeldInFour(buf, LittleEndian(m, Size64), MarshallPatterns(pm), LittleEndian(n, Size64),
                   MarshallProgram(p), 8, m, 8)
    BY HandleParts DEF m, n
  <2> QED
    BY <1>4, <2>1 DEF HeldInFour
<1>6. 0 + 8 = 8 /\ 0 + 8 + m = 8 + m /\ 0 + 8 + m + 8 = 8 + m + 8 /\ Size64 = 8 /\ 8 \in Nat
  BY <1>1 DEF Size64
<1>7. Size64 \in Sizes
  BY DEF Sizes
<1>8. NumberAt(buf, 0, Size64) = m
  BY <1>3, <1>5, <1>7, NumberRead
<1>9. NumberAt(buf, 8 + m, Size64) = n
  <2>1. Holds(buf, 8 + m, LittleEndian(n, Size64))
    BY <1>5, <1>6
  <2> DEFINE at == 8 + m
  <2> HIDE DEF at
  <2>2. Holds(buf, at, LittleEndian(n, Size64))
    BY <2>1 DEF at
  <2>3. NumberAt(buf, at, Size64) = n
    BY <1>3, <1>7, <2>2, NumberRead
  <2> QED
    BY <2>3 DEF at
<1>10. ReadProgram(buf) = [pmap |-> UnmarshallPatterns(buf, 8, 8 + m),
                           prog |-> UnmarshallProgram(buf, 8 + m + 8, n)]
  BY <1>6, <1>8, <1>9 DEF ReadProgram
<1> DEFINE u == UnmarshallPatterns(buf, 8, 8 + m)
<1>11. [i \in DOMAIN u |-> InfoOf(buf, u[i])] = pm
  <2>1. Holds(buf, 8, MarshallPatterns(pm))
    BY <1>5, <1>6
  <2> DEFINE at == 8
             w == UnmarshallPatterns(buf, at, at + Len(MarshallPatterns(pm)))
  <2>2. Holds(buf, at, MarshallPatterns(pm)) /\ at \in Nat
    BY <2>1
  <2> HIDE DEF at
  <2>3. [i \in DOMAIN w |-> InfoOf(buf, w[i])] = pm
    BY <1>1, <2>2, PatternsRead
  <2>4. w = u
    BY DEF at, m
  <2> HIDE DEF w, u
  <2> QED
    BY <2>3, <2>4
<1>12. ProgramOf(buf, UnmarshallProgram(buf, 8 + m + 8, n)) = p
  <2> DEFINE at == 8 + m + 8
  <2>1. Holds(buf, at, MarshallProgram(p))
    BY <1>5, <1>6
  <2> HIDE DEF at
  <2>2. ProgramOf(buf, UnmarshallProgram(buf, at, ProgramSize(p))) = p
    BY <1>1, <2>1, ProgramRead
  <2> QED
    BY <2>2 DEF at, n
<1> HIDE DEF u
<1>13. ReadProgram(buf).pmap = u /\ ReadProgram(buf).prog = UnmarshallProgram(buf, 8 + m + 8, n)
  BY <1>10 DEF u
<1> QED
  BY <1>11, <1>12, <1>13

-----------------------------------------------------------------------------
\* What is in the pattern map was accepted, under the index of a line.
AdmittedInv ==
  \A i \in DOMAIN pmap :
    <<pmap[i].pattern, pmap[i].chain>> \in Encodes /\ pmap[i].userIndex \in 0..LargestNumber

\* What the buffer and the handle are.
BufferInv ==
  /\ pc \in {"built", "written", "loaded"} => prog \in Compiled
  /\ pc \in {"written", "loaded"} => buffer = WriteProgram(Encoded(pmap), prog)
  /\ pc = "loaded" => handle = ReadProgram(buffer)

\* Every step keeps the pattern map to what was accepted.
LEMMA AdmittedNext ==
  ASSUME DataTypes, ReadInv, AdmittedInv, [Next]_vars
  PROVE  AdmittedInv'
<1>1. CASE AddPattern
  <2> DEFINE e == [pattern |-> pattern, chain |-> Head(encodings), userIndex |-> lnum - 1]
  <2>1. pmap' = pmap \/ (pmap' = Append(pmap, e) /\ <<pattern, Head(encodings)>> \in Encodes)
    BY <1>1 DEF AddPattern
  <2>2. lnum - 1 \in 0..LargestNumber
    <3>1. lnum \in 1..Len(All) /\ fileNo \in 1..Len(files) /\ files \in KeyLists /\ pc = "add"
      BY <1>1 DEF AddPattern, ReadInv, Reading, DataTypes
    <3>2. fileNo \in DOMAIN files /\ Len(All) \in Nat
      BY <3>1, FilesTyped, FileTyped DEF All
    <3>3. Len(All) <= LargestInt
      BY <3>1, <3>2, LinesAssumption DEF All
    <3> HIDE DEF All
    <3> QED
      BY <3>1, <3>2, <3>3, IntHolds, NumbersAssumption
  <2>3. CASE pmap' = pmap
    BY <2>3 DEF AdmittedInv
  <2>4. CASE pmap' = Append(pmap, e) /\ <<pattern, Head(encodings)>> \in Encodes
    <3>1. pmap \in Seq(Entries)
      BY DEF DataTypes
    <3>2. IsSequence(pmap)
      BY <3>1, SeqIsSequence
    <3>3. /\ DOMAIN pmap' = 1..Len(pmap) + 1 /\ DOMAIN pmap = 1..Len(pmap) /\ Len(pmap) \in Nat
          /\ \A i \in 1..Len(pmap) : pmap'[i] = pmap[i]
          /\ pmap'[Len(pmap) + 1] = e
      BY <2>4, <3>2, AppendSequence
    <3>4. e.pattern = pattern /\ e.chain = Head(encodings) /\ e.userIndex = lnum - 1
      OBVIOUS
    <3> HIDE DEF e
    <3>5. ASSUME NEW i \in DOMAIN pmap'
          PROVE  <<pmap'[i].pattern, pmap'[i].chain>> \in Encodes /\ pmap'[i].userIndex \in 0..LargestNumber
      <4>1. CASE i \in 1..Len(pmap)
        BY <3>3, <4>1 DEF AdmittedInv
      <4>2. CASE i = Len(pmap) + 1
        BY <2>2, <2>4, <3>3, <3>4, <4>2
      <4> QED
        BY <3>3, <4>1, <4>2
    <3> QED
      BY <3>5 DEF AdmittedInv
  <2> QED
    BY <2>1, <2>3, <2>4
<1>2. CASE ~AddPattern
  <2>1. pmap' = pmap
    BY <1>2 DEF Next, AddPatternList, ReadLine, PatternAdded, EndList, ListThrew, HandleParseErrors,
       BuildProgram, WriteToBuffer, ReadFromBuffer, WriteFile, LoadProgram, Stopped, vars, adding
  <2> QED
    BY <2>1 DEF AdmittedInv
<1> QED
  BY <1>1, <1>2

\* Every step keeps the buffer to what was written.
LEMMA BufferNext ==
  ASSUME BufferInv, [Next]_vars
  PROVE  BufferInv'
<1>1. CASE BuildProgram
  BY <1>1 DEF BuildProgram, BufferInv
<1>2. CASE WriteToBuffer
  <2>1. /\ pc = "built" /\ pc' = "written" /\ prog' = prog /\ pmap' = pmap
        /\ buffer' = WriteProgram(Encoded(pmap), prog)
    BY <1>2 DEF WriteToBuffer, adding
  <2> QED
    BY <2>1 DEF BufferInv
<1>3. CASE ReadFromBuffer
  <2>1. /\ pc = "written" /\ pc' = "loaded" /\ prog' = prog /\ pmap' = pmap /\ buffer' = buffer
        /\ handle' = ReadProgram(buffer)
    BY <1>3 DEF ReadFromBuffer, adding
  <2> QED
    BY <2>1 DEF BufferInv
<1>4. CASE UNCHANGED vars
  <2>1. UNCHANGED <<pc, prog, pmap, buffer, handle>>
    BY <1>4 DEF vars, adding
  <2> QED
    BY <2>1 DEF BufferInv
<1>5. CASE /\ pc' \notin {"built", "written", "loaded"}
  BY <1>5 DEF BufferInv
<1>6. AddPatternList \/ ReadLine \/ AddPattern \/ PatternAdded \/ EndList \/ ListThrew
      \/ HandleParseErrors \/ WriteFile \/ LoadProgram => pc' \notin {"built", "written", "loaded"}
  BY DEF AddPatternList, ReadLine, AddPattern, PatternAdded, EndList, ListThrew, HandleParseErrors,
     WriteFile, LoadProgram
<1> QED
  BY <1>1, <1>2, <1>3, <1>4, <1>5, <1>6 DEF Next, Stopped

\* What is encoded of the pattern map are entries that can be written.
LEMMA EncodedTyped ==
  ASSUME DataTypes, AdmittedInv
  PROVE  Encoded(pmap) \in Seq(Infos)
<1>1. Len(pmap) \in Nat /\ DOMAIN pmap = 1..Len(pmap) /\ \A i \in 1..Len(pmap) : pmap[i] \in Entries
  BY LenProperties, ElementOfSeq DEF DataTypes
<1>2. ASSUME NEW i \in 1..Len(pmap)
      PROVE  [pattern |-> TextOf[pmap[i].pattern], chain |-> TextOf[pmap[i].chain],
              userIndex |-> pmap[i].userIndex] \in Infos
  <2> DEFINE e == pmap[i]
  <2>1. e \in Entries /\ <<e.pattern, e.chain>> \in Encodes /\ e.userIndex \in 0..LargestNumber
    BY <1>1 DEF AdmittedInv
  <2> HIDE DEF e
  <2>2. TextOf[e.pattern] \in Seq(Char) /\ TextOf[e.chain] \in Seq(Char)
    <3> DEFINE d == <<e.pattern, e.chain>>
    <3>1. d \in Encodes /\ d[1] = e.pattern /\ d[2] = e.chain
      BY <2>1
    <3> HIDE DEF d
    <3> QED
      BY <3>1, TextAssumption
  <2>3. [pattern |-> TextOf[e.pattern], chain |-> TextOf[e.chain], userIndex |-> e.userIndex] \in Infos
    BY <2>1, <2>2 DEF Infos
  <2> QED
    BY <2>3 DEF e
<1>3. Encoded(pmap) \in [1..Len(pmap) -> Infos]
  BY <1>1, <1>2 DEF Encoded
<1> QED
  BY <1>1, <1>3, FunctionIsSeq

\* A program written fills the bytes announced, and is read back as it was.
LEMMA ReadBackHolds ==
  ASSUME DataTypes, AdmittedInv, BufferInv
  PROVE  ReadBack
<1> SUFFICES ASSUME pc \in {"written", "loaded"}, Len(buffer) <= LargestInt
             PROVE  /\ Len(buffer) = Announced
                    /\ pc = "loaded" =>
                         /\ [i \in DOMAIN handle.pmap |-> InfoOf(buffer, handle.pmap[i])] = Encoded(pmap)
                         /\ ProgramOf(buffer, handle.prog) = prog
  BY DEF ReadBack
<1> DEFINE pm == Encoded(pmap)
<1>1. pm \in Seq(Infos)
  BY EncodedTyped
<1>2. prog \in Programs
  BY CompiledAssumption DEF BufferInv, Programs
<1>3. buffer = WriteProgram(pm, prog)
  BY DEF BufferInv
<1>4. Announced = ProgramHandleSize(pm, prog)
  BY DEF Announced
<1> HIDE DEF pm
<1>5. Len(buffer) = Announced
  BY <1>1, <1>2, <1>3, <1>4, HandleParts
<1>6. ASSUME pc = "loaded"
      PROVE  /\ [i \in DOMAIN handle.pmap |-> InfoOf(buffer, handle.pmap[i])] = pm
             /\ ProgramOf(buffer, handle.prog) = prog
  <2>1. handle = ReadProgram(buffer)
    BY <1>6 DEF BufferInv
  <2> QED
    BY <1>1, <1>2, <1>3, <2>1, HandleRead
<1> QED
  BY <1>5, <1>6 DEF pm

\* What lg_write_program stores, if an int holds the number of its bytes, fills exactly
\* those that lg_program_size announces, and lg_read_program gives the same patterns and
\* the same program back, for all key files and all programs.
THEOREM ReadBackAlways == Spec => []ReadBack
<1>1. Init => AdmittedInv /\ BufferInv
  <2> SUFFICES ASSUME Init PROVE AdmittedInv /\ BufferInv
    OBVIOUS
  <2>1. pmap = <<>> /\ pc = "files"
    BY DEF Init
  <2> QED
    BY <2>1 DEF AdmittedInv, BufferInv
<1>2. Inv /\ AdmittedInv /\ BufferInv /\ [Next]_vars => (AdmittedInv /\ BufferInv)'
  BY AdmittedNext, BufferNext DEF Inv
<1>3. Inv /\ AdmittedInv /\ BufferInv => ReadBack
  BY ReadBackHolds DEF Inv
<1> QED
  BY Invariance, <1>1, <1>2, <1>3, PTL DEF Spec
=============================================================================
