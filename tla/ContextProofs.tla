---------------------------- MODULE ContextProofs ----------------------------
(***************************************************************************)
(* Proofs about the context of a hit: for every chain of encoder and       *)
(* transforms and every text in it, what the encoder writes is what the    *)
(* decoder reads, wherever decoding begins; the window of a hit on whole   *)
(* characters of a text is the text around it; and the context shown to a  *)
(* user is the window with what is bad replaced.                           *)
(***************************************************************************)
EXTENDS TranscodingProofs

-----------------------------------------------------------------------------
(* The codes of the six encodings, written and read: the code of a         *)
(* character, and nothing shorter, is read as the character.               *)

\* The bytes of a number in groups of six bits.
LEMMA SixBits ==
  ASSUME NEW c \in Nat
  PROVE  /\ c = 64 * (c \div 64) + (c % 64) /\ c \div 64 \in Nat /\ c % 64 \in 0..63
         /\ (c \div 64) \div 64 = c \div 4096 /\ (c \div 4096) \div 64 = c \div 262144
<1>1. c = 64 * (c \div 64) + (c % 64) /\ c \div 64 \in Nat /\ c % 64 \in 0..63
  BY SMT
<1>2. (c \div 64) \div 64 = c \div 4096
  BY SMT
<1>3. (c \div 4096) \div 64 = c \div 262144
  BY SMT
<1> QED
  BY <1>1, <1>2, <1>3

\* A first byte tells the length.
LEMMA Utf8Lengths ==
  ASSUME NEW a \in Nat
  PROVE  /\ a < 128 => Utf8Length(a) = 1
         /\ a >= 194 /\ a <= 223 => Utf8Length(a) = 2
         /\ a >= 224 /\ a <= 239 => Utf8Length(a) = 3
         /\ a >= 240 /\ a <= 244 => Utf8Length(a) = 4
  BY SMT DEF Utf8Length

\* What is read of a code of w bytes, its length, its continuations and its point.
ReadsPoint(s, w, c) ==
  /\ Utf8Length(s[1]) = w /\ Utf8Point(s, w) = c
  /\ \A k \in 2..w : s[k] \in 128..191
  /\ c >= <<0, 128, 2048, 65536>>[w]

\* What is the point of so many bytes.
LEMMA PointOf ==
  ASSUME NEW s, NEW n
  PROVE  /\ n = 2 => Utf8Point(s, n) = 64 * (s[1] % 32) + (s[2] % 64)
         /\ n = 3 => Utf8Point(s, n) = 4096 * (s[1] % 16) + 64 * (s[2] % 64) + (s[3] % 64)
         /\ n = 4 => Utf8Point(s, n) = 262144 * (s[1] % 8) + 4096 * (s[2] % 64) + 64 * (s[3] % 64)
                                      + (s[4] % 64)
<1>1. n = 2 => Utf8Point(s, n) = 64 * (s[1] % 32) + (s[2] % 64)
  BY DEF Utf8Point
<1>2. n = 3 => Utf8Point(s, n) = 4096 * (s[1] % 16) + 64 * (s[2] % 64) + (s[3] % 64)
  BY DEF Utf8Point
<1>3. n = 4 => Utf8Point(s, n) = 262144 * (s[1] % 8) + 4096 * (s[2] % 64) + 64 * (s[3] % 64)
                                 + (s[4] % 64)
  BY SMT DEF Utf8Point
<1> QED
  BY <1>1, <1>2, <1>3

\* Two bytes, ...
LEMMA TwoForth ==
  ASSUME NEW c \in Nat, c >= 128, c <= 2047, NEW s, s[1] = 192 + c \div 64, s[2] = Continuation(c)
  PROVE  ReadsPoint(s, 2, c)
<1> DEFINE a == c \div 64
           b == c % 64
<1>1. c = 64 * a + b /\ a \in Nat /\ b \in 0..63
  BY SixBits
<1> HIDE DEF a, b
<1>2. a >= 2 /\ a <= 31
  BY <1>1, SMT
<1>3. s[1] = 192 + a /\ s[2] = 128 + b
  BY DEF Continuation, a, b
<1>4. Utf8Length(s[1]) = 2
  <2>1. 192 + a \in Nat /\ 192 + a >= 194 /\ 192 + a <= 223
    BY <1>1, <1>2
  <2> QED
    BY <1>3, <2>1, Utf8Lengths
<1>5. Utf8Point(s, 2) = c
  <2>1. Utf8Point(s, 2) = 64 * (s[1] % 32) + (s[2] % 64)
    BY PointOf
  <2>2. (192 + a) % 32 = a /\ (128 + b) % 64 = b
    BY <1>1, <1>2, SMT
  <2>3. s[1] % 32 = a /\ s[2] % 64 = b
    BY <1>3, <2>2
  <2> QED
    BY <1>1, <2>1, <2>3
<1>6. \A k \in 2..2 : s[k] \in 128..191
  <2>1. 128 + b \in 128..191 /\ \A k \in 2..2 : k = 2
    BY <1>1
  <2> QED
    BY <1>3, <2>1
<1>7. c >= <<0, 128, 2048, 65536>>[2]
  OBVIOUS
<1> QED
  BY <1>4, <1>5, <1>6, <1>7 DEF ReadsPoint

\* ... three, ...
LEMMA ThreeForth ==
  ASSUME NEW c \in Nat, c >= 2048, c <= 65535,
         NEW s, s[1] = 224 + c \div 4096, s[2] = Continuation(c \div 64), s[3] = Continuation(c)
  PROVE  ReadsPoint(s, 3, c)
<1> DEFINE e == c \div 64
           a == c \div 4096
           b == e % 64
           d == c % 64
<1>1. c = 64 * e + d /\ e = 64 * a + b /\ a \in Nat /\ b \in 0..63 /\ d \in 0..63
  <2>1. c = 64 * e + d /\ e \in Nat /\ d \in 0..63 /\ e \div 64 = a
    BY SixBits
  <2> HIDE DEF e, a
  <2>2. e = 64 * (e \div 64) + (e % 64) /\ e \div 64 \in Nat /\ e % 64 \in 0..63
    BY <2>1, SixBits
  <2> QED
    BY <2>1, <2>2
<1>3. s[1] = 224 + a /\ s[2] = 128 + b /\ s[3] = 128 + d
  BY DEF Continuation
<1> HIDE DEF a, b, d, e
<1>2. a <= 15
  BY <1>1, SMT
<1>4. Utf8Length(s[1]) = 3
  <2>1. 224 + a \in Nat /\ 224 + a >= 224 /\ 224 + a <= 239
    BY <1>1, <1>2
  <2> QED
    BY <1>3, <2>1, Utf8Lengths
<1>5. Utf8Point(s, 3) = c
  <2>1. Utf8Point(s, 3) = 4096 * (s[1] % 16) + 64 * (s[2] % 64) + (s[3] % 64)
    BY PointOf
  <2>2. (224 + a) % 16 = a /\ (128 + b) % 64 = b /\ (128 + d) % 64 = d
    BY <1>1, <1>2, SMT
  <2>3. c = 4096 * a + 64 * b + d
    BY <1>1, SMT
  <2>4. s[1] % 16 = a /\ s[2] % 64 = b /\ s[3] % 64 = d
    BY <1>3, <2>2
  <2> QED
    BY <2>1, <2>3, <2>4
<1>6. \A k \in 2..3 : s[k] \in 128..191
  <2>1. 128 + b \in 128..191 /\ 128 + d \in 128..191 /\ \A k \in 2..3 : k = 2 \/ k = 3
    BY <1>1
  <2> QED
    BY <1>3, <2>1
<1>7. c >= <<0, 128, 2048, 65536>>[3]
  BY SMT
<1> QED
  BY <1>4, <1>5, <1>6, <1>7, SMT DEF ReadsPoint

\* ... four.
LEMMA FourForth ==
  ASSUME NEW c \in Nat, c > 65535, c < CodePointEnd,
         NEW s, s[1] = 240 + c \div 262144, s[2] = Continuation(c \div 4096),
         s[3] = Continuation(c \div 64), s[4] = Continuation(c)
  PROVE  ReadsPoint(s, 4, c)
<1> DEFINE e == c \div 64
           f == c \div 4096
           a == c \div 262144
           b == f % 64
           g == e % 64
           d == c % 64
<1>1. /\ c = 64 * e + d /\ e = 64 * f + g /\ f = 64 * a + b
      /\ a \in Nat /\ b \in 0..63 /\ g \in 0..63 /\ d \in 0..63
  <2>1. /\ c = 64 * e + d /\ e \in Nat /\ d \in 0..63 /\ e \div 64 = f /\ f \div 64 = a
    BY SixBits
  <2> HIDE DEF e, a, f
  <2>2. e = 64 * (e \div 64) + g /\ e \div 64 \in Nat /\ g \in 0..63
    BY <2>1, SixBits
  <2>3. f \in Nat
    BY <2>1, <2>2
  <2>4. f = 64 * (f \div 64) + b /\ f \div 64 \in Nat /\ b \in 0..63
    BY <2>3, SixBits
  <2> HIDE DEF b, g, d
  <2>5. e \div 64 = f /\ f \div 64 = a
    BY <2>1
  <2>6. e = 64 * f + g /\ f = 64 * a + b /\ a \in Nat
    BY <2>2, <2>4, <2>5, SMT
  <2> QED
    BY <2>1, <2>2, <2>4, <2>6, SMT
<1>3. s[1] = 240 + a /\ s[2] = 128 + b /\ s[3] = 128 + g /\ s[4] = 128 + d
  BY SMT DEF Continuation
<1> HIDE DEF a, b, d, e, f, g
<1>2. a <= 4
  BY <1>1, SMT DEF CodePointEnd
<1>4. Utf8Length(s[1]) = 4
  <2>1. 240 + a \in Nat /\ 240 + a >= 240 /\ 240 + a <= 244
    BY <1>1, <1>2, SMT
  <2> QED
    BY <1>3, <2>1, Utf8Lengths, SMT
<1>5. Utf8Point(s, 4) = c
  <2>1. Utf8Point(s, 4) = 262144 * (s[1] % 8) + 4096 * (s[2] % 64) + 64 * (s[3] % 64) + (s[4] % 64)
    BY PointOf
  <2>2. (240 + a) % 8 = a /\ (128 + b) % 64 = b /\ (128 + g) % 64 = g /\ (128 + d) % 64 = d
    BY <1>1, <1>2, SMT
  <2>3. c = 262144 * a + 4096 * b + 64 * g + d
    BY <1>1, SMT
  <2>4. s[1] % 8 = a /\ s[2] % 64 = b /\ s[3] % 64 = g /\ s[4] % 64 = d
    BY <1>3, <2>2, SMT
  <2> QED
    BY <2>1, <2>3, <2>4, SMT
<1>6. \A k \in 2..4 : s[k] \in 128..191
  <2>1. 128 + b \in 128..191 /\ 128 + g \in 128..191 /\ 128 + d \in 128..191
        /\ \A k \in 2..4 : k = 2 \/ k = 3 \/ k = 4
    BY <1>1, SMT
  <2> QED
    BY <1>3, <2>1, SMT
<1>7. c >= <<0, 128, 2048, 65536>>[4]
  BY SMT
<1> QED
  BY <1>4, <1>5, <1>6, <1>7, SMT DEF ReadsPoint

\* A tuple is as long as it looks.
LEMMA TupleLong ==
  ASSUME NEW a, NEW b, NEW c, NEW d
  PROVE  LongAs(<<a>>, 1) /\ LongAs(<<a, b>>, 2) /\ LongAs(<<a, b, c>>, 3) /\ LongAs(<<a, b, c, d>>, 4)
<1>1. \A n \in 1..4 : \A u : u = [k \in 1..n |-> u[k]] => LongAs(u, n)
  BY SequenceMeans
<1>2. <<a>> = [k \in 1..1 |-> <<a>>[k]]
  BY SMT
<1>3. <<a, b>> = [k \in 1..2 |-> <<a, b>>[k]]
  BY SMT
<1>4. <<a, b, c>> = [k \in 1..3 |-> <<a, b, c>>[k]]
  BY SMT
<1>5. <<a, b, c, d>> = [k \in 1..4 |-> <<a, b, c, d>>[k]]
  BY SMT
<1> QED
  BY <1>1, <1>2, <1>3, <1>4, <1>5

\* s begins with the w bytes of u.
Opens(s, u, w) == LongAs(u, w) /\ \A k \in 1..w : s[k] = u[k]

\* So the bytes are known one by one.
LEMMA OpensWith ==
  ASSUME NEW s, NEW u, NEW w \in Nat, Opens(s, u, w)
  PROVE  /\ \A a : u = <<a>> => w = 1 /\ s[1] = a
         /\ \A a, b : u = <<a, b>> => w = 2 /\ s[1] = a /\ s[2] = b
         /\ \A a, b, c : u = <<a, b, c>> => w = 3 /\ s[1] = a /\ s[2] = b /\ s[3] = c
         /\ \A a, b, c, d : u = <<a, b, c, d>> => w = 4 /\ s[1] = a /\ s[2] = b /\ s[3] = c /\ s[4] = d
<1>0. \A n \in Nat : LongAs(u, n) => n = w
  BY DEF LongAs, Opens
<1>1. \A k \in 1..w : s[k] = u[k]
  BY DEF Opens
<1>2. ASSUME NEW a, u = <<a>> PROVE w = 1 /\ s[1] = a
  <2>1. w = 1
    BY <1>0, <1>2, TupleLong
  <2> QED
    BY <1>1, <1>2, <2>1
<1>3. ASSUME NEW a, NEW b, u = <<a, b>> PROVE w = 2 /\ s[1] = a /\ s[2] = b
  <2>1. w = 2
    BY <1>0, <1>3, TupleLong
  <2> QED
    BY <1>1, <1>3, <2>1
<1>4. ASSUME NEW a, NEW b, NEW c, u = <<a, b, c>> PROVE w = 3 /\ s[1] = a /\ s[2] = b /\ s[3] = c
  <2>1. w = 3
    BY <1>0, <1>4, TupleLong
  <2> QED
    BY <1>1, <1>4, <2>1
<1>5. ASSUME NEW a, NEW b, NEW c, NEW d, u = <<a, b, c, d>>
      PROVE  w = 4 /\ s[1] = a /\ s[2] = b /\ s[3] = c /\ s[4] = d
  <2>1. w = 4
    BY <1>0, <1>5, TupleLong
  <2> QED
    BY <1>1, <1>5, <2>1
<1> QED
  BY <1>2, <1>3, <1>4, <1>5

\* The code that UTF-8 has for a code point tells its length and the point.
LEMMA Utf8Tells ==
  ASSUME NEW s, NEW c, IsUnicode(c), NEW w \in Nat, Opens(s, Utf8Bytes(c), w)
  PROVE  ReadsPoint(s, w, c)
<1>1. c \in Nat /\ c < CodePointEnd
  BY UnicodeMeans
<1>2. Utf8Shape(c)
  BY <1>1, Utf8Written
<1>3. CASE c < 128
  <2>1. w = 1 /\ s[1] = c
    BY <1>2, <1>3, OpensWith DEF Utf8Shape
  <2>2. Utf8Length(s[1]) = 1
    BY <1>1, <1>3, <2>1, Utf8Lengths
  <2>3. Utf8Point(s, w) = c
    BY <2>1 DEF Utf8Point
  <2>4. (\A k \in 2..1 : s[k] \in 128..191) /\ c >= <<0, 128, 2048, 65536>>[1]
    BY <1>1
  <2> QED
    BY <2>1, <2>2, <2>3, <2>4 DEF ReadsPoint
<1>4. CASE c >= 128 /\ c <= 2047
  <2>1. w = 2 /\ s[1] = 192 + c \div 64 /\ s[2] = Continuation(c)
    BY <1>2, <1>4, OpensWith DEF Utf8Shape
  <2> QED
    BY <1>1, <1>4, <2>1, TwoForth
<1>5. CASE c >= 2048 /\ c <= 65535
  <2>1. Utf8Bytes(c) = <<224 + c \div 4096, Continuation(c \div 64), Continuation(c)>>
    BY <1>2, <1>5, SMT DEF Utf8Shape
  <2>2. w = 3 /\ s[1] = 224 + c \div 4096 /\ s[2] = Continuation(c \div 64) /\ s[3] = Continuation(c)
    BY <2>1, OpensWith, SMT
  <2> QED
    BY <1>1, <1>5, <2>2, ThreeForth, SMT
<1>6. CASE c > 65535
  <2>1. Utf8Bytes(c) = <<240 + c \div 262144, Continuation(c \div 4096), Continuation(c \div 64),
                         Continuation(c)>>
    BY <1>2, <1>6, SMT DEF Utf8Shape
  <2>2. w = 4 /\ s[1] = 240 + c \div 262144 /\ s[2] = Continuation(c \div 4096)
        /\ s[3] = Continuation(c \div 64) /\ s[4] = Continuation(c)
    BY <2>1, OpensWith, SMT
  <2> QED
    BY <1>1, <1>6, <2>2, FourForth, SMT
<1>7. c < 128 \/ (c >= 128 /\ c <= 2047) \/ (c >= 2048 /\ c <= 65535) \/ c > 65535
  BY <1>1, SMT
<1> QED
  BY <1>3, <1>4, <1>5, <1>6, <1>7, SMT

\* What UTF-8 writes is read back, whatever follows.
LEMMA Utf8Forth ==
  ASSUME NEW n \in 1..4, NEW s, LongAs(s, n), NEW c, IsUnicode(c), NEW w \in 1..n, Opens(s, Utf8Bytes(c), w)
  PROVE  Utf8ToCp(s) = Step(c, w)
<1>1. w \in Nat
  OBVIOUS
<1>2. ReadsPoint(s, w, c)
  BY <1>1, Utf8Tells
<1>3. Len(s) = n
  BY DEF LongAs
<1> DEFINE m == Utf8Length(s[1])
           cp == Utf8Point(s, m)
           least == <<0, 128, 2048, 65536>>
           good == /\ \A k \in 2..m : s[k] \in 128..191
                   /\ cp >= least[m] /\ IsUnicode(cp)
<1>4. Utf8ToCp(s) = IF m \in 1..n /\ good THEN Step(cp, m) ELSE NoCode
  BY <1>3, SMT DEF Utf8ToCp
<1>5. m = w /\ cp = c
  BY <1>2 DEF ReadsPoint
<1>6. good
  BY <1>2, <1>5 DEF ReadsPoint
<1> HIDE DEF m, cp, good
<1> QED
  BY <1>4, <1>5, <1>6

\* A byte.
IsByte(b) == b \in 0..255

\* It is a number below 256.
LEMMA ByteMeans == ASSUME NEW b PROVE IsByte(b) <=> b \in Nat /\ b <= 255
<1>1. \A a \in Nat : b \in 0..a <=> b \in Nat /\ b <= a
  OBVIOUS
<1>2. 255 \in Nat
  OBVIOUS
<1> QED
  BY <1>1, <1>2, Zenon DEF IsByte

\* A unit of two bytes.
UnitOf(x, le, a, b) == UnitBytes(x, le) = <<a, b>> /\ x = IF le THEN a + 256 * b ELSE 256 * a + b

\* It is written as one.
HasUnit(x, le) == \E a, b : IsByte(a) /\ IsByte(b) /\ UnitOf(x, le, a, b)

InTwoBytes(x) == x \in Nat /\ x < 65536

\* So is every number of two bytes.
LEMMA UnitWritten == ASSUME NEW x, InTwoBytes(x), NEW le \in BOOLEAN PROVE HasUnit(x, le)
<1> DEFINE h == x \div 256
           l == x % 256
<1>1. h \in Nat /\ h <= 255 /\ l \in Nat /\ l <= 255 /\ x = 256 * h + l
  BY SMT DEF InTwoBytes
<1>0. IsByte(h) /\ IsByte(l)
  BY <1>1, ByteMeans
<1>2. TwoBytes(x) = <<h, l>>
  BY DEF TwoBytes
<1> HIDE DEF h, l
<1>3. CASE le = TRUE
  <2>1. UnitBytes(x, le) = <<l, h>>
    BY <1>2, <1>3, ReverseFew DEF UnitBytes
  <2>2. x = l + 256 * h
    BY <1>1
  <2>3. UnitOf(x, le, l, h)
    BY <1>3, <2>1, <2>2 DEF UnitOf
  <2> QED
    BY <1>0, <2>3 DEF HasUnit
<1>4. CASE le = FALSE
  <2>1. UnitBytes(x, le) = <<h, l>>
    BY <1>2, <1>4 DEF UnitBytes
  <2>2. UnitOf(x, le, h, l)
    BY <1>1, <1>4, <2>1 DEF UnitOf
  <2> QED
    BY <1>0, <2>2 DEF HasUnit
<1>5. le = TRUE \/ le = FALSE
  OBVIOUS
<1> QED
  BY <1>3, <1>4, <1>5, Zenon

\* The two surrogates of a code point.
High(c) == (55296 - 64) + c \div 1024
Low(c) == 56320 + (c % 1024)

\* They are a high and a low one, and give the code point.
LEMMA SurrogatesOf ==
  ASSUME NEW c \in Nat, c >= 65536, c < CodePointEnd
  PROVE  /\ High(c) \in Nat /\ High(c) >= 55296 /\ High(c) <= 56319
         /\ Low(c) \in Nat /\ Low(c) >= 56320 /\ Low(c) <= 57343
         /\ 1024 * (High(c) - (55296 - 64)) + Low(c) - 56320 = c
<1> DEFINE q == c \div 1024
           r == c % 1024
<1>1. q \in Nat /\ r \in Nat /\ r <= 1023 /\ c = 1024 * q + r
  BY SMT
<1>2. High(c) = (55296 - 64) + q /\ Low(c) = 56320 + r
  BY DEF High, Low
<1> HIDE DEF q, r
<1>3. q >= 64 /\ q <= 1087
  BY <1>1, SMT DEF CodePointEnd
<1>4. High(c) \in Nat /\ High(c) >= 55296 /\ High(c) <= 56319
  BY <1>1, <1>2, <1>3, SMT
<1>5. Low(c) \in Nat /\ Low(c) >= 56320 /\ Low(c) <= 57343
  BY <1>1, <1>2, <1>3, SMT
<1>6. 1024 * (High(c) - (55296 - 64)) + Low(c) - 56320 = c
  BY <1>1, <1>2, SMT
<1> QED
  BY <1>4, <1>5, <1>6, SMT

\* The bytes of a code point by its units.
Utf16Shape(c, le) ==
  /\ c < 65536 => Utf16Bytes(c, le) = UnitBytes(c, le)
  /\ c >= 65536 => Utf16Bytes(c, le) = UnitBytes(High(c), le) \o UnitBytes(Low(c), le)

\* They are those.
LEMMA Utf16Written == ASSUME NEW c \in Nat, NEW le PROVE Utf16Shape(c, le)
<1>1. ASSUME c < 65536 PROVE Utf16Bytes(c, le) = UnitBytes(c, le)
  <2>1. Utf16Units(c) = <<c>>
    BY <1>1, SMT DEF Utf16Units
  <2> QED
    BY <2>1, SMT DEF Utf16Bytes
<1>2. ASSUME c >= 65536 PROVE Utf16Bytes(c, le) = UnitBytes(High(c), le) \o UnitBytes(Low(c), le)
  <2>1. Utf16Units(c) = <<High(c), Low(c)>>
    BY <1>2, SMT DEF Utf16Units, High, Low
  <2> HIDE DEF High, Low
  <2> QED
    BY <2>1, SMT DEF Utf16Bytes
<1> QED
  BY <1>1, <1>2, SMT DEF Utf16Shape

\* What UTF-16 writes begins s: one unit or two.
SpellsUnits(s, c, w, le) ==
  \/ c < 65536 /\ w = 2 /\ UnitAt(s, 1, le) = c
  \/ c >= 65536 /\ w = 4 /\ UnitAt(s, 1, le) = High(c) /\ UnitAt(s, 3, le) = Low(c)

\* So it does.
LEMMA Utf16Spelled ==
  ASSUME NEW s, NEW c \in Nat, c < CodePointEnd, NEW le \in BOOLEAN, NEW w \in Nat, Opens(s, Utf16Bytes(c, le), w)
  PROVE  SpellsUnits(s, c, w, le)
<1>1. Utf16Shape(c, le)
  BY Utf16Written
<1>2. CASE c < 65536
  <2>1. PICK a, b : IsByte(a) /\ IsByte(b) /\ UnitOf(c, le, a, b)
    BY <1>2, UnitWritten, SMT DEF HasUnit, InTwoBytes
  <2>2. Utf16Bytes(c, le) = <<a, b>>
    BY <1>1, <1>2, <2>1, SMT DEF Utf16Shape, UnitOf
  <2>3. w = 2 /\ s[1] = a /\ s[2] = b
    BY <2>2, OpensWith
  <2>4. UnitAt(s, 1, le) = c
    <3>1. UnitAt(s, 1, le) = IF le THEN a + 256 * b ELSE 256 * a + b
      BY <2>3 DEF UnitAt
    <3> QED
      BY <2>1, <3>1 DEF UnitOf
  <2> QED
    BY <1>2, <2>3, <2>4, SMT DEF SpellsUnits
<1>3. CASE c >= 65536
  <2>0. High(c) \in Nat /\ High(c) < 65536 /\ Low(c) \in Nat /\ Low(c) < 65536
    BY <1>3, SurrogatesOf, SMT
  <2>1. PICK a, b : IsByte(a) /\ IsByte(b) /\ UnitOf(High(c), le, a, b)
    BY <2>0, UnitWritten, SMT DEF HasUnit, InTwoBytes
  <2>2. PICK d, e : IsByte(d) /\ IsByte(e) /\ UnitOf(Low(c), le, d, e)
    BY <2>0, UnitWritten, SMT DEF HasUnit, InTwoBytes
  <2>3. Utf16Bytes(c, le) = <<a, b>> \o <<d, e>>
    BY <1>1, <1>3, <2>1, <2>2, SMT DEF Utf16Shape, UnitOf
  <2>4. Utf16Bytes(c, le) = <<a, b, d, e>>
    BY <2>3, TwoAndTwo, SMT
  <2>5. w = 4 /\ s[1] = a /\ s[2] = b /\ s[3] = d /\ s[4] = e
    BY <2>4, OpensWith, SMT
  <2>6. UnitAt(s, 1, le) = High(c)
    <3>1. UnitAt(s, 1, le) = IF le THEN a + 256 * b ELSE 256 * a + b
      BY <2>5, SMT DEF UnitAt
    <3> QED
      BY <2>1, <3>1, SMT DEF UnitOf
  <2>7. UnitAt(s, 3, le) = Low(c)
    <3>1. UnitAt(s, 3, le) = IF le THEN d + 256 * e ELSE 256 * d + e
      BY <2>5, SMT DEF UnitAt
    <3> QED
      BY <2>2, <3>1, SMT DEF UnitOf
  <2> QED
    BY <1>3, <2>5, <2>6, <2>7, SMT DEF SpellsUnits
<1>4. c < 65536 \/ c >= 65536
  BY SMT
<1> QED
  BY <1>2, <1>3, <1>4, SMT

\* What UTF-16 writes is read back, whatever follows.
LEMMA Utf16Forth ==
  ASSUME NEW n \in 1..4, NEW s, LongAs(s, n), NEW c, IsUnicode(c), NEW le \in BOOLEAN,
         NEW w \in 1..n, Opens(s, Utf16Bytes(c, le), w)
  PROVE  Utf16ToCp(s, le) = Step(c, w)
<1> DEFINE x == UnitAt(s, 1, le)
           z == UnitAt(s, 3, le)
           A == x \notin Surrogates
           B == x \in 55296..56319 /\ z \in 56320..57343
           y == 1024 * (x - (55296 - 64)) + z - 56320
<1>1. c \in Nat /\ c < CodePointEnd /\ c \notin Surrogates
  BY UnicodeMeans
<1>2. w \in Nat /\ w <= n
  OBVIOUS
<1>3. SpellsUnits(s, c, w, le)
  BY <1>1, <1>2, Utf16Spelled
<1>4. Len(s) = n
  BY DEF LongAs
<1>5. Utf16ToCp(s, le) = CASE Len(s) >= 2 /\ A -> Step(x, 2)
                           [] Len(s) >= 4 /\ B -> Step(y, 4)
                           [] OTHER -> NoCode
  BY DEF Utf16ToCp
<1>6. CASE w = 2 /\ x = c
  <2>1. Len(s) >= 2 /\ A /\ ~B
    <3>1. x \in 55296..56319 => x \in Surrogates
      BY SMT DEF Surrogates
    <3> QED
      BY <1>1, <1>2, <1>4, <1>6, <3>1, SMTT(60)
  <2> HIDE DEF A, B, x, y
  <2>2. Utf16ToCp(s, le) = Step(x, 2)
    BY <1>5, <2>1, Zenon
  <2> QED
    BY <1>6, <2>2, SMTT(60)
<1>7. CASE w = 4 /\ c >= 65536 /\ x = High(c) /\ z = Low(c)
  <2>1. /\ x \in Nat /\ x >= 55296 /\ x <= 56319 /\ z \in Nat /\ z >= 56320 /\ z <= 57343 /\ y = c
    BY <1>1, <1>7, SurrogatesOf, SMTT(60)
  <2>2. Len(s) >= 4 /\ ~A /\ B
    <3>1. x \in Surrogates
      BY <2>1, SMTT(60) DEF Surrogates
    <3>2. x \in 55296..56319 /\ z \in 56320..57343
      BY <2>1, RangeMeans, SMTT(60)
    <3>3. Len(s) >= 4
      BY <1>2, <1>4, <1>7
    <3> QED
      BY <3>1, <3>2, <3>3, SMTT(60)
  <2>3. y = c
    BY <2>1
  <2> HIDE DEF A, B, x, y
  <2>4. Utf16ToCp(s, le) = Step(y, 4)
    BY <1>5, <2>2, Zenon
  <2> QED
    BY <1>7, <2>3, <2>4, SMT
<1> QED
  BY <1>3, <1>6, <1>7, SMT DEF SpellsUnits

\* The four bytes of a code point.
LEMMA FourWritten ==
  ASSUME NEW c \in Nat, c < CodePointEnd
  PROVE  \E a, b, d : /\ IsByte(a) /\ IsByte(b) /\ IsByte(d)
                      /\ FourBytes(c) = <<0, a, b, d>> /\ c = 65536 * a + 256 * b + d
<1> DEFINE e == c \div 256
           a == c \div 65536
           b == e % 256
           d == c % 256
<1>1. e \in Nat /\ d \in Nat /\ d <= 255 /\ c = 256 * e + d
  BY SMT
<1>2. a = e \div 256
  BY SMT
<1>3. c \div 16777216 = 0
  BY SMT DEF CodePointEnd
<1>4. a \in Nat /\ a <= 255
  BY SMT DEF CodePointEnd
<1>5. a % 256 = a
  <2> HIDE DEF a
  <2> QED
    BY <1>4, SMT
<1>6. FourBytes(c) = <<0, a, b, d>>
  BY <1>3, <1>5, SMT DEF FourBytes
<1> HIDE DEF e
<1>7. e = 256 * a + b /\ b \in Nat /\ b <= 255
  <2>1. e = 256 * (e \div 256) + (e % 256) /\ e % 256 \in Nat /\ e % 256 <= 255
    BY <1>1, SMT
  <2> HIDE DEF a
  <2> QED
    BY <1>2, <2>1, SMT
<1> HIDE DEF a, b, d
<1>8. c = 65536 * a + 256 * b + d
  <2> HIDE DEF a, b, d
  <2>1. c = 256 * (256 * a + b) + d
    BY <1>1, <1>7
  <2> QED
    BY <1>4, <1>7, <1>1, <2>1, SMT
<1>9. IsByte(a) /\ IsByte(b) /\ IsByte(d)
  BY <1>1, <1>4, <1>7, ByteMeans
<1> QED
  BY <1>6, <1>8, <1>9, SMT

\* What UTF-32 writes is read back.
LEMMA Utf32Forth ==
  ASSUME NEW n \in 1..4, NEW s, LongAs(s, n), NEW c, IsUnicode(c), NEW le \in BOOLEAN,
         NEW w \in 1..n, Opens(s, Utf32Bytes(c, le), w)
  PROVE  Utf32ToCp(s, le) = Step(c, w)
<1> DEFINE digits == IF le THEN Reverse(s) ELSE s
           cp == 65536 * digits[2] + 256 * digits[3] + digits[4]
           good == Len(s) = 4 /\ digits[1] = 0 /\ IsUnicode(cp)
<1>1. c \in Nat /\ c < CodePointEnd /\ w \in Nat
  BY UnicodeMeans
<1>2. PICK a, b, d : /\ IsByte(a) /\ IsByte(b) /\ IsByte(d)
                     /\ FourBytes(c) = <<0, a, b, d>> /\ c = 65536 * a + 256 * b + d
  BY <1>1, FourWritten
<1>3. Utf32ToCp(s, le) = IF good THEN Step(cp, 4) ELSE NoCode
  BY SMT DEF Utf32ToCp
<1>4. w = 4 /\ digits = <<0, a, b, d>>
  <2>1. CASE le = TRUE
    <3>1. Utf32Bytes(c, le) = <<d, b, a, 0>>
      BY <1>2, <2>1, ReverseFew, SMT DEF Utf32Bytes
    <3>2. w = 4 /\ s[1] = d /\ s[2] = b /\ s[3] = a /\ s[4] = 0
      BY <1>1, <3>1, OpensWith, SMT
    <3>3. s = <<d, b, a, 0>>
      <4>1. n = 4
        BY <3>2, SMT
      <4> QED
        BY <3>2, <4>1, FewElements, SMT
    <3>4. Reverse(s) = <<0, a, b, d>>
      BY <3>3, ReverseFew, SMT
    <3> QED
      BY <2>1, <3>2, <3>4, SMT
  <2>2. CASE le = FALSE
    <3>1. Utf32Bytes(c, le) = <<0, a, b, d>>
      BY <1>2, <2>2, SMT DEF Utf32Bytes
    <3>2. w = 4 /\ s[1] = 0 /\ s[2] = a /\ s[3] = b /\ s[4] = d
      BY <1>1, <3>1, OpensWith, SMT
    <3>3. s = <<0, a, b, d>>
      <4>1. n = 4
        BY <3>2, SMT
      <4> QED
        BY <3>2, <4>1, FewElements, SMT
    <3> QED
      BY <2>2, <3>2, <3>3, SMT
  <2> QED
    BY <2>1, <2>2
<1>5. Len(s) = 4
  <2>1. n = 4 /\ Len(s) = n
    BY <1>4, SMT DEF LongAs
  <2> QED
    BY <2>1
<1> HIDE DEF digits
<1>6. cp = c /\ digits[1] = 0
  BY <1>2, <1>4, SMT
<1> HIDE DEF cp
<1>7. good
  BY <1>5, <1>6
<1> HIDE DEF good
<1> QED
  BY <1>3, <1>4, <1>6, <1>7

\* A code is one to four bytes.
ByteCode(s) == \E w \in 1..4 : ByteSeq(s, w)

\* A tuple of bytes.
LEMMA BytesLong ==
  /\ \A a : IsByte(a) => ByteCode(<<a>>)
  /\ \A a, b : IsByte(a) /\ IsByte(b) => ByteCode(<<a, b>>)
  /\ \A a, b, c : IsByte(a) /\ IsByte(b) /\ IsByte(c) => ByteCode(<<a, b, c>>)
  /\ \A a, b, c, d : IsByte(a) /\ IsByte(b) /\ IsByte(c) /\ IsByte(d) => ByteCode(<<a, b, c, d>>)
<1>1. ASSUME NEW a, IsByte(a) PROVE ByteCode(<<a>>)
  <2>1. \A k \in 1..1 : <<a>>[k] \in 0..255
    BY <1>1, SMT DEF IsByte
  <2>2. ByteSeq(<<a>>, 1)
    BY <2>1, TupleLong DEF ByteSeq
  <2> QED
    BY <2>2 DEF ByteCode
<1>2. ASSUME NEW a, IsByte(a), NEW b, IsByte(b) PROVE ByteCode(<<a, b>>)
  <2>1. \A k \in 1..2 : <<a, b>>[k] \in 0..255
    BY <1>2, SMTT(60) DEF IsByte
  <2>2. ByteSeq(<<a, b>>, 2)
    BY <2>1, TupleLong DEF ByteSeq
  <2> QED
    BY <2>2 DEF ByteCode
<1>3. ASSUME NEW a, IsByte(a), NEW b, IsByte(b), NEW c, IsByte(c) PROVE ByteCode(<<a, b, c>>)
  <2>1. \A k \in 1..3 : <<a, b, c>>[k] \in 0..255
    BY <1>3, SMTT(60) DEF IsByte
  <2>2. ByteSeq(<<a, b, c>>, 3)
    BY <2>1, TupleLong DEF ByteSeq
  <2> QED
    BY <2>2 DEF ByteCode
<1>4. ASSUME NEW a, IsByte(a), NEW b, IsByte(b), NEW c, IsByte(c), NEW d, IsByte(d)
      PROVE  ByteCode(<<a, b, c, d>>)
  <2>1. \A k \in 1..4 : <<a, b, c, d>>[k] \in 0..255
    BY <1>4, SMTT(60) DEF IsByte
  <2>2. ByteSeq(<<a, b, c, d>>, 4)
    BY <2>1, TupleLong DEF ByteSeq
  <2> QED
    BY <2>2 DEF ByteCode
<1> QED
  BY <1>1, <1>2, <1>3, <1>4

\* What UTF-8 writes is bytes, ...
LEMMA Utf8IsBytes == ASSUME NEW c, IsUnicode(c) PROVE ByteCode(Utf8Bytes(c))
<1>1. c \in Nat /\ c < CodePointEnd /\ Utf8Shape(c)
  BY UnicodeMeans, Utf8Written
<1>2. \A x \in Nat : IsByte(Continuation(x))
  <2> SUFFICES ASSUME NEW x \in Nat PROVE IsByte(Continuation(x))
    OBVIOUS
  <2>1. x % 64 \in Nat /\ x % 64 <= 63
    BY SMT
  <2>2. Continuation(x) \in Nat /\ Continuation(x) <= 255
    BY <2>1 DEF Continuation
  <2> QED
    BY <2>2, ByteMeans
<1>3. CASE c < 128
  <2>1. Utf8Bytes(c) = <<c>> /\ IsByte(c)
    BY <1>1, <1>3, ByteMeans DEF Utf8Shape
  <2> QED
    BY <2>1, BytesLong
<1>4. CASE c >= 128 /\ c <= 2047
  <2>1. Utf8Bytes(c) = <<192 + c \div 64, Continuation(c)>>
    BY <1>1, <1>4 DEF Utf8Shape
  <2>2. IsByte(192 + c \div 64) /\ IsByte(Continuation(c))
    <3>1. c \div 64 \in Nat /\ c \div 64 <= 31
      BY <1>1, <1>4
    <3>2. 192 + c \div 64 \in Nat /\ 192 + c \div 64 <= 255
      BY <3>1
    <3> QED
      BY <1>1, <1>2, <3>2, ByteMeans
  <2> QED
    BY <2>1, <2>2, BytesLong
<1>5. CASE c >= 2048 /\ c <= 65535
  <2>1. Utf8Bytes(c) = <<224 + c \div 4096, Continuation(c \div 64), Continuation(c)>>
    BY <1>1, <1>5, SMT DEF Utf8Shape
  <2>2. IsByte(224 + c \div 4096) /\ IsByte(Continuation(c \div 64)) /\ IsByte(Continuation(c))
    <3>1. c \div 64 \in Nat /\ c \div 4096 \in Nat /\ c \div 4096 <= 15
      BY <1>1, <1>5, SMT
    <3>2. 224 + c \div 4096 \in Nat /\ 224 + c \div 4096 <= 255
      BY <3>1, SMT
    <3> QED
      BY <1>1, <1>2, <3>1, <3>2, ByteMeans, SMT
  <2> QED
    BY <2>1, <2>2, BytesLong, SMT
<1>6. CASE c > 65535
  <2>1. Utf8Bytes(c) = <<240 + c \div 262144, Continuation(c \div 4096), Continuation(c \div 64),
                         Continuation(c)>>
    BY <1>1, <1>6, SMT DEF Utf8Shape
  <2>2. /\ IsByte(240 + c \div 262144) /\ IsByte(Continuation(c \div 4096))
        /\ IsByte(Continuation(c \div 64)) /\ IsByte(Continuation(c))
    <3>1. /\ c \div 64 \in Nat /\ c \div 4096 \in Nat
          /\ c \div 262144 \in Nat /\ c \div 262144 <= 4
      BY <1>1, <1>6, SMT DEF CodePointEnd
    <3>2. 240 + c \div 262144 \in Nat /\ 240 + c \div 262144 <= 255
      BY <3>1, SMT
    <3> QED
      BY <1>1, <1>2, <3>1, <3>2, ByteMeans, SMT
  <2> QED
    BY <2>1, <2>2, BytesLong, SMT
<1> QED
  BY <1>1, <1>3, <1>4, <1>5, <1>6, SMT

\* ... what UTF-16 writes ...
LEMMA Utf16IsBytes ==
  ASSUME NEW c, IsUnicode(c), NEW le \in BOOLEAN
  PROVE  ByteCode(Utf16Bytes(c, le))
<1>1. c \in Nat /\ c < CodePointEnd /\ Utf16Shape(c, le)
  BY UnicodeMeans, Utf16Written
<1>2. CASE c < 65536
  <2>1. PICK a, b : IsByte(a) /\ IsByte(b) /\ UnitOf(c, le, a, b)
    BY <1>1, <1>2, UnitWritten, SMT DEF HasUnit, InTwoBytes
  <2>2. Utf16Bytes(c, le) = <<a, b>>
    BY <1>1, <1>2, <2>1, SMT DEF Utf16Shape, UnitOf
  <2> QED
    BY <2>1, <2>2, BytesLong
<1>3. CASE c >= 65536
  <2>0. High(c) \in Nat /\ High(c) < 65536 /\ Low(c) \in Nat /\ Low(c) < 65536
    BY <1>1, <1>3, SurrogatesOf, SMT
  <2>1. PICK a, b : IsByte(a) /\ IsByte(b) /\ UnitOf(High(c), le, a, b)
    BY <2>0, UnitWritten, SMT DEF HasUnit, InTwoBytes
  <2>2. PICK d, e : IsByte(d) /\ IsByte(e) /\ UnitOf(Low(c), le, d, e)
    BY <2>0, UnitWritten, SMT DEF HasUnit, InTwoBytes
  <2>3. Utf16Bytes(c, le) = <<a, b>> \o <<d, e>>
    BY <1>1, <1>3, <2>1, <2>2, SMT DEF Utf16Shape, UnitOf
  <2>4. Utf16Bytes(c, le) = <<a, b, d, e>>
    BY <2>3, TwoAndTwo, SMT
  <2> QED
    BY <2>1, <2>2, <2>4, BytesLong, SMT
<1> QED
  BY <1>1, <1>2, <1>3, SMT

\* ... and what UTF-32 writes.
LEMMA Utf32IsBytes ==
  ASSUME NEW c, IsUnicode(c), NEW le \in BOOLEAN
  PROVE  ByteCode(Utf32Bytes(c, le))
<1>1. c \in Nat /\ c < CodePointEnd
  BY UnicodeMeans
<1>2. PICK a, b, d : /\ IsByte(a) /\ IsByte(b) /\ IsByte(d)
                     /\ FourBytes(c) = <<0, a, b, d>> /\ c = 65536 * a + 256 * b + d
  BY <1>1, FourWritten
<1>3. Utf32Bytes(c, le) = <<d, b, a, 0>> \/ Utf32Bytes(c, le) = <<0, a, b, d>>
  BY <1>2, ReverseFew, SMT DEF Utf32Bytes
<1>4. IsByte(0)
  BY ByteMeans
<1> QED
  BY <1>2, <1>3, <1>4, BytesLong, SMT

\* Every character of an encoding has a code of one to four bytes.
LEMMA CodeIsBytes ==
  ASSUME NEW encoding \in Encodings, NEW c, IsChar(encoding, c)
  PROVE  ByteCode(BytesOf(encoding, c))
<1>1. CASE encoding = "ASCII"
  <2>1. BytesOf(encoding, c) = <<c>> /\ c \in 0..127
    BY <1>1 DEF BytesOf, IsChar
  <2>2. IsByte(c)
    BY <2>1, ByteMeans
  <2> QED
    BY <2>1, <2>2, BytesLong
<1>2. CASE encoding # "ASCII"
  <2>1. IsUnicode(c)
    BY <1>2 DEF IsChar
  <2>2. \/ BytesOf(encoding, c) = Utf8Bytes(c)
        \/ \E le \in BOOLEAN : BytesOf(encoding, c) = Utf16Bytes(c, le)
        \/ \E le \in BOOLEAN : BytesOf(encoding, c) = Utf32Bytes(c, le)
    BY <1>2 DEF BytesOf, Encodings
  <2> QED
    BY <2>1, <2>2, Utf8IsBytes, Utf16IsBytes, Utf32IsBytes
<1> QED
  BY <1>1, <1>2

\* What an encoder writes is read back by the decoder of the same name, whatever follows it:
\* with CodeReads, a decoder is the inverse of the encoder and of nothing else.
THEOREM CodeForth ==
  ASSUME NEW encoding \in Encodings, NEW n \in 1..4, NEW s, LongAs(s, n), NEW c, IsChar(encoding, c),
         NEW w \in 1..n, Opens(s, BytesOf(encoding, c), w)
  PROVE  CodeAt(encoding, s) = Step(c, w)
<1>1. CASE encoding = "ASCII"
  <2>1. BytesOf(encoding, c) = <<c>> /\ c \in 0..127
    BY <1>1 DEF BytesOf, IsChar
  <2>2. w = 1 /\ s[1] = c
    BY <2>1, OpensWith
  <2>3. CodeAt(encoding, s) = IF s[1] < 128 THEN Step(s[1], 1) ELSE NoCode
    BY <1>1 DEF CodeAt
  <2> QED
    BY <2>1, <2>2, <2>3
<1>2. CASE encoding # "ASCII"
  <2>1. IsUnicode(c)
    BY <1>2 DEF IsChar
  <2>2. \/ BytesOf(encoding, c) = Utf8Bytes(c) /\ CodeAt(encoding, s) = Utf8ToCp(s)
        \/ \E le \in BOOLEAN : BytesOf(encoding, c) = Utf16Bytes(c, le) /\ CodeAt(encoding, s) = Utf16ToCp(s, le)
        \/ \E le \in BOOLEAN : BytesOf(encoding, c) = Utf32Bytes(c, le) /\ CodeAt(encoding, s) = Utf32ToCp(s, le)
    BY <1>2 DEF BytesOf, CodeAt, Encodings
  <2> QED
    BY <2>1, <2>2, Utf8Forth, Utf16Forth, Utf32Forth
<1> QED
  BY <1>1, <1>2

-----------------------------------------------------------------------------
(* Transforms undone, and a text written code by code: read item by item,  *)
(* it is the text.                                                         *)

\* The bytes that the encoding has for a character of a chain.
Plainly(chain, c) == BytesOf(chain.encoding, Rotated(chain.rot, c))

\* The code of a character in a chain is w bytes, and undone it is what the encoding has.
CodeOf(chain, c, w) ==
  /\ LongAs(Plainly(chain, c), w) /\ LongAs(CodeIn(chain, c), w)
  /\ \A k \in 1..w : /\ CodeIn(chain, c)[k] \in 0..255
                     /\ Undone(chain, CodeIn(chain, c)[k]) = Plainly(chain, c)[k]

\* Every character has a code.
LEMMA CharHasCode ==
  ASSUME NEW chain, KnownChain(chain), NEW c, IsChar(chain.encoding, c)
  PROVE  \E w \in 1..4 : CodeOf(chain, c, w)
<1> DEFINE s == Plainly(chain, c)
           u == CodeIn(chain, c)
<1>1. IsChar(chain.encoding, Rotated(chain.rot, c))
  <2>1. \A r \in 0..25 : r \in 0..26
    OBVIOUS
  <2> QED
    BY <2>1, RotatedIsChar DEF KnownChain
<1>2. ByteCode(s)
  BY <1>1, CodeIsBytes DEF KnownChain, Plainly
<1>3. PICK w \in 1..4 : ByteSeq(s, w)
  BY <1>2 DEF ByteCode
<1>4. u = Passed(chain, s)
  BY DEF CodeIn, Plainly
<1> HIDE DEF s, u
<1>5. LongAs(s, w) /\ DOMAIN s = 1..w /\ s = [k \in 1..w |-> s[k]] /\ \A k \in 1..w : s[k] \in 0..255
  <2>1. w \in Nat
    BY SMTT(60)
  <2> QED
    BY <1>3, <2>1, SequenceMeans DEF ByteSeq
<1> DEFINE S == 0..255
<1>6. CASE chain.bytes = "OCE"
  <2>1. u = [k \in 1..w |-> OCE[s[k]]]
    BY <1>4, <1>5, <1>6 DEF Passed
  <2>2. \A b \in S : OCE[b] \in S /\ unOCE[OCE[b]] = b
    BY TablesInvert, ZenonT(60) DEF S
  <2>3. LongAs(u, w)
    <3>1. w \in Nat /\ u = [k \in 1..w |-> u[k]]
      BY <2>1
    <3> QED
      BY <3>1, SequenceMeans
  <2>4. \A k \in 1..w : s[k] \in S
    BY <1>5
  <2> HIDE DEF S
  <2>5. \A k \in 1..w : u[k] \in S /\ Undone(chain, u[k]) = s[k]
    BY <1>6, <2>1, <2>2, <2>4 DEF Undone
  <2> QED
    BY <1>5, <2>3, <2>5 DEF CodeOf, S, s, u
<1>7. CASE chain.bytes # "OCE"
  <2>1. u = s
    BY <1>4, <1>7 DEF Passed
  <2>2. \A k \in 1..w : Undone(chain, u[k]) = s[k]
    BY <1>7, <2>1 DEF Undone
  <2> QED
    BY <1>5, <2>1, <2>2, ZenonT(60) DEF CodeOf, s, u
<1> QED
  BY <1>6, <1>7

\* The code of c, of w bytes, lies in the buffer behind its first p bytes.
Spelled(chain, buffer, p, c, w) ==
  IsChar(chain.encoding, c) /\ LongAs(CodeIn(chain, c), w) /\ \A k \in 1..w : buffer[p + k] = CodeIn(chain, c)[k]

\* A code that lies there is read there, as its character.
LEMMA ItemForth ==
  ASSUME NEW chain, KnownChain(chain), NEW buffer \in Seq(0..255),
         NEW to \in 0..Len(buffer), NEW p \in 0..to - 1,
         NEW c, NEW w \in 1..to - p, Spelled(chain, buffer, p, c, w)
  PROVE  ItemAt(chain, buffer, p, to) = Item(c, p) /\ Width(chain, buffer, p, to) = w
<1> DEFINE s == Ahead(chain, buffer, p, to)
           step == StepAt(chain, buffer, p, to)
           u == Plainly(chain, c)
           x == CodeIn(chain, c)
<1>0. Len(buffer) \in Nat /\ w \in Nat
  BY LenProperties
<1>1. PICK n \in 1..4 : /\ ByteSeq(s, n) /\ n <= to - p /\ (n = 4 \/ n = to - p)
                        /\ \A k \in 1..n : s[k] = Undone(chain, buffer[p + k])
  BY AheadIsBytes
<1>2. step = CodeAt(chain.encoding, s)
  BY DEF StepAt
<1>3. IsChar(chain.encoding, c) /\ LongAs(x, w) /\ \A k \in 1..w : buffer[p + k] = x[k]
  BY DEF Spelled
<1>4. w \in 1..4 /\ LongAs(u, w) /\ \A k \in 1..w : Undone(chain, x[k]) = u[k]
  <2>1. PICK m \in 1..4 : CodeOf(chain, c, m)
    BY <1>3, CharHasCode
  <2>2. m = w
    BY <1>3, <2>1 DEF CodeOf, LongAs
  <2> QED
    BY <2>1, <2>2 DEF CodeOf
<1>5. w \in 1..n /\ \A k \in 1..w : k \in 1..n
  BY <1>0, <1>1, <1>4
<1>6. \A k \in 1..w : s[k] = u[k]
  BY <1>1, <1>3, <1>4, <1>5
<1>7. IsChar(chain.encoding, Rotated(chain.rot, c)) /\ u = BytesOf(chain.encoding, Rotated(chain.rot, c))
  <2>1. \A r \in 0..25 : r \in 0..26
    OBVIOUS
  <2> QED
    BY <1>3, <2>1, RotatedIsChar DEF KnownChain, Plainly
<1> HIDE DEF s, step, u, x
<1> DEFINE z == Rotated(chain.rot, c)
<1>8. Unrotated(chain.rot, z) = c
  BY RotatedBack DEF KnownChain
<1> HIDE DEF z
<1>9. step = Step(z, w)
  <2>1. chain.encoding \in Encodings
    BY DEF KnownChain
  <2>2. LongAs(s, n)
    BY <1>1 DEF ByteSeq
  <2>3. Opens(s, BytesOf(chain.encoding, z), w)
    BY <1>4, <1>6, <1>7 DEF Opens, z
  <2>4. IsChar(chain.encoding, z)
    BY <1>7 DEF z
  <2> QED
    BY <1>2, <1>5, <2>1, <2>2, <2>3, <2>4, CodeForth
<1>10. step.used = w /\ step.val = z
  BY <1>9 DEF Step
<1> QED
  BY <1>4, <1>8, <1>10 DEF ItemAt, Width, step

\* The codes of n characters lie in the buffer, from each place of P to the next, up to to at
\* most.
Lies(chain, buffer, v, P, n, to) ==
  /\ \A k \in 0..n : P[k] \in 0..to
  /\ \A k \in 1..n : P[k - 1] < P[k] /\ Spelled(chain, buffer, P[k - 1], v[k], P[k] - P[k - 1])

\* s is the items of those characters but for the first k, and of what there is behind them.
ReadOut(s, v, P, n, k, to) ==
  /\ \E l \in Nat : LongAs(s, l) /\ l >= n - k /\ (P[n] = to => l = n - k)
  /\ \A j \in 1..n - k : s[j] = Item(v[k + j], P[k + j - 1])

\* One more character in front is one more item in front.
LEMMA ReadOutMore ==
  ASSUME NEW chain, KnownChain(chain), NEW buffer \in Seq(0..255), NEW to \in 0..Len(buffer),
         NEW v, NEW P, NEW n \in Nat, Lies(chain, buffer, v, P, n, to), NEW k \in 0..n - 1,
         ReadOut(Items(chain, buffer, P[k + 1], to), v, P, n, k + 1, to)
  PROVE  ReadOut(Items(chain, buffer, P[k], to), v, P, n, k, to)
<1> DEFINE p == P[k]
           q == P[k + 1]
           c == v[k + 1]
           r == Items(chain, buffer, q, to)
           s == Items(chain, buffer, p, to)
           m == n - (k + 1)
<1>0. to \in Nat /\ chain.encoding \in Encodings
  BY LenProperties DEF KnownChain
<1>1. p \in 0..to /\ q \in 0..to /\ p < q /\ Spelled(chain, buffer, p, c, q - p)
  <2>1. k + 1 \in 1..n /\ k \in 0..n /\ k + 1 \in 0..n /\ (k + 1) - 1 = k
    OBVIOUS
  <2> QED
    BY <2>1 DEF Lies
<1>2. /\ \E i \in Nat : LongAs(r, i) /\ i >= m /\ (P[n] = to => i = m)
      /\ \A j \in 1..m : r[j] = Item(v[(k + 1) + j], P[(k + 1) + j - 1])
  BY DEF ReadOut
<1>l. PICK l \in Nat : LongAs(r, l) /\ l >= m /\ (P[n] = to => l = m)
  BY <1>2
<1> HIDE DEF p, q, c
<1>3. p \in 0..to - 1 /\ q - p \in 1..to - p /\ p # to /\ p + (q - p) = q
  BY <1>0, <1>1
<1>4. ItemAt(chain, buffer, p, to) = Item(c, p) /\ Width(chain, buffer, p, to) = q - p
  <2> DEFINE w == q - p
  <2> HIDE DEF w
  <2>1. Spelled(chain, buffer, p, c, w) /\ w \in 1..to - p
    BY <1>1, <1>3 DEF w
  <2>2. ItemAt(chain, buffer, p, to) = Item(c, p) /\ Width(chain, buffer, p, to) = w
    BY <1>3, <2>1, ItemForth
  <2> QED
    BY <2>2 DEF w
<1>5. s = <<Item(c, p)>> \o r
  <2>1. s = IF p = to THEN <<>>
            ELSE <<ItemAt(chain, buffer, p, to)>> \o Items(chain, buffer, p + Width(chain, buffer, p, to), to)
    BY <1>0, <1>1, ItemsUnfold
  <2> QED
    BY <1>3, <1>4, <2>1, SMTT(60)
<1> HIDE DEF r, s
<1>6. m \in Nat /\ 1 + m = n - k
  OBVIOUS
<1> DEFINE x == Item(c, p)
<1> HIDE DEF x, m
<1>7. Joins(s, <<x>>, 1, r, l)
  <2>1. LongAs(<<x>>, 1)
    BY OneElement
  <2>2. Joins(<<x>> \o r, <<x>>, 1, r, l)
    BY <1>l, <2>1, JoinSequences
  <2> QED
    BY <1>5, <2>2 DEF x
<1>8. LongAs(s, 1 + l) /\ s[1] = x /\ \A j \in 1..m : s[1 + j] = r[j]
  <2>1. 1 \in 1..1 /\ <<x>>[1] = x /\ \A j \in 1..m : j \in 1..l
    BY <1>6, <1>l, OneElement
  <2> QED
    BY <1>7, <2>1 DEF Joins
<1>9. ASSUME NEW j \in 1..n - k PROVE s[j] = Item(v[k + j], P[k + j - 1])
  <2>1. CASE j = 1
    <3>1. k + 1 - 1 = k
      OBVIOUS
    <3> QED
      BY <1>8, <2>1, <3>1 DEF x, c, p
  <2>2. CASE j # 1
    <3>1. j - 1 \in 1..m /\ 1 + (j - 1) = j /\ (k + 1) + (j - 1) = k + j
      BY <1>6, <2>2 DEF m
    <3>2. s[j] = r[j - 1]
      BY <1>8, <3>1
    <3> QED
      BY <1>2, <3>1, <3>2 DEF m
  <2> QED
    BY <2>1, <2>2
<1>10. 1 + l \in Nat /\ 1 + l >= n - k /\ (P[n] = to => 1 + l = n - k)
  BY <1>6, <1>l
<1> QED
  BY <1>8, <1>9, <1>10 DEF ReadOut, s, p

\* Text that lies in a range is read out again, from any of its characters on.
LEMMA ItemsForth ==
  ASSUME NEW chain, KnownChain(chain), NEW buffer \in Seq(0..255), NEW to \in 0..Len(buffer),
         NEW v, NEW P, NEW n \in Nat, Lies(chain, buffer, v, P, n, to)
  PROVE  \A k \in 0..n : ReadOut(Items(chain, buffer, P[k], to), v, P, n, k, to)
<1> DEFINE Q(k) == ReadOut(Items(chain, buffer, P[k], to), v, P, n, k, to)
           T == {m \in Nat : m <= n => Q(n - m)}
<1>1. 0 \in T
  <2> DEFINE p == P[n]
             s == Items(chain, buffer, p, to)
  <2>1. n - 0 = n /\ n - n = 0 /\ n \in 0..n /\ to \in Nat /\ chain.encoding \in Encodings
    BY LenProperties DEF KnownChain
  <2>2. p \in 0..to
    BY <2>1 DEF Lies
  <2>3. PICK l \in 0..to - p : ItemsFrom(AllItems(chain, buffer, to)[p], l, AllItems(chain, buffer, to), p, to)
    BY <2>1, <2>2, ItemsShape, SMTT(60)
  <2>4. LongAs(s, l) /\ l \in Nat /\ (p = to => l = 0)
    BY <2>1, <2>2, <2>3 DEF ItemsFrom, AllItems
  <2> HIDE DEF s
  <2>5. l >= n - n /\ (P[n] = to => l = n - n) /\ \A j \in 1..n - n : FALSE
    BY <2>1, <2>4
  <2>6. ReadOut(s, v, P, n, n, to)
    BY <2>4, <2>5 DEF ReadOut
  <2>7. Q(n)
    BY <2>6 DEF s
  <2> HIDE DEF Q
  <2> QED
    BY <2>1, <2>7
<1>2. ASSUME NEW m \in T PROVE m + 1 \in T
  <2>1. m \in Nat /\ m + 1 \in Nat /\ (m <= n => Q(n - m))
    OBVIOUS
  <2>2. ASSUME m + 1 <= n PROVE Q(n - (m + 1))
    <3> DEFINE k == n - (m + 1)
    <3>1. k \in 0..n - 1 /\ k + 1 = n - m /\ m <= n
      BY <2>1, <2>2
    <3>2. Q(k + 1)
      BY <2>1, <3>1
    <3> HIDE DEF k
    <3>3. Q(k)
      BY <3>1, <3>2, ReadOutMore
    <3> QED
      BY <3>3 DEF k
  <2> HIDE DEF Q
  <2> QED
    BY <2>1, <2>2
<1>3. T \subseteq Nat
  OBVIOUS
<1> HIDE DEF T
<1>4. \A m \in Nat : m \in T
  BY <1>1, <1>2, <1>3, InductionOnNat
<1>5. ASSUME NEW k \in 0..n PROVE Q(k)
  <2>1. n - k \in Nat /\ n - k <= n /\ n - (n - k) = k
    OBVIOUS
  <2>2. n - k \in T
    BY <1>4, <2>1
  <2> HIDE DEF Q
  <2>3. Q(n - (n - k))
    BY <2>1, <2>2 DEF T
  <2> QED
    BY <2>1, <2>3
<1> QED
  BY <1>5

\* G gives the codes of n characters.
CodesOfText(chain, G, v, n) == \A k \in 1..n : IsChar(chain.encoding, v[k]) /\ G[k] = CodeIn(chain, v[k])

\* They are bytes.
LEMMA TextIsBytes ==
  ASSUME NEW chain, KnownChain(chain), NEW n \in Nat, NEW v, NEW G, CodesOfText(chain, G, v, n)
  PROVE  AllSeqs(G, 0..255, n) /\ \A k \in 1..n : Len(G[k]) >= 1 /\ Len(G[k]) <= 4
<1> SUFFICES ASSUME NEW k \in 1..n PROVE G[k] \in Seq(0..255) /\ Len(G[k]) >= 1 /\ Len(G[k]) <= 4
  BY DEF AllSeqs
<1>1. IsChar(chain.encoding, v[k]) /\ G[k] = CodeIn(chain, v[k])
  BY DEF CodesOfText
<1>2. PICK w \in 1..4 : CodeOf(chain, v[k], w)
  BY <1>1, CharHasCode, SMTT(60)
<1>3. LongAs(G[k], w) /\ \A j \in 1..w : G[k][j] \in 0..255
  BY <1>1, <1>2 DEF CodeOf
<1> DEFINE u == G[k]
           S == 0..255
<1>4. w \in Nat /\ w >= 1 /\ w <= 4
  OBVIOUS
<1>5. u = [j \in 1..w |-> u[j]] /\ Len(u) = w
  BY <1>3, <1>4, SequenceMeans DEF LongAs
<1>6. \A j \in 1..w : u[j] \in S
  BY <1>3
<1> HIDE DEF S, u
<1>7. u \in [1..w -> S]
  BY <1>5, <1>6
<1>8. u \in Seq(S)
  BY <1>4, <1>7, FunctionIsSeq
<1> QED
  BY <1>4, <1>5, <1>8 DEF S, u

\* The codes put end to end have their places, one behind the other.
Places(G, n, d) == [k \in 0..n |-> d + Len(First(G, k))]

\* So a text lies where its codes do.
LEMMA TextLies ==
  ASSUME NEW chain, KnownChain(chain), NEW buffer, NEW n \in Nat, NEW v, NEW G, CodesOfText(chain, G, v, n),
         NEW d \in Nat, \A i \in 1..Len(First(G, n)) : buffer[d + i] = First(G, n)[i]
  PROVE  Lies(chain, buffer, v, Places(G, n, d), n, d + Len(First(G, n)))
         /\ Places(G, n, d)[n] = d + Len(First(G, n))
<1> DEFINE S == 0..255
           F(k) == First(G, k)
           P == Places(G, n, d)
           to == d + Len(F(n))
<1>1. AllSeqs(G, S, n) /\ \A k \in 1..n : Len(G[k]) >= 1
  BY TextIsBytes
<1> HIDE DEF S
<1>2. \A k \in 0..n : F(k) \in Seq(S) /\ StartsWith(F(n), F(k))
  <2> SUFFICES ASSUME NEW k \in 0..n PROVE F(k) \in Seq(S) /\ StartsWith(F(n), F(k))
    OBVIOUS
  <2>1. k \in Nat /\ AllSeqs(G, S, k)
    BY <1>1 DEF AllSeqs
  <2>2. F(k) \in Seq(S)
    BY <2>1, FirstNext
  <2>3. StartsWith(F(n), F(k))
    BY <1>1, FirstStartsWith
  <2> QED
    BY <2>2, <2>3
<1>3. ASSUME NEW k \in 1..n
      PROVE  /\ Len(F(k)) = Len(F(k - 1)) + Len(G[k]) /\ Len(G[k]) \in Nat /\ G[k] \in Seq(S)
             /\ \A j \in 1..Len(G[k]) : F(k)[Len(F(k - 1)) + j] = G[k][j]
  <2> DEFINE m == k - 1
  <2>1. m \in Nat /\ m + 1 = k /\ AllSeqs(G, S, m) /\ G[k] \in Seq(S)
    BY <1>1 DEF AllSeqs
  <2>2. F(m) \in Seq(S) /\ F(m + 1) = F(m) \o G[m + 1]
    <3> HIDE DEF m
    <3> QED
      BY <2>1, FirstNext, SMTT(60)
  <2> DEFINE a == F(m)
             b == G[k]
  <2>3. F(k) = a \o b /\ a \in Seq(S) /\ b \in Seq(S)
    BY <2>1, <2>2
  <2> HIDE DEF a, b, F
  <2>4. LongAs(a, Len(a)) /\ LongAs(b, Len(b)) /\ Len(a) \in Nat /\ Len(b) \in Nat
    BY <2>3, SeqIsSequence, LenProperties DEF LongAs
  <2>5. Joins(a \o b, a, Len(a), b, Len(b))
    BY <2>4, JoinSequences
  <2>6. Len(F(k)) = Len(a) + Len(b) /\ \A j \in 1..Len(b) : F(k)[Len(a) + j] = b[j]
    BY <2>3, <2>5 DEF Joins, LongAs
  <2> QED
    BY <2>3, <2>4, <2>6 DEF a, b, m
<1> HIDE DEF F
<1>4. \A k \in 0..n : P[k] = d + Len(F(k)) /\ Len(F(k)) \in Nat /\ Len(F(k)) <= Len(F(n))
  BY <1>2, LenProperties DEF Places, StartsWith, F
<1>5. (\A k \in 0..n : P[k] \in 0..to) /\ P[n] = to
  <2>1. P = [k \in 0..n |-> d + Len(F(k))] /\ n \in 0..n
    BY DEF Places, F
  <2>2. \A k \in 0..n : d + Len(F(k)) \in 0..to
    BY <1>4, <2>1
  <2> HIDE DEF P
  <2> QED
    BY <1>4, <2>1, <2>2
<1>6. ASSUME NEW k \in 1..n PROVE P[k - 1] < P[k] /\ Spelled(chain, buffer, P[k - 1], v[k], P[k] - P[k - 1])
  <2> DEFINE w == Len(G[k])
             a == Len(F(k - 1))
  <2>1. k - 1 \in 0..n /\ k \in 0..n
    OBVIOUS
  <2>2. P[k - 1] = d + a /\ P[k] = d + Len(F(k)) /\ a \in Nat /\ Len(F(k)) \in Nat
    BY <1>4, <2>1
  <2>3. w >= 1 /\ w \in Nat /\ Len(F(k)) = a + w /\ \A j \in 1..w : F(k)[a + j] = G[k][j]
    BY <1>1, <1>3
  <2>4. LongAs(G[k], w)
    BY <1>3, SeqIsSequence DEF LongAs
  <2> HIDE DEF w, a, P
  <2>5. P[k - 1] < P[k] /\ P[k] - P[k - 1] = w
    BY <2>2, <2>3
  <2>6. \A j \in 1..w : buffer[P[k - 1] + j] = G[k][j]
    <3> SUFFICES ASSUME NEW j \in 1..w PROVE buffer[P[k - 1] + j] = G[k][j]
      OBVIOUS
    <3>1. a + j \in 1..Len(F(k)) /\ a + j \in 1..Len(F(n)) /\ P[k - 1] + j = d + (a + j)
      BY <1>4, <2>1, <2>2, <2>3
    <3>2. F(n)[a + j] = F(k)[a + j]
      BY <1>2, <2>1, <3>1 DEF StartsWith
    <3>3. buffer[d + (a + j)] = F(n)[a + j]
      BY <3>1 DEF F
    <3> QED
      BY <2>3, <3>1, <3>2, <3>3
  <2>7. IsChar(chain.encoding, v[k]) /\ G[k] = CodeIn(chain, v[k])
    BY DEF CodesOfText
  <2> QED
    BY <2>4, <2>5, <2>6, <2>7 DEF Spelled
<1> QED
  BY <1>5, <1>6 DEF Lies, F

-----------------------------------------------------------------------------
(* The context shown to a user (lg_hit_context): the items of the window   *)
(* written as UTF-8.                                                       *)

\* Text that lies in a range is what is read there.
LEMMA TextRead ==
  ASSUME NEW chain, KnownChain(chain), NEW buffer \in Seq(0..255), NEW n \in Nat, NEW v, NEW G,
         CodesOfText(chain, G, v, n), NEW d \in Nat, NEW to \in 0..Len(buffer), to = d + Len(First(G, n)),
         \A i \in 1..Len(First(G, n)) : buffer[d + i] = First(G, n)[i]
  PROVE  /\ LongAs(Items(chain, buffer, d, to), n)
         /\ \A k \in 1..n : Items(chain, buffer, d, to)[k].val = v[k]
<1> DEFINE P == Places(G, n, d)
           s == Items(chain, buffer, d, to)
<1>1. Lies(chain, buffer, v, P, n, to) /\ P[n] = to
  <2> HIDE DEF P
  <2>1. /\ Lies(chain, buffer, v, Places(G, n, d), n, d + Len(First(G, n)))
        /\ Places(G, n, d)[n] = d + Len(First(G, n))
    BY TextLies
  <2> QED
    BY <2>1 DEF P
<1>2. P[0] = d
  <2> DEFINE S == 0..255
  <2>1. 0 \in Nat /\ AllSeqs(G, S, 0)
    BY DEF AllSeqs
  <2> HIDE DEF S
  <2>2. First(G, 0) = <<>>
    BY <2>1, FirstNext
  <2>3. Len(<<>>) = 0 /\ 0 \in 0..n
    OBVIOUS
  <2> QED
    BY <2>2, <2>3 DEF Places
<1> HIDE DEF P
<1>3. ReadOut(s, v, P, n, 0, to)
  <2>1. \A k \in 0..n : ReadOut(Items(chain, buffer, P[k], to), v, P, n, k, to)
    BY <1>1, ItemsForth
  <2>2. 0 \in 0..n
    OBVIOUS
  <2> QED
    BY <1>2, <2>1, <2>2
<1> HIDE DEF s
<1>4. n - 0 = n /\ \A k \in 1..n : 0 + k = k
  OBVIOUS
<1>5. LongAs(s, n)
  BY <1>1, <1>3, <1>4 DEF ReadOut
<1>6. ASSUME NEW k \in 1..n PROVE s[k].val = v[k]
  <2>1. s[k] = Item(v[0 + k], P[0 + k - 1])
    BY <1>3, <1>4 DEF ReadOut
  <2> QED
    BY <1>4, <2>1 DEF Item
<1> QED
  BY <1>5, <1>6 DEF s
-----------------------------------------------------------------------------
\* No byte of s is zero.
NonZero(s) == \A k \in DOMAIN s : s[k] # 0

\* Of a tuple.
LEMMA TupleNonZero ==
  /\ \A a : a # 0 => NonZero(<<a>>)
  /\ \A a, b : a # 0 /\ b # 0 => NonZero(<<a, b>>)
  /\ \A a, b, c : a # 0 /\ b # 0 /\ c # 0 => NonZero(<<a, b, c>>)
  /\ \A a, b, c, d : a # 0 /\ b # 0 /\ c # 0 /\ d # 0 => NonZero(<<a, b, c, d>>)
  BY SMT DEF NonZero

\* UTF-8 has no zero but NUL.
LEMMA Utf8NonZero == ASSUME NEW c, IsUnicode(c), c # 0 PROVE NonZero(Utf8Bytes(c))
<1>1. c \in Nat /\ c < CodePointEnd /\ Utf8Shape(c)
  BY UnicodeMeans, Utf8Written
<1>2. \A x \in Nat : Continuation(x) # 0
  BY SMT DEF Continuation
<1>3. \A x, y \in Nat : y > 0 => y + x # 0
  OBVIOUS
<1>4. c \div 64 \in Nat /\ c \div 4096 \in Nat /\ c \div 262144 \in Nat
  BY <1>1, SMT
<1>5. 192 + c \div 64 # 0 /\ 224 + c \div 4096 # 0 /\ 240 + c \div 262144 # 0
  BY <1>4, SMT
<1>6. CASE c < 128
  <2>1. Utf8Bytes(c) = <<c>>
    BY <1>1, <1>6 DEF Utf8Shape
  <2> QED
    BY <2>1, TupleNonZero
<1>7. CASE c >= 128 /\ c <= 2047
  <2>1. Utf8Bytes(c) = <<192 + c \div 64, Continuation(c)>>
    BY <1>1, <1>7 DEF Utf8Shape
  <2> QED
    BY <1>1, <1>2, <1>5, <2>1, TupleNonZero
<1>8. CASE c >= 2048 /\ c <= 65535
  <2>1. Utf8Bytes(c) = <<224 + c \div 4096, Continuation(c \div 64), Continuation(c)>>
    BY <1>1, <1>8, SMT DEF Utf8Shape
  <2> QED
    BY <1>1, <1>2, <1>4, <1>5, <2>1, TupleNonZero, SMT
<1>9. CASE c > 65535
  <2>1. Utf8Bytes(c) = <<240 + c \div 262144, Continuation(c \div 4096), Continuation(c \div 64),
                         Continuation(c)>>
    BY <1>1, <1>9, SMT DEF Utf8Shape
  <2> QED
    BY <1>1, <1>2, <1>4, <1>5, <2>1, TupleNonZero, SMT
<1> QED
  BY <1>1, <1>6, <1>7, <1>8, <1>9, SMT

\* The chain that a context is shown in.
InUtf8 == Chain(0, "UTF-8", "identity")

\* Its codes are those of UTF-8.
LEMMA ShownChain ==
  /\ KnownChain(InUtf8) /\ \A c : IsChar(InUtf8.encoding, c) <=> IsUnicode(c)
  /\ \A c : CodeIn(InUtf8, c) = Utf8Bytes(c)
<1>1. InUtf8.rot = 0 /\ InUtf8.encoding = "UTF-8" /\ InUtf8.bytes = "identity"
  BY DEF InUtf8, Chain
<1> HIDE DEF InUtf8
<1>2. KnownChain(InUtf8)
  BY <1>1 DEF KnownChain, Encodings
<1>3. ASSUME NEW c PROVE IsChar(InUtf8.encoding, c) <=> IsUnicode(c)
  BY <1>1 DEF IsChar
<1>4. ASSUME NEW c PROVE CodeIn(InUtf8, c) = Utf8Bytes(c)
  <2>1. 0 \in 0..25
    OBVIOUS
  <2>2. Rotated(0, c) = c
    BY <2>1, RotatedBack
  <2>3. CodeIn(InUtf8, c) = BytesOf("UTF-8", Rotated(0, c))
    BY <1>1 DEF CodeIn, Passed
  <2>4. BytesOf("UTF-8", c) = Utf8Bytes(c)
    BY DEF BytesOf
  <2> QED
    BY <2>2, <2>3, <2>4
<1> QED
  BY <1>2, <1>3, <1>4

\* What is shown of the items behind the first from, up to to: the points, and the UTF-8.
Wanted(items, from, to, replacement) ==
  [k \in 1..to - from |-> IF items[from + k].val > 0 THEN items[from + k].val ELSE replacement]
AsUtf8(items, from, to, replacement) == CpRangeToUtf8(SubSeq(items, from + 1, to), replacement)

\* A code point that may be shown.
IsShown(c) == IsUnicode(c) /\ c # 0

\* The codes of some points in UTF-8; t is those, of points that may be shown.
Utf8Codes(v, n) == [k \in 1..n |-> Utf8Bytes(v[k])]
ShownAs(t, v, n) ==
  /\ CodesOfText(InUtf8, Utf8Codes(v, n), v, n) /\ t = First(Utf8Codes(v, n), n)
  /\ \A k \in 1..n : IsShown(v[k])

\* What is shown is the codes of what is wanted.
LEMMA ShownIsText ==
  ASSUME NEW a \in Nat, NEW items, LongAs(items, a), NEW from \in Nat, NEW to \in Nat, from <= to, to <= a,
         \A k \in 1..to - from : Known(items[from + k].val), NEW replacement, IsShown(replacement)
  PROVE  ShownAs(AsUtf8(items, from, to, replacement), Wanted(items, from, to, replacement), to - from)
<1> DEFINE v == Wanted(items, from, to, replacement)
           n == to - from
           G == [k \in 1..n |-> Utf8Bytes(v[k])]
           t == SubSeq(items, from + 1, to)
<1>1. n \in Nat
  OBVIOUS
<1>2. LongAs(t, n) /\ \A k \in 1..n : t[k] = items[from + k]
  BY PartOfSequence DEF IsPart
<1>3. DOMAIN t = 1..n
  BY <1>1, <1>2, SequenceMeans
<1> HIDE DEF t
<1>4. ASSUME NEW k \in 1..n
      PROVE  /\ v[k] = (IF t[k].val <= 0 THEN replacement ELSE t[k].val) /\ IsShown(v[k])
  <2> DEFINE x == items[from + k].val
  <2>1. v[k] = IF x > 0 THEN x ELSE replacement
    BY DEF Wanted
  <2>2. Known(x) /\ t[k].val = x
    BY <1>2
  <2> HIDE DEF x
  <2>3. x \in Int /\ (x >= 0 => IsUnicode(x))
    BY <2>2 DEF Known
  <2>4. CASE x > 0
    <3>1. ~(x <= 0) /\ x >= 0 /\ x # 0
      BY <2>3, <2>4
    <3> QED
      BY <2>1, <2>2, <2>3, <2>4, <3>1 DEF IsShown
  <2>5. CASE ~(x > 0)
    <3>1. x <= 0
      BY <2>3, <2>5
    <3> QED
      BY <2>1, <2>2, <2>5, <3>1
  <2> QED
    BY <2>4, <2>5
<1>5. CodesOfText(InUtf8, G, v, n)
  <2> SUFFICES ASSUME NEW k \in 1..n PROVE IsChar(InUtf8.encoding, v[k]) /\ G[k] = CodeIn(InUtf8, v[k])
    BY DEF CodesOfText
  <2>1. IsUnicode(v[k])
    BY <1>4 DEF IsShown
  <2>2. G[k] = Utf8Bytes(v[k])
    OBVIOUS
  <2> QED
    BY <2>1, <2>2, ShownChain
<1>6. AsUtf8(items, from, to, replacement) = First(G, n)
  <2> DEFINE g == [k \in DOMAIN t |-> CpToUtf8(IF t[k].val <= 0 THEN replacement ELSE t[k].val)]
             h == [k \in 1..n |-> G[k]]
  <2>1. AsUtf8(items, from, to, replacement) = FlattenSeq(g)
    BY DEF AsUtf8, CpRangeToUtf8, t
  <2>2. ASSUME NEW k \in 1..n PROVE g[k] = h[k]
    <3>1. g[k] = CpToUtf8(v[k])
      BY <1>3, <1>4
    <3>2. CpToUtf8(v[k]) = Utf8Bytes(v[k])
      BY <1>4 DEF CpToUtf8, IsShown
    <3> QED
      BY <3>1, <3>2
  <2>3. g = h
    <3>1. g = [k \in 1..n |-> g[k]] /\ h = [k \in 1..n |-> h[k]]
      BY <1>3
    <3> HIDE DEF g, h
    <3> QED
      BY <2>2, <3>1
  <2>4. First(G, n) = FlattenSeq(h)
    BY DEF First
  <2> QED
    BY <2>1, <2>3, <2>4
<1>7. G = Utf8Codes(v, n)
  BY DEF Utf8Codes
<1> HIDE DEF G, v, n
<1>8. ShownAs(AsUtf8(items, from, to, replacement), v, n)
  BY <1>4, <1>5, <1>6, <1>7 DEF ShownAs
<1> QED
  BY <1>8 DEF v, n

\* What is shown of some items is bytes, none of them zero.
LEMMA ShownIsBytes ==
  ASSUME NEW n \in Nat, NEW v, \A k \in 1..n : IsShown(v[k]), NEW G, CodesOfText(InUtf8, G, v, n)
  PROVE  First(G, n) \in Seq(0..255) /\ NonZero(First(G, n))
<1> DEFINE S == 0..255
           T == {b \in 0..255 : b # 0}
           t == First(G, n)
<1>1. AllSeqs(G, S, n)
  BY ShownChain, TextIsBytes
<1>2. AllSeqs(G, T, n)
  <2> SUFFICES ASSUME NEW k \in 1..n PROVE G[k] \in Seq(T)
    BY DEF AllSeqs
  <2> DEFINE u == G[k]
  <2>1. u \in Seq(S)
    BY <1>1 DEF AllSeqs
  <2>2. NonZero(u)
    <3>1. G[k] = Utf8Bytes(v[k]) /\ IsShown(v[k])
      BY ShownChain DEF CodesOfText
    <3> QED
      BY <3>1, Utf8NonZero DEF IsShown
  <2>3. T = {b \in S : b # 0}
    OBVIOUS
  <2> HIDE DEF S, T, u
  <2>4. Len(u) \in Nat /\ u \in [1..Len(u) -> S] /\ DOMAIN u = 1..Len(u)
    BY <2>1, LenProperties
  <2>5. u \in [1..Len(u) -> T]
    BY <2>2, <2>3, <2>4 DEF NonZero
  <2>6. u \in Seq(T)
    BY <2>4, <2>5, FunctionIsSeq
  <2> QED
    BY <2>6 DEF u
<1> HIDE DEF S, T
<1>3. t \in Seq(S) /\ t \in Seq(T)
  BY <1>1, <1>2, FirstNext
<1> HIDE DEF t
<1>4. NonZero(t)
  <2>1. \A k \in DOMAIN t : t[k] \in T
    BY <1>3, LenProperties, ElementOfSeq
  <2>2. \A b \in T : b # 0
    BY DEF T
  <2> QED
    BY <2>1, <2>2 DEF NonZero
<1> QED
  BY <1>3, <1>4 DEF S, t

\* What is read back of a range of UTF-8.
ReadBack(z, from, to) ==
  [k \in DOMAIN Items(InUtf8, z, from, to) |-> Items(InUtf8, z, from, to)[k].val]

\* t is bytes that are read back, wherever they lie, as what is wanted of some items.
GoesBack(t, items, from, to, replacement) ==
  /\ t \in Seq(0..255) /\ NonZero(t)
  /\ \A z \in Seq(0..255) : \A d \in Nat :
       d + Len(t) <= Len(z) /\ (\A i \in 1..Len(t) : z[d + i] = t[i])
         => ReadBack(z, d, d + Len(t)) = Wanted(items, from, to, replacement)

\* So are shown items.
LEMMA ShownReadBack ==
  ASSUME NEW a \in Nat, NEW items, LongAs(items, a), NEW from \in Nat, NEW to \in Nat, from <= to, to <= a,
         \A k \in 1..to - from : Known(items[from + k].val), NEW replacement, IsShown(replacement),
         NEW t, t = AsUtf8(items, from, to, replacement)
  PROVE  GoesBack(t, items, from, to, replacement)
<1> DEFINE n == to - from
           v == Wanted(items, from, to, replacement)
           G == Utf8Codes(v, n)
<1>0. n \in Nat
  OBVIOUS
<1>v. v = [k \in 1..n |-> v[k]]
  BY DEF Wanted
<1>1. CodesOfText(InUtf8, G, v, n) /\ (\A k \in 1..n : IsShown(v[k])) /\ t = First(G, n)
  <2>1. ShownAs(t, v, n)
    BY ShownIsText
  <2> QED
    BY <2>1 DEF ShownAs
<1> HIDE DEF v
<1> HIDE DEF G, n
<1>2. t \in Seq(0..255) /\ NonZero(t)
  BY <1>0, <1>1, ShownIsBytes, ZenonT(60)
<1>3. ASSUME NEW z \in Seq(0..255), NEW d \in Nat, d + Len(t) <= Len(z), \A i \in 1..Len(t) : z[d + i] = t[i]
      PROVE  ReadBack(z, d, d + Len(t)) = v
  <2> DEFINE e == d + Len(t)
             s == Items(InUtf8, z, d, e)
  <2>1. e \in 0..Len(z)
    BY <1>2, <1>3, LenProperties
  <2>2. LongAs(s, n) /\ \A k \in 1..n : s[k].val = v[k]
    <3>1. e = d + Len(First(G, n)) /\ \A i \in 1..Len(First(G, n)) : z[d + i] = First(G, n)[i]
      BY <1>1, <1>3
    <3>2. KnownChain(InUtf8) /\ CodesOfText(InUtf8, G, v, n)
      BY <1>1, ShownChain
    <3> HIDE DEF e, s
    <3>3. LongAs(Items(InUtf8, z, d, e), n) /\ \A k \in 1..n : Items(InUtf8, z, d, e)[k].val = v[k]
      BY <1>0, <2>1, <3>1, <3>2, TextRead, SMTT(60)
    <3> QED
      BY <3>3 DEF s
  <2> HIDE DEF s
  <2>3. DOMAIN s = 1..n
    BY <1>0, <2>2, SequenceMeans
  <2>4. ReadBack(z, d, e) = [k \in DOMAIN s |-> s[k].val]
    BY DEF ReadBack, s
  <2> QED
    BY <1>v, <2>2, <2>3, <2>4
<1> QED
  BY <1>2, <1>3 DEF v, GoesBack

\* Three sequences end to end, and a zero.
AndZero(s, t, u) == s \o t \o u \o <<0>>

\* z is three sequences of bytes and a zero.
EndedByZero(z, s, t, u, a, b, c) ==
  /\ z \in Seq(0..255) /\ Len(z) = a + b + c + 1 /\ a \in Nat /\ b \in Nat /\ c \in Nat
  /\ \A k \in 1..a : z[0 + k] = s[k]
  /\ \A k \in 1..b : z[a + k] = t[k]
  /\ \A k \in 1..c : z[a + b + k] = u[k]
  /\ z[a + b + c + 1] = 0

\* So they are end to end.
LEMMA ThreeAndZero ==
  ASSUME NEW s \in Seq(0..255), NEW t \in Seq(0..255), NEW u \in Seq(0..255),
         NEW a, NEW b, NEW c, a = Len(s), b = Len(t), c = Len(u), NEW z, z = AndZero(s, t, u)
  PROVE  EndedByZero(z, s, t, u, a, b, c)
<1> DEFINE S == 0..255
           e == <<0>>
           st == s \o t
           stu == st \o u
<1>1. e \in Seq(S) /\ Len(e) = 1 /\ e[1] = 0
  <2>1. 0 \in S
    OBVIOUS
  <2> HIDE DEF S
  <2> QED
    BY <2>1
<1> HIDE DEF S, e
<1>2. s \in Seq(S) /\ t \in Seq(S) /\ u \in Seq(S)
  BY DEF S
<1>3. a \in Nat /\ b \in Nat /\ c \in Nat
  BY <1>2, LenProperties
<1>4. st \in Seq(S) /\ Len(st) = a + b /\ (\A k \in 1..a : st[k] = s[k]) /\ \A k \in 1..b : st[a + k] = t[k]
  <2>1. st \in Seq(S)
    BY <1>2, ConcatProperties
  <2>2. Joins(st, s, a, t, b)
    BY <1>2, <1>3, SeqIsSequence, JoinSequences DEF LongAs
  <2> QED
    BY <2>1, <2>2 DEF Joins, LongAs
<1> HIDE DEF st
<1>5. /\ stu \in Seq(S) /\ Len(stu) = (a + b) + c
      /\ (\A k \in 1..a + b : stu[k] = st[k]) /\ \A k \in 1..c : stu[(a + b) + k] = u[k]
  <2>1. stu \in Seq(S)
    BY <1>2, <1>4, ConcatProperties
  <2>2. Joins(stu, st, a + b, u, c)
    <3>1. a + b \in Nat
      BY <1>3
    <3> QED
      BY <1>2, <1>3, <1>4, <3>1, SeqIsSequence, JoinSequences DEF LongAs
  <2> QED
    BY <2>1, <2>2 DEF Joins, LongAs
<1> HIDE DEF stu
<1>6. z = stu \o e
  BY DEF stu, st, e, AndZero
<1>7. /\ z \in Seq(S) /\ Len(z) = (a + b + c) + 1
      /\ (\A k \in 1..a + b + c : z[k] = stu[k]) /\ \A k \in 1..1 : z[(a + b + c) + k] = e[k]
  <2>1. z \in Seq(S)
    BY <1>1, <1>5, <1>6, ConcatProperties
  <2>2. Joins(z, stu, a + b + c, e, 1)
    <3>1. a + b + c \in Nat /\ 1 \in Nat
      BY <1>3
    <3>2. LongAs(stu, a + b + c) /\ LongAs(e, 1)
      BY <1>1, <1>5, SeqIsSequence DEF LongAs
    <3> QED
      BY <1>6, <3>1, <3>2, JoinSequences
  <2> QED
    BY <2>1, <2>2 DEF Joins, LongAs
<1>8. \A k \in 1..a : z[0 + k] = s[k]
  <2>1. \A k \in 1..a : 0 + k = k /\ k \in 1..a + b /\ k \in 1..a + b + c
    BY <1>3
  <2> QED
    BY <1>4, <1>5, <1>7, <2>1
<1>9. \A k \in 1..b : z[a + k] = t[k]
  <2>1. \A k \in 1..b : a + k \in 1..a + b /\ a + k \in 1..a + b + c
    BY <1>3
  <2> QED
    BY <1>4, <1>5, <1>7, <2>1, SMTT(60)
<1>10. \A k \in 1..c : z[a + b + k] = u[k]
  <2>1. \A k \in 1..c : a + b + k \in 1..a + b + c
    BY <1>3
  <2> QED
    BY <1>5, <1>7, <2>1, SMTT(60)
<1>11. z[a + b + c + 1] = 0
  <2>1. 1 \in 1..1
    OBVIOUS
  <2> QED
    BY <1>1, <1>7, <2>1
<1> QED
  BY <1>3, <1>7, <1>8, <1>9, <1>10, <1>11 DEF S, EndedByZero

\* Shown items next to each other: three parts of a context, and its end.
Parts(z, items, f, h, r, replacement) ==
  LET a == Len(AsUtf8(items, 0, f, replacement))
      b == Len(AsUtf8(items, f, f + h, replacement))
      c == Len(AsUtf8(items, f + h, f + h + r, replacement))
  IN /\ ReadBack(z, 0, a) = Wanted(items, 0, f, replacement)
     /\ ReadBack(z, a, a + b) = Wanted(items, f, f + h, replacement)
     /\ ReadBack(z, a + b, Len(z) - 1) = Wanted(items, f + h, f + h + r, replacement)
     /\ {k \in 1..Len(z) : z[k] = 0} = {Len(z)}

\* Each is read back, and there is a zero at the end only.
LEMMA PartsReadBack ==
  ASSUME NEW f \in Nat, NEW h \in Nat, NEW r \in Nat, NEW items, LongAs(items, f + h + r + 1),
         \A k \in 1..f + h + r : Known(items[k].val), NEW replacement, IsShown(replacement), NEW z,
         z = AndZero(AsUtf8(items, 0, f, replacement), AsUtf8(items, f, f + h, replacement),
                     AsUtf8(items, f + h, f + h + r, replacement))
  PROVE  Parts(z, items, f, h, r, replacement)
<1> DEFINE s == AsUtf8(items, 0, f, replacement)
           t == AsUtf8(items, f, f + h, replacement)
           u == AsUtf8(items, f + h, f + h + r, replacement)
           a == Len(s)
           b == Len(t)
           c == Len(u)
           Back(x, from, to) == GoesBack(x, items, from, to, replacement)
<1>1. \A from, to \in Nat : from <= to /\ to <= f + h + r => Back(AsUtf8(items, from, to, replacement), from, to)
  <2> SUFFICES ASSUME NEW from \in Nat, NEW to \in Nat, from <= to, to <= f + h + r
               PROVE  Back(AsUtf8(items, from, to, replacement), from, to)
    OBVIOUS
  <2>1. f + h + r + 1 \in Nat /\ to <= f + h + r + 1 /\ \A k \in 1..to - from : from + k \in 1..f + h + r
    OBVIOUS
  <2> QED
    BY <2>1, ShownReadBack
<1> HIDE DEF Back
<1>2. Back(s, 0, f) /\ Back(t, f, f + h) /\ Back(u, f + h, f + h + r)
  <2>1. /\ 0 \in Nat /\ f + h \in Nat /\ f + h + r \in Nat /\ 0 <= f /\ f <= f + h /\ f + h <= f + h + r
        /\ f <= f + h + r /\ f + h + r <= f + h + r
    OBVIOUS
  <2> QED
    BY <1>1, <2>1
<1>3. z = AndZero(s, t, u)
  OBVIOUS
<1> HIDE DEF s, t, u
<1>4. s \in Seq(0..255) /\ t \in Seq(0..255) /\ u \in Seq(0..255) /\ NonZero(s) /\ NonZero(t) /\ NonZero(u)
  BY <1>2 DEF Back, GoesBack
<1>5. /\ z \in Seq(0..255) /\ Len(z) = a + b + c + 1 /\ a \in Nat /\ b \in Nat /\ c \in Nat
      /\ \A k \in 1..a : z[0 + k] = s[k]
      /\ \A k \in 1..b : z[a + k] = t[k]
      /\ \A k \in 1..c : z[a + b + k] = u[k]
      /\ z[a + b + c + 1] = 0
  <2>1. a = Len(s) /\ b = Len(t) /\ c = Len(u)
    OBVIOUS
  <2> HIDE DEF a, b, c
  <2>2. EndedByZero(z, s, t, u, a, b, c)
    BY <1>3, <1>4, <2>1, ThreeAndZero
  <2> QED
    BY <2>2 DEF EndedByZero
<1>6. DOMAIN s = 1..a /\ DOMAIN t = 1..b /\ DOMAIN u = 1..c
  BY <1>4, LenProperties
<1> HIDE DEF a, b, c
<1>7. ReadBack(z, 0, a) = Wanted(items, 0, f, replacement)
  <2>1. 0 + a = a /\ 0 + a <= Len(z) /\ 0 \in Nat
    BY <1>5
  <2>2. ReadBack(z, 0, 0 + a) = Wanted(items, 0, f, replacement)
    BY <1>2, <1>5, <2>1, ZenonT(60) DEF Back, GoesBack, a
  <2> QED
    BY <2>1, <2>2
<1>8. ReadBack(z, a, a + b) = Wanted(items, f, f + h, replacement)
  <2>1. a + b <= Len(z)
    BY <1>5
  <2> QED
    BY <1>2, <1>5, <2>1, ZenonT(60) DEF Back, GoesBack, b
<1>9. ReadBack(z, a + b, Len(z) - 1) = Wanted(items, f + h, f + h + r, replacement)
  <2> DEFINE d == a + b
  <2>1. d \in Nat /\ d + c <= Len(z) /\ d + c = Len(z) - 1 /\ \A k \in 1..c : z[d + k] = u[k]
    BY <1>5
  <2> HIDE DEF d
  <2>2. ReadBack(z, d, d + c) = Wanted(items, f + h, f + h + r, replacement)
    BY <1>2, <1>5, <2>1, ZenonT(60) DEF Back, GoesBack, c
  <2> QED
    BY <2>1, <2>2 DEF d
<1>10. {k \in 1..Len(z) : z[k] = 0} = {Len(z)}
  <2>1. ASSUME NEW k \in 1..Len(z), k # Len(z) PROVE z[k] # 0
    <3>1. CASE k <= a
      <4>1. k \in 1..a /\ 0 + k = k
        BY <1>5, <3>1
      <4> QED
        BY <1>4, <1>5, <1>6, <4>1, ZenonT(60) DEF NonZero
    <3>2. CASE k > a /\ k <= a + b
      <4>1. k - a \in 1..b /\ a + (k - a) = k
        BY <1>5, <3>2
      <4>2. z[k] = t[k - a] /\ t[k - a] # 0
        BY <1>4, <1>5, <1>6, <4>1 DEF NonZero
      <4> QED
        BY <4>2
    <3>3. CASE k > a + b
      <4>1. k - (a + b) \in 1..c /\ a + b + (k - (a + b)) = k
        BY <1>5, <2>1, <3>3
      <4>2. z[k] = u[k - (a + b)] /\ u[k - (a + b)] # 0
        BY <1>4, <1>5, <1>6, <4>1 DEF NonZero
      <4> QED
        BY <4>2
    <3>4. k \in Nat /\ a \in Nat /\ b \in Nat
      BY <1>5
    <3>5. k <= a \/ (k > a /\ k <= a + b) \/ k > a + b
      BY <3>4
    <3> QED
      BY <3>1, <3>2, <3>3, <3>5
  <2>2. Len(z) \in 1..Len(z) /\ z[Len(z)] = 0
    BY <1>5
  <2> QED
    BY <2>1, <2>2
<1> QED
  BY <1>7, <1>8, <1>9, <1>10 DEF Parts, s, t, u, a, b, c

\* So a context shows its window.
LEMMA ShownShows ==
  ASSUME NEW f \in Nat, NEW h \in Nat, NEW r \in Nat, NEW w, LongAs(w.items, f + h + r + 1),
         w.begin = f, w.end = f + h, \A k \in 1..f + h + r : Known(w.items[k].val),
         NEW replacement, IsShown(replacement)
  PROVE  ShowsWindow(Shown(w, replacement), w, replacement)
<1> DEFINE items == w.items
           s == AsUtf8(items, 0, f, replacement)
           t == AsUtf8(items, f, f + h, replacement)
           u == AsUtf8(items, f + h, f + h + r, replacement)
           context == Shown(w, replacement)
           z == context.utf8
<1>1. Len(items) - 1 = f + h + r
  BY DEF LongAs
<1>2. context = ContextOf(w, s, t, u)
  BY <1>1 DEF Shown, AsUtf8
<1> HIDE DEF s, t, u
<1>3. z = AndZero(s, t, u) /\ context.begin = Len(s) /\ context.end = Len(s) + Len(t)
  <2> DEFINE all == AndZero(s, t, u)
             outer == <<Head(items).at, Last(items).at>>
             begin == Len(s)
             end == Len(s) + Len(t)
  <2>1. context = [utf8 |-> all, outer |-> outer, begin |-> begin, end |-> end, bad |-> w.bad]
    BY <1>2 DEF ContextOf, AndZero
  <2> HIDE DEF all, outer, begin, end, context
  <2>2. z = all /\ context.begin = begin /\ context.end = end
    BY <2>1
  <2> QED
    BY <2>2 DEF all, begin, end
<1> HIDE DEF context
<1>4. Parts(z, items, f, h, r, replacement)
  <2> HIDE DEF z
  <2>1. z = AndZero(AsUtf8(items, 0, f, replacement), AsUtf8(items, f, f + h, replacement),
                    AsUtf8(items, f + h, f + h + r, replacement))
    BY <1>3 DEF s, t, u
  <2> QED
    BY <2>1, PartsReadBack
<1>5. /\ ReadBack(z, 0, context.begin) = Wanted(items, 0, f, replacement)
      /\ ReadBack(z, context.begin, context.end) = Wanted(items, f, f + h, replacement)
      /\ ReadBack(z, context.end, Len(z) - 1) = Wanted(items, f + h, f + h + r, replacement)
      /\ {k \in 1..Len(z) : z[k] = 0} = {Len(z)}
  BY <1>3, <1>4 DEF Parts, s, t
<1> HIDE DEF z
<1>6. /\ ReadBack(z, 0, context.begin) = Wanted(items, 0, w.begin, replacement)
      /\ ReadBack(z, context.begin, context.end) = Wanted(items, w.begin, w.end, replacement)
      /\ ReadBack(z, context.end, Len(z) - 1) = Wanted(items, w.end, Len(items) - 1, replacement)
      /\ {k \in 1..Len(z) : z[k] = 0} = {Len(z)}
  BY <1>1, <1>5
<1>7. ShowsWindow(context, w, replacement)
  BY <1>6 DEF ShowsWindow, ReadBack, Wanted, InUtf8, z
<1> QED
  BY <1>7 DEF context

\* What a client holds of lg_hit_context is what the window of its call is shown as.
ContextKept ==
  /\ input \in Inputs
  /\ call.name = "context" =>
       /\ call.begin \in 0..Len(input.buffer) /\ call.end \in call.begin..Len(input.buffer)
       /\ call.leading \in Nat /\ call.trailing \in Nat
       /\ answer = Shown(Decode(input.chain, input.buffer, call.begin, call.end, call.leading, call.trailing),
                         call.replacement)

\* Every step keeps it ...
LEMMA ContextKeptByEveryStep == ASSUME ContextKept, [Next]_vars PROVE ContextKept'
<1>1. input \in Inputs
  BY DEF ContextKept
<1>2. CASE UNCHANGED <<input, call, answer>>
  BY <1>2 DEF ContextKept
<1>3. CASE input' = input /\ call'.name # "context"
  BY <1>1, <1>3 DEF ContextKept
<1>4. ASSUME NEW x \in input.first, FirstItem(x) PROVE ContextKept'
  BY <1>2, <1>4 DEF FirstItem
<1>5. ASSUME NEW op \in input.operators, NEW x \in input.next, NextItem(op, x) PROVE ContextKept'
  BY <1>2, <1>5 DEF NextItem
<1>6. ASSUME NEW negated \in input.closes, CloseClass(negated) PROVE ContextKept'
  BY <1>2, <1>6 DEF CloseClass
<1>7. CASE WriteClass
  BY <1>3, <1>7 DEF WriteClass
<1>8. ASSUME NEW hbeg, NEW hend, NEW leading, NEW trailing, ReadWindow(hbeg, hend, leading, trailing)
      PROVE  ContextKept'
  BY <1>3, <1>8 DEF ReadWindow
<1>9. ASSUME NEW hbeg \in 0..Len(input.buffer), NEW hend \in 0..Len(input.buffer),
             NEW size \in Contexts, NEW replacement, HitContext(hbeg, hend, size, replacement)
      PROVE  ContextKept'
  <2>1. /\ call' = [name |-> "context", begin |-> hbeg, end |-> hend, leading |-> size,
                    trailing |-> size, replacement |-> replacement]
        /\ answer' = Shown(Decode(input.chain, input.buffer, hbeg, hend, size, size), replacement)
        /\ input' = input /\ hbeg <= hend
    BY <1>9 DEF HitContext
  <2>2. /\ call'.begin = hbeg /\ call'.end = hend /\ call'.leading = size /\ call'.trailing = size
        /\ call'.replacement = replacement
    BY <2>1
  <2>3. size \in Nat
    BY ChainsAssumption
  <2>4. input.buffer \in Seq(0..255)
    BY <1>1, InputsAssumption
  <2>5. Len(input.buffer) \in Nat
    BY <2>4, LenProperties
  <2>6. hend \in hbeg..Len(input.buffer)
    BY <2>1, <2>5
  <2> QED
    BY <1>1, <2>1, <2>2, <2>3, <2>6 DEF ContextKept
<1>10. CASE Free
  BY <1>3, <1>10 DEF Free, NoCall
<1>11. CASE UNCHANGED vars
  BY <1>2, <1>11 DEF vars
<1> QED
  BY <1>4, <1>5, <1>6, <1>7, <1>8, <1>9, <1>10, <1>11 DEF Next

\* ... and no call is held at first.
LEMMA ContextKeptAlways == Spec => []ContextKept
<1>1. Init => ContextKept
  BY DEF Init, ContextKept, NoCall
<1>2. ContextKept /\ [Next]_vars => ContextKept'
  BY ContextKeptByEveryStep
<1> QED
  BY <1>1, <1>2, PTL DEF Spec

\* What a user is shown of a hit is its window, character by character, with what is bad or
\* NUL replaced: the parts of the string that are said to be the hit and what is around it are
\* UTF-8 of their own, and the string ends with its first zero (lg_hit_context).
THEOREM ContextShownAlways == Spec => []ContextShown
<1>1. ContextKept => ContextShown
  <2> SUFFICES ASSUME ContextKept, call.name = "context", IsUnicode(call.replacement), call.replacement # 0
               PROVE  ShowsWindow(answer, Decode(input.chain, input.buffer, call.begin, call.end, call.leading,
                                                 call.trailing), call.replacement)
    BY DEF ContextShown
  <2> DEFINE chain == input.chain
             buffer == input.buffer
             hbeg == call.begin
             hend == call.end
             leading == call.leading
             trailing == call.trailing
             w == Decode(chain, buffer, hbeg, hend, leading, trailing)
  <2>1. input \in Inputs
    BY DEF ContextKept
  <2>2. KnownChain(chain) /\ chain.encoding \in Encodings /\ buffer \in Seq(0..255) /\ Len(buffer) <= UIntMax
    BY <2>1, InputsAssumption, ChainsAssumption, ZenonT(60) DEF KnownChain, Encodings
  <2>3. /\ hbeg \in 0..Len(buffer) /\ hend \in hbeg..Len(buffer) /\ leading \in Nat /\ trailing \in Nat
        /\ answer = Shown(w, call.replacement)
    BY DEF ContextKept
  <2>4. Len(buffer) \in Nat
    BY <2>2, LenProperties
  <2> HIDE DEF chain, buffer, hbeg, hend, leading, trailing
  <2>5. w = Decode(chain, buffer, hbeg, hend, leading, trailing)
    OBVIOUS
  <2> HIDE DEF w
  <2>6. WindowOf(w, hbeg, hend, leading)
    <3> DEFINE size == Len(buffer)
    <3>1. size \in Nat /\ Len(buffer) = size /\ size <= UIntMax /\ hbeg \in 0..size /\ hend \in hbeg..size
      BY <2>2, <2>3, <2>4
    <3> HIDE DEF size
    <3> QED
      BY <2>2, <2>3, <2>5, <3>1, DecodedIsWindow
  <2>7. \A k \in 1..Len(w.items) - 1 : Placed(chain, buffer, w.items[k], w.items[k + 1].at)
    BY <2>2, <2>3, <2>5, DecodedTiles
  <2>8. PICK f \in Nat, h \in Nat, r \in Nat : IsWindow(w, f, h, r, hbeg, hend)
    BY <2>6 DEF WindowOf
  <2>9. LongAs(w.items, f + h + r + 1) /\ w.begin = f /\ w.end = f + h
    BY <2>8 DEF IsWindow
  <2>10. \A k \in 1..f + h + r : Known(w.items[k].val)
    <3>1. Len(w.items) - 1 = f + h + r
      BY <2>9 DEF LongAs
    <3> QED
      BY <2>7, <3>1 DEF Placed
  <2>11. IsShown(call.replacement)
    BY DEF IsShown
  <2>12. ShowsWindow(Shown(w, call.replacement), w, call.replacement)
    BY <2>9, <2>10, <2>11, ShownShows
  <2>13. ShowsWindow(answer, w, call.replacement)
    BY <2>3, <2>12
  <2> QED
    BY <2>13 DEF w, chain, buffer, hbeg, hend, leading, trailing
<1> QED
  BY <1>1, ContextKeptAlways, PTL

-----------------------------------------------------------------------------
(* How codes end: no code of an encoding ends with another one, so a text  *)
(* read from within one of its characters is in step before the hit.       *)

\* The w bytes of s end with the v bytes of u.
EndsWith(s, w, u, v) == v <= w /\ \A k \in 1..v : s[(w - v) + k] = u[k]

\* No code of UTF-8 ends with another: the rest of a code does not look like the first byte of one.
LEMMA Utf8EndsApart ==
  ASSUME NEW b, IsUnicode(b), NEW c, IsUnicode(c), NEW v \in 1..4, NEW w \in 1..4,
         NEW u, u = Utf8Bytes(b), LongAs(u, v), NEW s, s = Utf8Bytes(c), LongAs(s, w), EndsWith(s, w, u, v)
  PROVE  v = w
<1>1. v \in Nat /\ w \in Nat /\ v # 0 /\ v <= w
  BY DEF EndsWith
<1>2. ReadsPoint(u, v, b) /\ ReadsPoint(s, w, c)
  <2>1. Opens(u, Utf8Bytes(b), v) /\ Opens(s, Utf8Bytes(c), w)
    BY DEF Opens
  <2> QED
    BY <1>1, <2>1, Utf8Tells
<1>3. SUFFICES ASSUME v < w PROVE FALSE
  BY <1>1
<1>4. s[(w - v) + 1] = u[1] /\ (w - v) + 1 \in 2..w
  BY <1>1, <1>3 DEF EndsWith
<1> DEFINE x == u[1]
<1>5. x \in 128..191
  BY <1>2, <1>4 DEF ReadsPoint
<1>6. Utf8Length(x) = v
  BY <1>2 DEF ReadsPoint
<1> HIDE DEF x
<1>7. Utf8Length(x) = 0
  BY <1>5, SMT DEF Utf8Length
<1> QED
  BY <1>1, <1>6, <1>7

\* None of UTF-16 does: a low surrogate is no character.
LEMMA Utf16EndsApart ==
  ASSUME NEW b, IsUnicode(b), NEW c, IsUnicode(c), NEW v \in 1..4, NEW w \in 1..4, NEW le \in BOOLEAN,
         NEW u, u = Utf16Bytes(b, le), LongAs(u, v), NEW s, s = Utf16Bytes(c, le), LongAs(s, w), EndsWith(s, w, u, v)
  PROVE  v = w
<1>1. v \in Nat /\ w \in Nat /\ v <= w
  BY DEF EndsWith
<1>2. b \in Nat /\ b < CodePointEnd /\ b \notin Surrogates /\ c \in Nat /\ c < CodePointEnd
  BY UnicodeMeans
<1>3. SpellsUnits(u, b, v, le) /\ SpellsUnits(s, c, w, le)
  <2>1. Opens(u, Utf16Bytes(b, le), v) /\ Opens(s, Utf16Bytes(c, le), w)
    BY DEF Opens
  <2> QED
    BY <1>1, <1>2, <2>1, Utf16Spelled
<1>4. SUFFICES ASSUME v # w PROVE FALSE
  OBVIOUS
<1>5. v = 2 /\ w = 4 /\ UnitAt(u, 1, le) = b /\ UnitAt(s, 3, le) = Low(c) /\ c >= 65536
  BY <1>1, <1>3, <1>4, SMT DEF SpellsUnits
<1>6. s[3] = u[1] /\ s[4] = u[2]
  <2>1. \A k \in 1..2 : s[(4 - 2) + k] = u[k]
    BY <1>5, SMT DEF EndsWith
  <2>2. 1 \in 1..2 /\ 2 \in 1..2 /\ (4 - 2) + 1 = 3 /\ (4 - 2) + 2 = 4
    BY SMT
  <2> QED
    BY <2>1, <2>2, SMT
<1>7. UnitAt(s, 3, le) = UnitAt(u, 1, le)
  <2>1. UnitAt(s, 3, le) = IF le THEN s[3] + 256 * s[4] ELSE 256 * s[3] + s[4]
    BY SMT DEF UnitAt
  <2>2. UnitAt(u, 1, le) = IF le THEN u[1] + 256 * u[2] ELSE 256 * u[1] + u[2]
    BY SMT DEF UnitAt
  <2> QED
    BY <1>6, <2>1, <2>2, SMT
<1>8. Low(c) \in Surrogates
  BY <1>2, <1>5, SurrogatesOf, SMTT(60) DEF Surrogates
<1> QED
  BY <1>2, <1>5, <1>7, <1>8, SMT

\* The codes of UTF-32 are equally long.
LEMMA Utf32Long ==
  ASSUME NEW c, IsUnicode(c), NEW le, NEW w \in Nat, LongAs(Utf32Bytes(c, le), w)
  PROVE  w = 4
<1>1. PICK a, b, d, e : Utf32Bytes(c, le) = <<a, b, d, e>>
  <2>1. PICK a, b, d : FourBytes(c) = <<0, a, b, d>>
    <3>1. c \in Nat /\ c < CodePointEnd
      BY UnicodeMeans
    <3> QED
      BY <3>1, FourWritten
  <2>2. Reverse(<<0, a, b, d>>) = <<d, b, a, 0>>
    BY ReverseFew
  <2>3. Utf32Bytes(c, le) = IF le THEN Reverse(FourBytes(c)) ELSE FourBytes(c)
    BY DEF Utf32Bytes
  <2>4. Utf32Bytes(c, le) = <<d, b, a, 0>> \/ Utf32Bytes(c, le) = <<0, a, b, d>>
    BY <2>1, <2>2, <2>3
  <2> QED
    BY <2>4
<1>2. LongAs(<<a, b, d, e>>, 4)
  BY TupleLong
<1> QED
  BY <1>1, <1>2 DEF LongAs

\* No code of an encoding ends with another of it.
LEMMA CodesEndApart ==
  ASSUME NEW encoding \in Encodings, NEW b, IsChar(encoding, b), NEW c, IsChar(encoding, c),
         NEW v \in 1..4, NEW w \in 1..4, NEW u, u = BytesOf(encoding, b), LongAs(u, v),
         NEW s, s = BytesOf(encoding, c), LongAs(s, w), EndsWith(s, w, u, v)
  PROVE  v = w
<1>1. CASE encoding = "ASCII"
  <2>1. u = <<b>> /\ s = <<c>>
    BY <1>1 DEF BytesOf
  <2>2. LongAs(<<b>>, 1) /\ LongAs(<<c>>, 1)
    BY OneElement
  <2> QED
    BY <2>1, <2>2 DEF LongAs
<1>2. CASE encoding # "ASCII"
  <2>1. IsUnicode(b) /\ IsUnicode(c)
    BY <1>2 DEF IsChar
  <2>2. \/ u = Utf8Bytes(b) /\ s = Utf8Bytes(c)
        \/ \E le \in BOOLEAN : u = Utf16Bytes(b, le) /\ s = Utf16Bytes(c, le)
        \/ \E le \in BOOLEAN : u = Utf32Bytes(b, le) /\ s = Utf32Bytes(c, le)
    BY <1>2 DEF BytesOf, Encodings
  <2>3. CASE u = Utf8Bytes(b) /\ s = Utf8Bytes(c)
    BY <2>1, <2>3, Utf8EndsApart
  <2>4. CASE \E le \in BOOLEAN : u = Utf16Bytes(b, le) /\ s = Utf16Bytes(c, le)
    <3>1. PICK le \in BOOLEAN : u = Utf16Bytes(b, le) /\ s = Utf16Bytes(c, le)
      BY <2>4
    <3> QED
      BY <2>1, <3>1, Utf16EndsApart
  <2>5. CASE \E le \in BOOLEAN : u = Utf32Bytes(b, le) /\ s = Utf32Bytes(c, le)
    <3>1. PICK le \in BOOLEAN : u = Utf32Bytes(b, le) /\ s = Utf32Bytes(c, le)
      BY <2>5
    <3>2. v = 4 /\ w = 4
      BY <2>1, <3>1, Utf32Long
    <3> QED
      BY <3>2
  <2> QED
    BY <2>2, <2>3, <2>4, <2>5
<1> QED
  BY <1>1, <1>2

\* A character at p and one at q, whose codes end at the same place.
Together(chain, buffer, p, b, v, q, c, w) ==
  Spelled(chain, buffer, p, b, v) /\ Spelled(chain, buffer, q, c, w) /\ p + v = q + w

\* They are the same character: no code ends with another one.
LEMMA SameEndShorter ==
  ASSUME NEW chain, KnownChain(chain), NEW buffer, NEW p \in Nat, NEW q \in Nat, NEW b, NEW c,
         NEW v \in Nat, NEW w \in Nat, v <= w, Together(chain, buffer, p, b, v, q, c, w)
  PROVE  b = c /\ p = q
<1> DEFINE x == CodeIn(chain, b)
           y == CodeIn(chain, c)
           u == Plainly(chain, b)
           s == Plainly(chain, c)
           e == chain.encoding
           f == Rotated(chain.rot, b)
           g == Rotated(chain.rot, c)
<1>1. /\ IsChar(e, b) /\ LongAs(x, v) /\ \A k \in 1..v : buffer[p + k] = x[k]
      /\ IsChar(e, c) /\ LongAs(y, w) /\ \A k \in 1..w : buffer[q + k] = y[k]
      /\ p + v = q + w
  BY DEF Together, Spelled
<1>2. v \in 1..4 /\ LongAs(u, v) /\ \A k \in 1..v : Undone(chain, x[k]) = u[k]
  <2>1. PICK m \in 1..4 : CodeOf(chain, b, m)
    BY <1>1, CharHasCode
  <2>2. m = v
    BY <1>1, <2>1 DEF CodeOf, LongAs
  <2> QED
    BY <2>1, <2>2 DEF CodeOf
<1>3. w \in 1..4 /\ LongAs(s, w) /\ \A k \in 1..w : Undone(chain, y[k]) = s[k]
  <2>1. PICK m \in 1..4 : CodeOf(chain, c, m)
    BY <1>1, CharHasCode
  <2>2. m = w
    BY <1>1, <2>1 DEF CodeOf, LongAs
  <2> QED
    BY <2>1, <2>2 DEF CodeOf
<1>4. e \in Encodings /\ IsChar(e, f) /\ IsChar(e, g) /\ u = BytesOf(e, f) /\ s = BytesOf(e, g)
  <2>1. \A r \in 0..25 : r \in 0..26
    OBVIOUS
  <2> QED
    BY <1>1, <2>1, RotatedIsChar DEF KnownChain, Plainly
<1>5. Unrotated(chain.rot, f) = b /\ Unrotated(chain.rot, g) = c
  BY RotatedBack DEF KnownChain
<1> HIDE DEF x, y, u, s, e, f, g
<1>6. \A k \in 1..v : y[(w - v) + k] = x[k] /\ (w - v) + k \in 1..w
  <2> SUFFICES ASSUME NEW k \in 1..v PROVE y[(w - v) + k] = x[k] /\ (w - v) + k \in 1..w
    OBVIOUS
  <2>1. (w - v) + k \in 1..w /\ q + ((w - v) + k) = p + k
    BY <1>1
  <2> QED
    BY <1>1, <2>1
<1>7. EndsWith(s, w, u, v)
  BY <1>2, <1>3, <1>6 DEF EndsWith
<1>8. v = w
  BY <1>2, <1>3, <1>4, <1>7, CodesEndApart
<1>9. p = q
  BY <1>1, <1>8
<1>10. CodeAt(e, u) = Step(f, v)
  <2>1. Opens(u, BytesOf(e, f), v) /\ v \in 1..v
    BY <1>2, <1>4 DEF Opens
  <2> QED
    BY <1>2, <1>4, <2>1, CodeForth
<1>11. CodeAt(e, u) = Step(g, v)
  <2>1. \A k \in 1..v : u[k] = s[k]
    <3>1. \A k \in 1..v : (w - v) + k = k
      BY <1>8
    <3> QED
      BY <1>7, <3>1 DEF EndsWith
  <2>2. Opens(u, BytesOf(e, g), v) /\ v \in 1..v
    BY <1>2, <1>3, <1>4, <1>8, <2>1 DEF Opens
  <2> QED
    BY <1>2, <1>4, <2>2, CodeForth
<1>12. f = g
  BY <1>10, <1>11 DEF Step
<1> QED
  BY <1>5, <1>9, <1>12

\* Whichever is the longer one.
LEMMA SameEnd ==
  ASSUME NEW chain, KnownChain(chain), NEW buffer, NEW p \in Nat, NEW q \in Nat, NEW b, NEW c,
         NEW v \in Nat, NEW w \in Nat, Together(chain, buffer, p, b, v, q, c, w)
  PROVE  b = c /\ p = q
<1>1. Together(chain, buffer, q, c, w, p, b, v)
  BY DEF Together
<1>2. CASE v <= w
  BY <1>2, SameEndShorter
<1>3. CASE w <= v
  BY <1>1, <1>3, SameEndShorter
<1> QED
  BY <1>2, <1>3

\* An item lies in front of the next one; if it is a character, its code is spelled there.
LEMMA PlacedSpells ==
  ASSUME NEW chain, KnownChain(chain), NEW buffer \in Seq(0..255), NEW next \in 0..Len(buffer),
         NEW item, item.at \in Nat, Placed(chain, buffer, item, next)
  PROVE  item.at < next /\ (~IsBad(item) => Spelled(chain, buffer, item.at, item.val, next - item.at))
<1> DEFINE p == item.at
           c == item.val
           x == SubSeq(buffer, p + 1, next)
           code == EncoderOf(chain, {c}).code
           size == Len(buffer)
<1>0. size \in Nat /\ LongAs(buffer, size)
  BY LenProperties, SeqIsSequence DEF LongAs
<1>1. /\ IsBad(item) => Len(x) = 1
      /\ ~IsBad(item) => c \in DOMAIN code /\ x = code[c]
  BY DEF Placed, Covers
<1>2. c \in Int /\ (~IsBad(item) => c >= 0)
  BY DEF Placed, Known, IsBad
<1> HIDE DEF code, x, size
<1>3. ~IsBad(item) => IsChar(chain.encoding, c) /\ x = CodeIn(chain, c)
  <2> SUFFICES ASSUME ~IsBad(item) PROVE IsChar(chain.encoding, c) /\ x = CodeIn(chain, c)
    OBVIOUS
  <2>1. {c} \subseteq Nat
    BY <1>2
  <2>2. CodesOfChain(code, chain, {c})
    BY <2>1, EncoderCodes DEF code
  <2> QED
    BY <1>1, <2>2 DEF CodesOfChain
<1>4. Len(x) \in Nat /\ Len(x) >= 1
  <2>1. CASE IsBad(item)
    <3>1. Len(x) = 1
      BY <1>1, <2>1, Zenon
    <3> QED
      BY <3>1
  <2>2. CASE ~IsBad(item)
    <3>1. PICK m \in 1..4 : CodeOf(chain, c, m)
      BY <1>3, <2>2, CharHasCode
    <3> QED
      BY <1>3, <2>2, <3>1 DEF CodeOf, LongAs
  <2> QED
    BY <2>1, <2>2
<1>5. p < next
  <2> SUFFICES ASSUME ~(p < next) PROVE FALSE
    BY DEF p
  <2>1. p + 1 > next
    OBVIOUS
  <2>2. x = <<>>
    BY <2>1 DEF x
  <2>3. Len(<<>>) = 0
    OBVIOUS
  <2> QED
    BY <1>4, <2>2, <2>3
<1>6. IsPart(x, buffer, p, next)
  <2>1. p <= next /\ next <= size /\ next \in Nat /\ p \in Nat
    BY <1>0, <1>5 DEF size
  <2> QED
    BY <1>0, <2>1, PartOfSequence DEF x
<1>7. LongAs(x, next - p) /\ \A k \in 1..next - p : buffer[p + k] = x[k]
  BY <1>6 DEF IsPart
<1>8. ~IsBad(item) => Spelled(chain, buffer, p, c, next - p)
  BY <1>3, <1>7 DEF Spelled
<1> QED
  BY <1>5, <1>8

\* A code is no longer than the longest of its encoding.
LEMMA CodeWithin ==
  ASSUME NEW chain, KnownChain(chain), NEW c, NEW w \in Nat, IsChar(chain.encoding, c), LongAs(CodeIn(chain, c), w)
  PROVE  w >= 1 /\ w <= MaxByteLength(chain)
<1>1. PICK m \in 1..4 : CodeOf(chain, c, m)
  BY CharHasCode
<1>2. m = w /\ LongAs(Plainly(chain, c), w)
  BY <1>1 DEF CodeOf, LongAs
<1>3. CASE chain.encoding = "ASCII"
  <2>1. Plainly(chain, c) = <<Rotated(chain.rot, c)>> /\ MaxByteLength(chain) = 1
    BY <1>3 DEF Plainly, BytesOf, MaxByteLength
  <2>2. LongAs(<<Rotated(chain.rot, c)>>, 1)
    BY OneElement
  <2>3. w = 1
    BY <1>2, <2>1, <2>2 DEF LongAs
  <2> QED
    BY <2>1, <2>3
<1>4. CASE chain.encoding # "ASCII"
  BY <1>1, <1>2, <1>4 DEF MaxByteLength
<1> QED
  BY <1>3, <1>4

\* n code lengths at most, and n bytes at least.
Near(n, M, d) == d \in Nat /\ n <= d /\ d <= n * M

\* d characters in front of a place are so many bytes in front of it.
LEMMA PlacesNear ==
  ASSUME NEW chain, KnownChain(chain), NEW buffer, NEW v, NEW P, NEW n \in Nat, NEW to \in Nat,
         Lies(chain, buffer, v, P, n, to), NEW i \in 0..n
  PROVE  \A d \in 0..i : Near(d, MaxByteLength(chain), P[i] - P[i - d])
<1> DEFINE M == MaxByteLength(chain)
           T == {d \in Nat : d <= i => Near(d, M, P[i] - P[i - d])}
<1>0. M \in Nat
  BY DEF MaxByteLength
<1> HIDE DEF M
<1>1. 0 \in T
  <2>1. i - 0 = i /\ P[i] \in Nat /\ 0 * M = 0
    BY <1>0 DEF Lies
  <2>2. P[i] - P[i] = 0
    BY <2>1
  <2> QED
    BY <2>1, <2>2 DEF Near
<1>2. ASSUME NEW d \in T PROVE d + 1 \in T
  <2>1. d \in Nat /\ d + 1 \in Nat
    OBVIOUS
  <2>2. ASSUME d + 1 <= i PROVE Near(d + 1, M, P[i] - P[i - (d + 1)])
    <3> DEFINE k == i - d
    <3>1. k \in 1..n /\ k \in 0..n /\ k - 1 \in 0..n /\ i - (d + 1) = k - 1 /\ d <= i
      BY <2>1, <2>2
    <3>2. P[k - 1] \in Nat /\ P[k] \in Nat /\ P[i] \in Nat /\ P[k - 1] < P[k]
          /\ Spelled(chain, buffer, P[k - 1], v[k], P[k] - P[k - 1])
      BY <3>1 DEF Lies
    <3>3. Near(d, M, P[i] - P[k])
      BY <2>1, <3>1
    <3> DEFINE w == P[k] - P[k - 1]
    <3>4. w \in Nat
      BY <3>2
    <3>5. w >= 1 /\ w <= M
      <4> HIDE DEF w
      <4>1. IsChar(chain.encoding, v[k]) /\ LongAs(CodeIn(chain, v[k]), w)
        BY <3>2 DEF Spelled, w
      <4> QED
        BY <3>4, <4>1, CodeWithin DEF M
    <3>6. P[i] - P[k - 1] = (P[i] - P[k]) + w
      BY <3>2
    <3>7. (d + 1) * M = d * M + M
      BY <1>0, <2>1
    <3> HIDE DEF w, k
    <3> DEFINE a == P[i] - P[k]
               b == P[i] - P[k - 1]
               c == d * M
               e == (d + 1) * M
    <3>8. c \in Nat
      BY <1>0, <2>1
    <3>9. a \in Nat /\ d <= a /\ a <= c /\ b = a + w /\ e = c + M
      BY <3>3, <3>6, <3>7 DEF Near
    <3> HIDE DEF a, b, c, e
    <3>10. b \in Nat /\ d + 1 <= b /\ b <= e
      BY <1>0, <2>1, <3>4, <3>5, <3>8, <3>9
    <3> QED
      BY <3>1, <3>10 DEF Near, b, e
  <2> QED
    BY <2>1, <2>2
<1>3. T \subseteq Nat
  OBVIOUS
<1> HIDE DEF T
<1>4. \A d \in Nat : d \in T
  BY <1>1, <1>2, <1>3, InductionOnNat
<1> QED
  BY <1>4 DEF T, M

\* The first characters of a text, up to where the range of bytes that is read ends.
LEMMA LiesPart ==
  ASSUME NEW chain, KnownChain(chain), NEW buffer, NEW v, NEW P, NEW n \in Nat, NEW to \in Nat,
         Lies(chain, buffer, v, P, n, to), NEW m \in 0..n, NEW top \in Nat, P[m] <= top
  PROVE  Lies(chain, buffer, v, P, m, top)
<1>1. ASSUME NEW k \in 0..m PROVE P[k] \in 0..top
  <2>1. m - k \in 0..m /\ m - (m - k) = k /\ k \in 0..n
    OBVIOUS
  <2>2. Near(m - k, MaxByteLength(chain), P[m] - P[k])
    BY <2>1, PlacesNear
  <2>3. P[m] \in Nat /\ P[k] \in Nat
    BY <2>1 DEF Lies
  <2> QED
    BY <2>2, <2>3 DEF Near
<1>2. \A k \in 1..m : P[k - 1] < P[k] /\ Spelled(chain, buffer, P[k - 1], v[k], P[k] - P[k - 1])
  BY DEF Lies
<1> QED
  BY <1>1, <1>2 DEF Lies

\* Nothing is padded at the start of the buffer, or when there are as many as asked for.
LEMMA NoPadding ==
  ASSUME NEW buffer, NEW l \in Nat, NEW leading \in Nat, NEW n \in Nat, NEW s, LongAs(s, n),
         l = 0 \/ n >= leading
  PROVE  Padded(buffer, l, s, leading) = s
<1> DEFINE pad == Min({l, Max({0, leading - Len(s)})})
           r == [k \in 1..pad |-> BadByte(buffer[l - pad + k], l - pad + k - 1)]
           u == Padded(buffer, l, s, leading)
<1>1. pad = 0
  <2> DEFINE x == Max({0, leading - Len(s)})
  <2>1. Len(s) = n
    BY DEF LongAs
  <2>2. leading - n \in Int /\ 0 \in Int
    OBVIOUS
  <2>3. x = IF 0 <= leading - n THEN leading - n ELSE 0
    BY <2>1, <2>2, MinOfTwo
  <2> HIDE DEF x
  <2>4. x \in Int /\ l \in Int
    BY <2>3
  <2>5. Min({l, x}) = IF l <= x THEN l ELSE x
    BY <2>4, MinOfTwo
  <2> QED
    BY <2>3, <2>5 DEF x
<1>2. u = r \o s
  BY DEF Padded
<1> HIDE DEF pad
<1>3. r = [k \in 1..0 |-> r[k]]
  BY <1>1
<1> HIDE DEF r, u
<1>4. LongAs(r, 0)
  BY <1>3, SequenceMeans
<1>5. Joins(u, r, 0, s, n)
  BY <1>2, <1>4, JoinSequences
<1>6. 0 + n = n /\ \A k \in 1..n : 0 + k = k
  OBVIOUS
<1>7. LongAs(u, n) /\ \A k \in 1..n : u[k] = s[k]
  BY <1>5, <1>6 DEF Joins
<1>8. u = [k \in 1..n |-> u[k]] /\ s = [k \in 1..n |-> s[k]]
  BY <1>7, SequenceMeans
<1>9. u = s
  BY <1>7, <1>8
<1> QED
  BY <1>9 DEF u

-----------------------------------------------------------------------------
(* The start of the leading context: of the offsets tried, the one that is *)
(* taken gives the characters in front of the hit.                         *)

\* A buffer is a text: the codes of its n characters, one behind the other, and nothing else.
IsText(chain, buffer, v, P, n) ==
  /\ KnownChain(chain) /\ buffer \in Seq(0..255) /\ Len(buffer) <= UIntMax /\ n \in Nat
  /\ Lies(chain, buffer, v, P, n, Len(buffer)) /\ P[0] = 0 /\ P[n] = Len(buffer)

\* d is the lesser of a and b.
Lesser(d, a, b) == d \in Nat /\ d <= a /\ d <= b /\ (d = a \/ d = b)

\* To begin at a character of the text, as far in front of the hit as asked for, gives the
\* characters of the text, and nothing bad.
LEMMA StartAtText ==
  ASSUME NEW chain, NEW buffer, NEW v, NEW P, NEW n, IsText(chain, buffer, v, P, n),
         NEW a \in 0..n, NEW leading \in Nat, NEW d, Lesser(d, a, leading)
  PROVE  LeadingFrom(chain, buffer, P[a - d], P[a], leading).good = d
<1> DEFINE size == Len(buffer)
           l == P[a - d]
           hbeg == P[a]
           s == Items(chain, buffer, l, hbeg)
           M == MaxByteLength(chain)
<1>1. /\ KnownChain(chain) /\ buffer \in Seq(0..255) /\ size <= UIntMax /\ n \in Nat /\ size \in Nat
      /\ Lies(chain, buffer, v, P, n, size) /\ P[0] = 0
  BY LenProperties DEF IsText
<1>2. d \in 0..a /\ a \in Nat /\ a - d \in 0..a /\ a - d \in 0..n /\ a - (a - d) = d
  BY <1>1 DEF Lesser
<1>3. hbeg \in 0..size /\ l \in Nat
  BY <1>1, <1>2 DEF Lies
<1>4. d <= hbeg
  <2>1. Near(d, M, hbeg - l)
    BY <1>1, <1>2, PlacesNear
  <2> QED
    BY <1>2, <1>3, <2>1 DEF Near
<1>5. Lies(chain, buffer, v, P, a, hbeg)
  <2>1. hbeg \in Nat /\ P[a] <= hbeg
    BY <1>3
  <2> QED
    BY <1>1, <2>1, LiesPart
<1>6. ReadOut(s, v, P, a, a - d, hbeg)
  <2>1. \A k \in 0..a : ReadOut(Items(chain, buffer, P[k], hbeg), v, P, a, k, hbeg)
    <3> HIDE DEF hbeg
    <3> QED
      BY <1>1, <1>2, <1>3, <1>5, ItemsForth
  <2> QED
    BY <1>2, <2>1
<1> HIDE DEF s
<1>7. LongAs(s, d) /\ \A j \in 1..d : s[j] = Item(v[(a - d) + j], P[(a - d) + j - 1])
  BY <1>2, <1>6 DEF ReadOut
<1>8. ASSUME NEW j \in 1..d PROVE ~IsBad(s[j])
  <2> DEFINE k == (a - d) + j
  <2>1. k \in 1..n
    BY <1>1, <1>2
  <2>2. IsChar(chain.encoding, v[k])
    BY <1>1, <2>1 DEF Lies, Spelled
  <2>3. v[k] \in Nat
    BY <2>2, CharIsNumber
  <2>4. s[j].val = v[k]
    <3>1. s[j] = Item(v[(a - d) + j], P[(a - d) + j - 1])
      BY <1>7, Zenon
    <3>2. \A x, y : Item(x, y).val = x
      BY DEF Item
    <3> QED
      BY <3>1, <3>2, Zenon
  <2> HIDE DEF k
  <2> QED
    BY <2>3, <2>4 DEF IsBad
<1>9. l = 0 \/ d >= leading
  BY <1>1, <1>2 DEF Lesser
<1>10. LeadingFrom(chain, buffer, l, hbeg, leading) = Lead(s)
  <2>1. Padded(buffer, l, s, leading) = s
    <3> HIDE DEF l
    <3> QED
      BY <1>2, <1>3, <1>7, <1>9, NoPadding
  <2>2. LeadingFrom(chain, buffer, l, hbeg, leading) = Lead(Padded(buffer, l, s, leading))
    BY DEF LeadingFrom, s
  <2> QED
    BY <2>1, <2>2
<1>11. Lead(s).good = d
  <2>1. d \in Nat /\ d <= UIntMax
    BY <1>1, <1>2, <1>3, <1>4, UIntMaxAssumption
  <2>2. PICK m : LastBad(s, d, m) /\ Lead(s).good = d - m
    BY <1>7, <2>1, LeadMeans
  <2>3. m \in 0..d /\ (m = 0 \/ IsBad(s[m]))
    BY <2>2 DEF LastBad
  <2>4. m = 0
    BY <1>8, <2>3
  <2> QED
    BY <2>1, <2>2, <2>4
<1> QED
  BY <1>10, <1>11

\* The m items of s, side by side up to to, of which the last d are characters.
EndsGood(s, m, d, chain, buffer, to) ==
  /\ m \in Nat /\ LongAs(s, m) /\ d <= m /\ Tiles(chain, buffer, s, m, to)
  /\ \A k \in 1..m : s[k].at \in Nat
  /\ \A k \in (m - d) + 1..m : ~IsBad(s[k])

\* So the best start has as many good ones in front of the hit.
LEMMA LeadingEndsGood ==
  ASSUME NEW chain, NEW buffer, NEW v, NEW P, NEW n, IsText(chain, buffer, v, P, n),
         NEW a \in 0..n, NEW leading \in Nat, NEW d, Lesser(d, a, leading)
  PROVE  \E m : EndsGood(Leading(chain, buffer, P[a], leading).items, m, d, chain, buffer, P[a])
<1> DEFINE size == Len(buffer)
           hbeg == P[a]
           M == MaxByteLength(chain)
           x == Leading(chain, buffer, hbeg, leading)
<1>1. /\ KnownChain(chain) /\ buffer \in Seq(0..255) /\ size <= UIntMax /\ n \in Nat /\ size \in Nat
      /\ Lies(chain, buffer, v, P, n, size) /\ P[0] = 0 /\ chain.encoding \in Encodings
  BY LenProperties DEF IsText, KnownChain
<1>2. d \in 0..a /\ a \in Nat /\ a - d \in 0..n /\ 0 \in 0..n /\ a - a = 0 /\ a \in 0..a
  BY <1>1 DEF Lesser
<1>3. hbeg \in 0..size /\ hbeg \in Nat /\ P[a - d] \in Nat
  BY <1>1, <1>2 DEF Lies
<1>4. Near(d, M, hbeg - P[a - d]) /\ Near(a, M, hbeg)
  <2>1. \A e \in 0..a : Near(e, M, hbeg - P[a - e])
    BY <1>1, PlacesNear
  <2>2. hbeg - P[a - a] = hbeg
    BY <1>1, <1>2, <1>3
  <2> QED
    BY <1>2, <2>1, <2>2
<1>5. hbeg <= UIntMax
  BY <1>1, <1>3, UIntMaxAssumption
<1>6. PICK tried : BestOfStarts(x, chain, buffer, hbeg, leading, tried)
  <2> HIDE DEF hbeg
  <2> QED
    BY <1>1, <1>3, <1>5, LeadingIsBest
<1> DEFINE k0 == hbeg - P[a - d]
<1>7. tried \in 0..hbeg /\ k0 \in Nat /\ k0 <= tried /\ d <= k0
  <2>1. M \in Nat /\ tried = Min({hbeg, leading * M})
    BY <1>6 DEF BestOfStarts, StartsTried, MaxByteLength
  <2>2. d * M <= leading * M
    <3>1. M = 1 \/ M = 4
      BY DEF MaxByteLength
    <3>2. d \in Nat /\ d <= leading
      BY DEF Lesser
    <3> HIDE DEF M
    <3> QED
      BY <3>1, <3>2
  <2>3. k0 \in Nat /\ d <= k0 /\ k0 <= d * M
    BY <1>4 DEF Near
  <2>4. k0 <= hbeg
    BY <1>3
  <2> DEFINE b == leading * M
             c == d * M
  <2>5. b \in Nat /\ c \in Nat /\ c <= b
    <3>1. d \in Nat
      BY DEF Lesser
    <3> HIDE DEF M
    <3> QED
      BY <2>1, <2>2, <3>1
  <2> HIDE DEF b, c, k0, hbeg, M
  <2>6. Min({hbeg, b}) = IF hbeg <= b THEN hbeg ELSE b
    BY <1>3, <2>5, MinOfTwo
  <2>7. tried = IF hbeg <= b THEN hbeg ELSE b
    BY <2>1, <2>6 DEF b
  <2> QED
    BY <1>3, <2>3, <2>4, <2>5, <2>7 DEF c
<1> DEFINE G == Starts(chain, buffer, hbeg, leading, tried)
<1>8. IF tried = 0 THEN x = NoLead ELSE IsBest(x, G, tried)
  BY <1>6 DEF BestOfStarts
<1>9. \A k \in 1..tried : hbeg - k \in 0..hbeg /\ G[k] = LeadingFrom(chain, buffer, hbeg - k, hbeg, leading)
  <2> HIDE DEF hbeg
  <2>1. \A k \in 1..tried : hbeg - k \in 0..hbeg
    BY <1>3, <1>7
  <2>2. \A k \in 1..tried : G[k] = LeadingFrom(chain, buffer, hbeg - k, hbeg, leading)
    BY DEF Starts
  <2> QED
    BY <2>1, <2>2
<1> HIDE DEF G, x
<1>10. CASE tried = 0
  <2>1. x.items = <<>> /\ d = 0
    BY <1>2, <1>7, <1>8, <1>10 DEF NoLead
  <2>2. LongAs(x.items, 0) /\ (0 - d) + 1 = 1
    BY <2>1, NoElement
  <2>3. \A k \in 1..0 : FALSE
    OBVIOUS
  <2>4. Tiles(chain, buffer, x.items, 0, hbeg)
    BY <2>3, Zenon DEF Tiles
  <2>5. EndsGood(x.items, 0, d, chain, buffer, hbeg)
    BY <2>1, <2>2, <2>3, <2>4 DEF EndsGood
  <2> QED
    BY <2>5 DEF x
<1>11. CASE tried # 0
  <2>1. PICK k \in 1..tried : x = G[k]
    BY <1>8, <1>11 DEF IsBest
  <2> DEFINE l == hbeg - k
  <2>2. l \in 0..hbeg /\ x = LeadingFrom(chain, buffer, l, hbeg, leading)
    BY <1>9, <2>1
  <2> HIDE DEF l
  <2>3. PICK p \in 0..hbeg, m \in 0..hbeg : Candidate(x, chain, buffer, l, hbeg, leading, p, m)
    <3> HIDE DEF hbeg
    <3> QED
      BY <1>1, <1>3, <1>5, <2>2, StartShape
  <2>4. m \in Nat /\ m <= UIntMax /\ LongAs(x.items, m) /\ InFront(x.items, m, hbeg) /\ x.good \in Nat
    <3> HIDE DEF hbeg
    <3> QED
      BY <1>3, <1>5, <2>3, CandidateCounts
  <2>5. \A i \in 1..m : x.items[i].at \in Nat
    BY <2>4 DEF InFront
  <2>6. Tiles(chain, buffer, x.items, m, hbeg)
    <3>1. PICK i \in Nat : LongAs(x.items, i) /\ Tiles(chain, buffer, x.items, i, hbeg)
      <4> HIDE DEF hbeg
      <4> QED
        BY <1>1, <1>3, <2>2, CandidateTiles
    <3>2. i = m
      BY <2>4, <3>1 DEF LongAs
    <3> QED
      BY <3>1, <3>2
  <2>7. d <= x.good
    <3>1. CASE d = 0
      BY <2>4, <3>1
    <3>2. CASE d # 0
      <4>1. k0 \in 1..tried /\ hbeg - k0 = P[a - d]
        <5>1. hbeg - k0 = P[a - d]
          BY <1>3
        <5> HIDE DEF k0
        <5>2. k0 \in 1..tried
          BY <1>2, <1>7, <3>2
        <5> QED
          BY <5>1, <5>2
      <4>2. G[k0].good = d
        BY <1>9, <4>1, StartAtText
      <4>3. NoBetter(G[k0], x)
        BY <1>8, <1>11, <4>1 DEF IsBest
      <4>4. G[k0].good < x.good \/ G[k0].good = x.good
        BY <4>3, Zenon DEF NoBetter
      <4>5. d < x.good \/ d = x.good
        BY <4>2, <4>4, Zenon
      <4> QED
        BY <1>2, <2>4, <4>5
    <3> QED
      BY <3>1, <3>2
  <2>8. PICK j : LastBad(x.items, m, j) /\ x.good = m - j
    <3>1. x = Lead(x.items)
      BY <2>3 DEF Candidate
    <3>2. \E j : LastBad(x.items, m, j) /\ Lead(x.items).good = m - j
      BY <2>4, LeadMeans
    <3> QED
      BY <3>1, <3>2
  <2>9. j \in 0..m /\ \A i \in 1..m : IsBad(x.items[i]) => i <= j
    BY <2>8 DEF LastBad
  <2>10. d <= m /\ j <= m - d
    BY <1>2, <2>4, <2>7, <2>8, <2>9
  <2>11. \A i \in (m - d) + 1..m : ~IsBad(x.items[i])
    <3> SUFFICES ASSUME NEW i \in (m - d) + 1..m PROVE ~IsBad(x.items[i])
      OBVIOUS
    <3>1. i \in 1..m /\ ~(i <= j)
      BY <1>2, <2>4, <2>9, <2>10
    <3> QED
      BY <2>9, <3>1
  <2>12. EndsGood(x.items, m, d, chain, buffer, hbeg)
    BY <2>4, <2>5, <2>6, <2>10, <2>11 DEF EndsGood
  <2> QED
    BY <2>12 DEF x
<1> QED
  BY <1>10, <1>11

\* The j-th item of s from its end is the j-th character in front of the a-th place.
AtText(s, m, v, P, a, j) == s[(m - j) + 1].val = v[(a - j) + 1] /\ s[(m - j) + 1].at = P[a - j]

\* The one in front of such items is the next one of the text.
LEMMA EndIsTextMore ==
  ASSUME NEW chain, NEW buffer, NEW v, NEW P, NEW n, IsText(chain, buffer, v, P, n),
         NEW a \in 0..n, NEW d \in 0..a, NEW s, NEW m, EndsGood(s, m, d, chain, buffer, P[a]),
         NEW e \in 0..d - 1, \A j \in 1..e : AtText(s, m, v, P, a, j)
  PROVE  AtText(s, m, v, P, a, e + 1)
<1> DEFINE k == m - e
           i == a - e
           item == s[k]
           next == P[i]
           p == P[i - 1]
<1>1. /\ KnownChain(chain) /\ buffer \in Seq(0..255) /\ n \in Nat
      /\ Lies(chain, buffer, v, P, n, Len(buffer)) /\ Len(buffer) \in Nat
  BY LenProperties DEF IsText
<1>2. /\ m \in Nat /\ d <= m /\ Tiles(chain, buffer, s, m, P[a])
      /\ (\A j \in 1..m : s[j].at \in Nat) /\ \A j \in (m - d) + 1..m : ~IsBad(s[j])
  BY DEF EndsGood
<1>3. /\ k \in 1..m /\ k \in (m - d) + 1..m /\ i \in 1..n /\ i \in 0..n /\ i - 1 \in 0..n
      /\ (m - (e + 1)) + 1 = k /\ (a - (e + 1)) + 1 = i /\ a - (e + 1) = i - 1
  BY <1>1, <1>2
<1>4. EndOf(s, m, k, P[a]) = next
  <2>1. CASE e = 0
    <3>1. k = m /\ i = a
      BY <1>1, <1>2, <2>1
    <3> QED
      BY <1>2, <3>1 DEF EndOf
  <2>2. CASE e # 0
    <3>1. k < m /\ e \in 1..e /\ (m - e) + 1 = k + 1
      BY <1>1, <1>2, <2>2
    <3>2. s[k + 1].at = P[a - e]
      BY <3>1 DEF AtText
    <3> QED
      BY <3>1, <3>2 DEF EndOf
  <2> QED
    BY <2>1, <2>2
<1>5. next \in 0..Len(buffer) /\ next \in Nat /\ p \in Nat /\ p < next
      /\ Spelled(chain, buffer, p, v[i], next - p)
  <2>1. /\ \A h \in 0..n : P[h] \in 0..Len(buffer)
        /\ \A h \in 1..n : P[h - 1] < P[h] /\ Spelled(chain, buffer, P[h - 1], v[h], P[h] - P[h - 1])
    BY <1>1 DEF Lies
  <2> HIDE DEF i
  <2>2. next \in 0..Len(buffer) /\ p \in 0..Len(buffer)
    BY <1>3, <2>1
  <2>3. p < next /\ Spelled(chain, buffer, p, v[i], next - p)
    BY <1>3, <2>1
  <2> QED
    BY <1>1, <2>2, <2>3
<1>6. Placed(chain, buffer, item, next) /\ item.at \in Nat /\ ~IsBad(item)
  BY <1>2, <1>3, <1>4 DEF Tiles
<1> HIDE DEF k, i, item, next, p
<1>7. item.at < next /\ Spelled(chain, buffer, item.at, item.val, next - item.at)
  BY <1>1, <1>5, <1>6, PlacedSpells
<1> DEFINE q == item.at
           c == item.val
<1> HIDE DEF q, c
<1>8. item.val = v[i] /\ item.at = p
  <2>1. next - q \in Nat /\ next - p \in Nat /\ q + (next - q) = p + (next - p) /\ q \in Nat
    BY <1>5, <1>6, <1>7 DEF q
  <2>2. Together(chain, buffer, q, c, next - q, p, v[i], next - p)
    BY <1>5, <1>7, <2>1 DEF Together, q, c
  <2> DEFINE y == next - q
             z == next - p
             b == v[i]
  <2> HIDE DEF y, z, b
  <2>3. y \in Nat /\ z \in Nat /\ Together(chain, buffer, q, c, y, p, b, z)
    BY <2>1, <2>2 DEF y, z, b
  <2>4. c = b /\ q = p
    BY <1>1, <1>5, <2>1, <2>3, SameEnd
  <2> QED
    BY <2>4 DEF b, c, q
<1> QED
  BY <1>3, <1>8 DEF AtText, item, p

\* So the items that end where the a-th character does are the text, as far as they are good.
LEMMA EndIsText ==
  ASSUME NEW chain, NEW buffer, NEW v, NEW P, NEW n, IsText(chain, buffer, v, P, n),
         NEW a \in 0..n, NEW d \in 0..a, NEW s, NEW m, EndsGood(s, m, d, chain, buffer, P[a])
  PROVE  \A j \in 1..d : AtText(s, m, v, P, a, j)
<1> DEFINE T == {e \in Nat : e <= d => \A j \in 1..e : AtText(s, m, v, P, a, j)}
<1>0. d \in Nat /\ n \in Nat
  BY DEF IsText
<1>1. 0 \in T
  OBVIOUS
<1>2. ASSUME NEW e \in T PROVE e + 1 \in T
  <2>1. e \in Nat /\ e + 1 \in Nat
    OBVIOUS
  <2>2. ASSUME e + 1 <= d PROVE \A j \in 1..e + 1 : AtText(s, m, v, P, a, j)
    <3>1. \A j \in 1..e : AtText(s, m, v, P, a, j)
      BY <1>0, <2>1, <2>2
    <3>2. e \in 0..d - 1
      BY <1>0, <2>1, <2>2
    <3>3. AtText(s, m, v, P, a, e + 1)
      BY <3>1, <3>2, EndIsTextMore
    <3>4. \A j \in 1..e + 1 : j \in 1..e \/ j = e + 1
      BY <2>1
    <3> QED
      BY <3>1, <3>3, <3>4
  <2> QED
    BY <2>1, <2>2
<1>3. T \subseteq Nat
  OBVIOUS
<1> HIDE DEF T
<1>4. d \in T
  BY <1>0, <1>1, <1>2, <1>3, InductionOnNat
<1> QED
  BY <1>0, <1>4 DEF T

\* What is shown of the leading context is the characters of the text in front of the hit.
LEMMA FrontIsText ==
  ASSUME NEW chain, NEW buffer, NEW v, NEW P, NEW n, IsText(chain, buffer, v, P, n),
         NEW a \in 0..n, NEW leading \in Nat, NEW d, Lesser(d, a, leading),
         NEW front, front = LastOf(Leading(chain, buffer, P[a], leading).items, leading)
  PROVE  LongAs(front, d) /\ \A k \in 1..d : front[k].val = v[(a - d) + k]
<1> DEFINE s == Leading(chain, buffer, P[a], leading).items
<1>1. PICK m : EndsGood(s, m, d, chain, buffer, P[a])
  BY LeadingEndsGood
<1> HIDE DEF s
<1>2. n \in Nat /\ a \in Nat /\ d \in 0..a /\ d \in Nat /\ a - d \in 0..n /\ a - a = 0
  BY DEF IsText, Lesser
<1>3. /\ m \in Nat /\ LongAs(s, m) /\ d <= m /\ Tiles(chain, buffer, s, m, P[a])
      /\ \A k \in 1..m : s[k].at \in Nat
  BY <1>1 DEF EndsGood
<1>4. \A j \in 1..d : AtText(s, m, v, P, a, j)
  BY <1>1, <1>2, EndIsText
<1>5. ASSUME d = a PROVE m = d
  <2> SUFFICES ASSUME m # d PROVE FALSE
    OBVIOUS
  <2> DEFINE k == m - d
             item == s[k]
  <2>1. k \in 1..m
    BY <1>2, <1>3
  <2>2. KnownChain(chain) /\ buffer \in Seq(0..255) /\ P[0] = 0 /\ Len(buffer) \in Nat
    BY LenProperties DEF IsText
  <2>3. EndOf(s, m, k, P[a]) = 0
    <3>1. CASE d = 0
      <4>1. k = m /\ a = 0
        BY <1>3, <1>5, <3>1
      <4> QED
        BY <1>3, <2>2, <4>1 DEF EndOf
    <3>2. CASE d # 0
      <4>1. k < m /\ d \in 1..d /\ (m - d) + 1 = k + 1 /\ a - d = 0
        BY <1>2, <1>3, <1>5, <3>2
      <4>2. s[k + 1].at = P[a - d]
        BY <1>4, <4>1 DEF AtText
      <4> QED
        BY <2>2, <4>1, <4>2 DEF EndOf
    <3> QED
      BY <3>1, <3>2
  <2>4. Placed(chain, buffer, item, 0) /\ item.at \in Nat /\ 0 \in 0..Len(buffer)
    BY <1>3, <2>1, <2>2, <2>3 DEF Tiles
  <2> HIDE DEF item
  <2>5. item.at < 0
    BY <2>2, <2>4, PlacedSpells
  <2> QED
    BY <2>4, <2>5
<1> DEFINE D == m - d
<1>6. D \in Nat /\ D <= m /\ m - D = d
  BY <1>2, <1>3
<1>7. front = SubSeq(s, D + 1, m)
  <2>1. Len(s) = m
    BY <1>3 DEF LongAs
  <2>2. 1 \in Int /\ m - leading + 1 \in Int
    BY <1>3
  <2>3. Max({1, m - leading + 1}) = IF 1 <= m - leading + 1 THEN m - leading + 1 ELSE 1
    BY <2>2, MinOfTwo
  <2>4. (d = a \/ d = leading) /\ d <= leading
    BY DEF Lesser
  <2>5. Max({1, m - leading + 1}) = D + 1
    <3>1. CASE d = leading
      BY <1>2, <1>3, <2>3, <3>1
    <3>2. CASE d = a
      <4>1. m = d
        BY <1>5, <3>2
      <4> QED
        BY <1>2, <1>3, <2>3, <2>4, <4>1
    <3> QED
      BY <2>4, <3>1, <3>2
  <2>6. front = SubSeq(s, Max({1, Len(s) - leading + 1}), Len(s))
    BY DEF LastOf, s
  <2> QED
    BY <2>1, <2>5, <2>6
<1> HIDE DEF D
<1>8. IsPart(front, s, D, m)
  <2>1. m <= m
    BY <1>3
  <2> QED
    BY <1>3, <1>6, <1>7, <2>1, PartOfSequence
<1>9. LongAs(front, d) /\ \A k \in 1..d : front[k] = s[D + k]
  BY <1>6, <1>8 DEF IsPart
<1>10. ASSUME NEW k \in 1..d PROVE front[k].val = v[(a - d) + k]
  <2> DEFINE j == (d - k) + 1
  <2>1. j \in 1..d /\ (m - j) + 1 = D + k /\ (a - j) + 1 = (a - d) + k
    BY <1>2, <1>3 DEF D
  <2>2. AtText(s, m, v, P, a, j)
    BY <1>4, <2>1
  <2> HIDE DEF j
  <2>3. s[D + k].val = v[(a - d) + k]
    BY <2>1, <2>2 DEF AtText
  <2>4. front[k] = s[D + k]
    BY <1>9
  <2> QED
    BY <2>3, <2>4
<1> QED
  BY <1>9, <1>10

-----------------------------------------------------------------------------
(* The hit and the trailing context, and the window as a whole.            *)

\* all is read from the a-th place: the hit up to the b-th, and as much as is taken behind it up
\* to the m-th, are the text.
BackOf(all, l, v, a, b, m, hend, trailing) ==
  /\ l \in Nat /\ LongAs(all, l) /\ m - a <= l
  /\ HitLength(all, hend) = b - a
  /\ Taken(SubSeq(all, (b - a) + 1, l), trailing) = m - b
  /\ \A k \in 1..m - a : all[k].val = v[a + k]

\* How far is read: to the character behind the trailing context, or to the end; no further when
\* there is less text than asked for, or nothing is.
LEMMA TopIsText ==
  ASSUME NEW chain, NEW buffer, NEW v, NEW P, NEW n, IsText(chain, buffer, v, P, n),
         NEW b \in 0..n, NEW trailing \in Nat, NEW m, Lesser(m, n, b + trailing), b <= m,
         NEW top, top = Min({P[b] + trailing * MaxByteLength(chain), Len(buffer)})
  PROVE  /\ top \in 0..Len(buffer) /\ P[m] <= top
         /\ m < b + trailing \/ trailing = 0 => P[m] = top
<1> DEFINE size == Len(buffer)
           M == MaxByteLength(chain)
           hend == P[b]
           y == trailing * M
           z == (m - b) * M
<1>1. KnownChain(chain) /\ n \in Nat /\ size \in Nat /\ Lies(chain, buffer, v, P, n, size) /\ P[n] = size
  BY LenProperties DEF IsText
<1>2. m \in 0..n /\ m \in Nat /\ b \in Nat /\ m - b \in 0..m /\ m - (m - b) = b /\ m - b <= trailing
  BY <1>1 DEF Lesser
<1>3. hend \in 0..size /\ P[m] \in 0..size
  BY <1>1, <1>2 DEF Lies
<1>4. Near(m - b, M, P[m] - hend)
  BY <1>1, <1>2, PlacesNear
<1>5. P[m] - hend <= z
  BY <1>4 DEF Near
<1>6. y \in Nat /\ z \in Nat /\ z <= y /\ (trailing = 0 => y = 0)
  <2>1. M = 1 \/ M = 4
    BY DEF MaxByteLength
  <2> HIDE DEF M
  <2> QED
    BY <1>2, <2>1
<1> HIDE DEF y, z, M
<1>7. top = IF hend + y <= size THEN hend + y ELSE size
  <2>1. hend + y \in Int /\ size \in Int
    BY <1>1, <1>3, <1>6
  <2>2. Min({hend + y, size}) = IF hend + y <= size THEN hend + y ELSE size
    BY <2>1, MinOfTwo
  <2> QED
    BY <2>2 DEF y, M
<1>8. m < b + trailing => m = n
  BY <1>2 DEF Lesser
<1>9. trailing = 0 => m = b
  BY <1>2
<1> HIDE DEF size, hend
<1>10. top \in 0..size /\ P[m] <= top
  <2> DEFINE pm == P[m]
  <2>1. pm \in Nat /\ pm <= size /\ hend \in Nat /\ hend <= size /\ size \in Nat /\ pm - hend <= z
    BY <1>1, <1>3, <1>5
  <2> HIDE DEF pm
  <2>2. top \in 0..size /\ pm <= top
    BY <1>6, <1>7, <2>1
  <2> QED
    BY <2>2 DEF pm
<1>11. m = n => P[m] = top
  BY <1>1, <1>10
<1>12. trailing = 0 => P[m] = top
  <2> SUFFICES ASSUME trailing = 0 PROVE P[m] = top
    OBVIOUS
  <2>1. P[m] = hend
    BY <1>9 DEF hend
  <2> QED
    BY <1>1, <1>3, <1>6, <1>7, <2>1
<1> QED
  BY <1>8, <1>10, <1>11, <1>12 DEF size

\* So the hit and what is taken behind it are the characters of the text.
LEMMA BackIsText ==
  ASSUME NEW chain, NEW buffer, NEW v, NEW P, NEW n, IsText(chain, buffer, v, P, n),
         NEW a \in 0..n, NEW b \in a..n, NEW trailing \in Nat, NEW m, Lesser(m, n, b + trailing),
         NEW top, top = Min({P[b] + trailing * MaxByteLength(chain), Len(buffer)}),
         NEW all, all = Items(chain, buffer, P[a], top)
  PROVE  \E l : BackOf(all, l, v, a, b, m, P[b], trailing)
<1> DEFINE size == Len(buffer)
           hend == P[b]
           h == HitLength(all, hend)
<1>1. /\ KnownChain(chain) /\ buffer \in Seq(0..255) /\ n \in Nat /\ size \in Nat
      /\ Lies(chain, buffer, v, P, n, size) /\ chain.encoding \in Encodings
  BY LenProperties DEF IsText, KnownChain
<1>2. m \in 0..n /\ m \in Nat /\ b \in 0..n /\ b \in Nat /\ a \in Nat /\ a <= b /\ b <= m /\ a \in 0..m
      /\ m <= b + trailing
  BY <1>1 DEF Lesser
<1>3. top \in 0..size /\ P[m] <= top /\ (m < b + trailing \/ trailing = 0 => P[m] = top)
  BY <1>2, TopIsText
<1>4. top \in Nat /\ Lies(chain, buffer, v, P, m, top)
  <2>1. top \in Nat
    BY <1>1, <1>3
  <2> QED
    BY <1>1, <1>2, <1>3, <2>1, LiesPart
<1>5. ReadOut(all, v, P, m, a, top)
  <2>1. \A k \in 0..m : ReadOut(Items(chain, buffer, P[k], top), v, P, m, k, top)
    BY <1>1, <1>2, <1>3, <1>4, ItemsForth
  <2> QED
    BY <1>2, <2>1
<1>6. PICK l \in Nat : LongAs(all, l) /\ l >= m - a /\ (P[m] = top => l = m - a)
  BY <1>5 DEF ReadOut
<1>7. \A j \in 1..m - a : all[j] = Item(v[a + j], P[a + j - 1])
  BY <1>5 DEF ReadOut
<1>8. (\A k \in 1..l : all[k].at \in Nat) /\ \A i, j \in 1..l : i < j => all[i].at < all[j].at
  <2> DEFINE p == P[a]
             F == AllItems(chain, buffer, top)
  <2>1. p \in 0..top
    BY <1>2, <1>4 DEF Lies
  <2>2. PICK i \in 0..top - p : ItemsFrom(F[p], i, F, p, top)
    <3> HIDE DEF p
    <3> QED
      BY <1>1, <1>4, <2>1, ItemsShape
  <2>3. F[p] = all
    BY <2>1 DEF AllItems
  <2> HIDE DEF F, p
  <2>4. i = l
    BY <1>6, <2>2, <2>3 DEF ItemsFrom, LongAs
  <2>5. /\ \A k \in 1..i : all[k].at \in p..top - 1
        /\ \A k, j \in 1..i : k < j => all[k].at < all[j].at
    BY <2>2, <2>3 DEF ItemsFrom
  <2>6. ASSUME NEW k \in 1..l PROVE all[k].at \in Nat
    <3> DEFINE q == all[k].at
    <3>1. q \in p..top - 1
      BY <2>4, <2>5
    <3>2. p \in Nat /\ top \in Nat
      BY <1>4, <2>1
    <3> HIDE DEF q
    <3>3. q \in Nat
      BY <3>1, <3>2
    <3> QED
      BY <3>3 DEF q
  <2> QED
    BY <2>4, <2>5, <2>6
<1>9. hend \in Nat
  BY <1>1, <1>2 DEF Lies
<1>10. h \in 0..l /\ \A k \in 1..l : all[k].at < hend <=> k <= h
  <2> HIDE DEF hend
  <2> QED
    BY <1>6, <1>8, <1>9, HitPart
<1> HIDE DEF h, hend
<1>11. \A x, y : Item(x, y).val = x /\ Item(x, y).at = y
  BY DEF Item
<1>12. \A k \in 1..m - a : all[k].val = v[a + k] /\ all[k].at = P[a + k - 1]
  <2> SUFFICES ASSUME NEW k \in 1..m - a PROVE all[k].val = v[a + k] /\ all[k].at = P[a + k - 1]
    OBVIOUS
  <2>1. all[k] = Item(v[a + k], P[a + k - 1])
    BY <1>7, Zenon
  <2> DEFINE x == v[a + k]
             y == P[a + k - 1]
             item == all[k]
  <2> HIDE DEF x, y, item
  <2>2. item = Item(x, y)
    BY <2>1 DEF x, y, item
  <2>3. item.val = x /\ item.at = y
    BY <1>11, <2>2
  <2> QED
    BY <2>3 DEF x, y, item
<1>13. b - a <= h
  <2> SUFFICES ASSUME a < b PROVE b - a <= h
    BY <1>2, <1>10
  <2>1. b - a \in 1..m - a /\ b - a \in 1..l /\ a + (b - a) - 1 = b - 1 /\ b \in 1..n
    BY <1>1, <1>2, <1>6
  <2>2. all[b - a].at = P[b - 1]
    BY <1>12, <2>1
  <2>3. P[b - 1] < hend
    BY <1>1, <2>1 DEF Lies, hend
  <2> QED
    BY <1>10, <2>1, <2>2, <2>3
<1>14. m < b + trailing \/ trailing = 0 => l = m - a
  BY <1>3, <1>6
<1>15. h <= b - a
  <2> SUFFICES ASSUME ~(h <= b - a) PROVE FALSE
    OBVIOUS
  <2> DEFINE k == (b - a) + 1
  <2>1. k \in 1..l /\ k <= h
    BY <1>2, <1>10
  <2>2. all[k].at < hend
    BY <1>10, <2>1
  <2>3. CASE b < m
    <3>1. k \in 1..m - a /\ a + k - 1 = b
      BY <1>2, <2>3
    <3>2. all[k].at = hend
      BY <1>12, <3>1 DEF hend
    <3> QED
      BY <1>9, <2>2, <3>2
  <2>4. CASE b = m
    <3>1. l = m - a
      BY <1>2, <1>14, <2>4
    <3> QED
      BY <1>2, <2>1, <2>4, <3>1
  <2> QED
    BY <1>2, <2>3, <2>4
<1>16. h = b - a
  BY <1>2, <1>10, <1>13, <1>15
<1> DEFINE rest == SubSeq(all, (b - a) + 1, l)
<1>17. Len(rest) = l - (b - a)
  <2> DEFINE x == b - a
  <2>1. x \in Nat /\ x <= l /\ l <= l
    BY <1>2, <1>6
  <2> HIDE DEF x
  <2>2. IsPart(SubSeq(all, x + 1, l), all, x, l)
    BY <1>6, <2>1, PartOfSequence
  <2>3. Len(SubSeq(all, x + 1, l)) = l - x
    BY <2>2 DEF IsPart, LongAs
  <2> QED
    BY <2>3 DEF x
<1> HIDE DEF rest
<1>18. Taken(rest, trailing) = m - b
  <2>1. CASE trailing = 0
    <3>1. Taken(rest, trailing) = Len(rest)
      BY <2>1 DEF Taken
    <3> QED
      BY <1>2, <1>6, <1>14, <1>17, <2>1, <3>1
  <2>2. CASE trailing # 0
    <3> DEFINE r == Len(rest)
    <3>1. Taken(rest, trailing) = Min({trailing, r})
      BY <2>2 DEF Taken
    <3>2. trailing \in Int /\ r \in Int
      BY <1>2, <1>6, <1>17
    <3>3. r = l - (b - a)
      BY <1>17
    <3> HIDE DEF r
    <3>4. Min({trailing, r}) = IF trailing <= r THEN trailing ELSE r
      BY <3>2, MinOfTwo
    <3> QED
      BY <1>2, <1>6, <1>14, <3>1, <3>3, <3>4
  <2> QED
    BY <2>1, <2>2
<1> QED
  BY <1>6, <1>12, <1>16, <1>18 DEF BackOf, rest, h, hend

\* A window of the text: d characters in front of the a-th place, the hit up to the b-th, and
\* those behind it up to the m-th.
TextWindow(w, v, a, b, m, d) ==
  /\ LongAs(w.items, (d + (m - a)) + 1) /\ w.begin = d /\ w.end = d + (b - a)
  /\ \A k \in 1..d + (m - a) : w.items[k].val = v[(a - d) + k]

\* So decode gives one.
LEMMA DecodedIsText ==
  ASSUME NEW chain, NEW buffer, NEW v, NEW P, NEW n, IsText(chain, buffer, v, P, n),
         NEW a \in 0..n, NEW b \in a..n, NEW leading \in Nat, NEW trailing \in Nat,
         NEW d, Lesser(d, a, leading), NEW m, Lesser(m, n, b + trailing),
         NEW w, w = Decode(chain, buffer, P[a], P[b], leading, trailing)
  PROVE  TextWindow(w, v, a, b, m, d)
<1> DEFINE hbeg == P[a]
           hend == P[b]
           top == Min({hend + trailing * MaxByteLength(chain), Len(buffer)})
           lead == Leading(chain, buffer, hbeg, leading)
           all == Items(chain, buffer, hbeg, top)
           h == HitLength(all, hend)
           hit == SubSeq(all, 1, h)
           rest == SubSeq(all, h + 1, Len(all))
           taken == Taken(rest, trailing)
           front == LastOf(lead.items, leading)
           back == hit \o SubSeq(rest, 1, taken)
           z == Item(WindowEnd, IF taken < Len(rest) THEN rest[taken + 1].at ELSE top)
<1>1. n \in Nat /\ m \in Nat /\ a \in Nat /\ b \in Nat /\ a <= b /\ b <= m /\ d \in Nat
  BY DEF IsText, Lesser
<1>2. w.items = front \o back \o <<z>> /\ w.begin = Len(front) /\ w.end = Len(front) + Len(hit)
  <2>1. w = Window(front, lead.invBad, hit, rest, taken, top)
    BY DEF Decode, WithTrailing, WindowAround
  <2> DEFINE x == front \o back \o <<z>>
             y == (UIntMax - lead.invBad + CountBad(back)) % (UIntMax + 1)
  <2> HIDE DEF front, lead, hit, rest, taken, top, all
  <2>2. w = [items |-> x, begin |-> Len(front), end |-> Len(front) + Len(hit), bad |-> y]
    BY <2>1, Zenon DEF Window
  <2> HIDE DEF x, y
  <2>3. w.items = x /\ w.begin = Len(front) /\ w.end = Len(front) + Len(hit)
    BY <2>2
  <2> QED
    BY <2>3 DEF x
<1>3. LongAs(front, d) /\ \A k \in 1..d : front[k].val = v[(a - d) + k]
  BY FrontIsText
<1>4. PICK l : BackOf(all, l, v, a, b, m, hend, trailing)
  BY BackIsText
<1> HIDE DEF front, lead, z, all, top, hbeg, hend
<1>5. /\ l \in Nat /\ LongAs(all, l) /\ Len(all) = l /\ m - a <= l /\ h = b - a
      /\ \A k \in 1..m - a : all[k].val = v[a + k]
  BY <1>4 DEF BackOf, LongAs
<1>6. taken = m - b
  BY <1>4, <1>5 DEF BackOf
<1> HIDE DEF h, taken
<1>7. h \in Nat /\ taken \in Nat /\ h + taken = m - a /\ h <= l /\ h + taken <= l /\ taken <= l - h /\ l - h \in Nat
  <2>1. h = b - a /\ l \in Nat /\ m - a <= l
    BY <1>5
  <2> QED
    BY <1>1, <1>6, <2>1
<1>8. LongAs(hit, h) /\ \A k \in 1..h : hit[k] = all[k]
  <2>1. IsPart(SubSeq(all, 0 + 1, h), all, 0, h)
    BY <1>5, <1>7, PartOfSequence
  <2>2. 0 + 1 = 1 /\ h - 0 = h /\ \A k \in 1..h : 0 + k = k
    BY <1>7
  <2> QED
    BY <2>1, <2>2 DEF IsPart
<1>9. LongAs(rest, l - h) /\ \A k \in 1..l - h : rest[k] = all[h + k]
  <2>1. l <= l
    BY <1>5
  <2>2. IsPart(SubSeq(all, h + 1, l), all, h, l)
    BY <1>5, <1>7, <2>1, PartOfSequence
  <2> QED
    BY <1>5, <2>2 DEF IsPart
<1> DEFINE some == SubSeq(rest, 1, taken)
<1> HIDE DEF hit, rest
<1>10. LongAs(some, taken) /\ \A k \in 1..taken : some[k] = rest[k]
  <2> DEFINE r == l - h
  <2>1. r \in Nat /\ LongAs(rest, r) /\ taken <= r
    BY <1>7, <1>9
  <2> HIDE DEF r
  <2>2. IsPart(SubSeq(rest, 0 + 1, taken), rest, 0, taken)
    BY <1>7, <2>1, PartOfSequence
  <2>3. 0 + 1 = 1 /\ taken - 0 = taken /\ \A k \in 1..taken : 0 + k = k
    BY <1>7
  <2> QED
    BY <2>2, <2>3 DEF IsPart
<1> HIDE DEF some
<1>11. Joins(back, hit, h, some, taken)
  <2>1. back = hit \o some
    BY DEF some
  <2> QED
    BY <1>7, <1>8, <1>10, <2>1, JoinSequences
<1> HIDE DEF back
<1> DEFINE c == m - a
<1>12. c \in Nat /\ c = h + taken
  BY <1>1, <1>7
<1>13. LongAs(back, c) /\ \A k \in 1..c : back[k] = all[k]
  <2>1. LongAs(back, c)
    BY <1>11, <1>12 DEF Joins
  <2>2. ASSUME NEW k \in 1..c PROVE back[k] = all[k]
    <3>1. CASE k <= h
      <4>1. k \in 1..h
        BY <1>7, <1>12, <3>1
      <4> QED
        BY <1>8, <1>11, <4>1 DEF Joins
    <3>2. CASE ~(k <= h)
      <4> DEFINE j == k - h
      <4>1. j \in 1..taken /\ j \in 1..l - h /\ h + j = k
        BY <1>7, <1>12, <3>2
      <4> HIDE DEF j
      <4>2. back[h + j] = some[j] /\ some[j] = rest[j] /\ rest[j] = all[h + j]
        BY <1>9, <1>10, <1>11, <4>1 DEF Joins
      <4> QED
        BY <4>1, <4>2
    <3> QED
      BY <3>1, <3>2
  <2> QED
    BY <2>1, <2>2
<1>14. \A k \in 1..c : all[k].val = v[a + k]
  BY <1>5
<1> HIDE DEF c
<1> DEFINE shown == front \o back
           e == d + c
<1>15. Joins(shown, front, d, back, c)
  BY <1>1, <1>3, <1>12, <1>13, JoinSequences
<1>16. e \in Nat /\ LongAs(shown, e)
  BY <1>1, <1>12, <1>15 DEF Joins
<1> HIDE DEF shown
<1>17. \A k \in 1..e : shown[k].val = v[(a - d) + k]
  <2> SUFFICES ASSUME NEW k \in 1..e PROVE shown[k].val = v[(a - d) + k]
    OBVIOUS
  <2>1. CASE k <= d
    <3>1. k \in 1..d
      BY <1>1, <1>16, <2>1
    <3>2. shown[k] = front[k]
      BY <1>15, <3>1 DEF Joins
    <3> QED
      BY <1>3, <3>1, <3>2
  <2>2. CASE ~(k <= d)
    <3> DEFINE j == k - d
    <3>1. j \in 1..c /\ d + j = k /\ a + j = (a - d) + k
      BY <1>1, <1>12, <2>2
    <3> HIDE DEF j
    <3>2. shown[d + j] = back[j] /\ back[j] = all[j]
      BY <1>13, <1>15, <3>1 DEF Joins
    <3> QED
      BY <1>14, <3>1, <3>2
  <2> QED
    BY <2>1, <2>2
<1> HIDE DEF e
<1>18. Joins(w.items, shown, e, <<z>>, 1)
  <2>1. w.items = shown \o <<z>>
    BY <1>2 DEF shown
  <2>2. LongAs(<<z>>, 1)
    BY OneElement
  <2> QED
    BY <1>16, <2>1, <2>2, JoinSequences
<1>19. LongAs(w.items, e + 1) /\ \A k \in 1..e : w.items[k].val = v[(a - d) + k]
  BY <1>17, <1>18 DEF Joins
<1>20. w.begin = d /\ w.end = d + (b - a)
  BY <1>2, <1>3, <1>5, <1>8 DEF LongAs
<1> QED
  BY <1>19, <1>20 DEF TextWindow, e, c

-----------------------------------------------------------------------------
(* The window of an input that is a text.                                  *)

\* The bytes of the first n characters of a text.
LEMMA TextBytesMeans ==
  ASSUME NEW chain, KnownChain(chain), NEW n \in Nat, NEW t, LongAs(t, n), NEW v, NEW G,
         CodesOfText(chain, G, v, n), \A k \in 1..n : t[k] = v[k]
  PROVE  TextBytes(chain, t) = First(G, n)
<1> DEFINE W == ToSet(t)
           code == EncoderOf(chain, W).code
           x == [k \in 1..n |-> IF t[k] < 0 THEN <<-t[k] - 1>> ELSE code[t[k]]]
           y == [k \in 1..n |-> G[k]]
<1>1. DOMAIN t = 1..n
  BY SequenceMeans
<1>2. \A k \in 1..n : IsChar(chain.encoding, t[k]) /\ t[k] \in Nat /\ G[k] = CodeIn(chain, t[k])
  <2> SUFFICES ASSUME NEW k \in 1..n
               PROVE  IsChar(chain.encoding, t[k]) /\ t[k] \in Nat /\ G[k] = CodeIn(chain, t[k])
    OBVIOUS
  <2>1. IsChar(chain.encoding, t[k]) /\ G[k] = CodeIn(chain, t[k])
    BY DEF CodesOfText
  <2> QED
    BY <2>1, CharIsNumber
<1>3. W = {t[k] : k \in 1..n}
  BY <1>1 DEF ToSet
<1>4. W \subseteq Nat
  BY <1>2, <1>3
<1>5. TextBytes(chain, t) = FlattenSeq(x)
  BY <1>1 DEF TextBytes
<1> HIDE DEF W
<1>6. CodesOfChain(code, chain, W)
  BY <1>4, EncoderCodes
<1> HIDE DEF code
<1>7. ASSUME NEW k \in 1..n PROVE x[k] = G[k]
  <2>1. t[k] \in W /\ t[k] \in Nat /\ ~(t[k] < 0)
    BY <1>2, <1>3
  <2>2. t[k] \in DOMAIN code /\ code[t[k]] = CodeIn(chain, t[k])
    BY <1>2, <1>6, <2>1 DEF CodesOfChain
  <2>3. x[k] = code[t[k]]
    BY <2>1
  <2> QED
    BY <1>2, <2>2, <2>3
<1>8. x = y
  <2>1. x = [k \in 1..n |-> x[k]]
    OBVIOUS
  <2> HIDE DEF x
  <2> QED
    BY <1>7, <2>1
<1> QED
  BY <1>5, <1>8 DEF First

\* The codes of the characters of an input, and the places where they begin.
InputCodes == [k \in DOMAIN input.text |-> CodeIn(input.chain, input.text[k])]
InputPlaces == Places(InputCodes, Len(input.text), 0)

\* The text of an input is of characters.
Textual == \A k \in DOMAIN input.text : input.text[k] >= 0

\* What an input of characters is: its buffer is its text, whose pieces start at its places.
LEMMA InputIsText ==
  ASSUME input \in Inputs, Textual
  PROVE  /\ input.text \in Seq(Int) /\ Len(input.text) \in Nat
         /\ IsText(input.chain, input.buffer, input.text, InputPlaces, Len(input.text))
         /\ PieceStarts = [k \in 1..Len(input.text) + 1 |-> InputPlaces[k - 1]]
<1> DEFINE chain == input.chain
           v == input.text
           n == Len(v)
           G == InputCodes
           P == InputPlaces
           buffer == input.buffer
<1>1. /\ chain \in Chains /\ buffer \in Seq(0..255) /\ Len(buffer) <= UIntMax /\ v \in Seq(Int)
      /\ buffer = TextBytes(chain, v)
      /\ \A k \in DOMAIN v : v[k] >= 0 => v[k] \in DOMAIN EncoderOf(chain, {v[k]}).code
  BY InputsAssumption, ZenonT(60)
<1>2. KnownChain(chain)
  BY <1>1, ChainsAssumption DEF KnownChain, Encodings
<1>3. n \in Nat /\ LongAs(v, n) /\ DOMAIN v = 1..n /\ \A k \in 1..n : v[k] \in Int /\ v[k] >= 0
  <2>1. n \in Nat /\ LongAs(v, n) /\ DOMAIN v = 1..n
    BY <1>1, LenProperties, SeqIsSequence DEF LongAs
  <2>2. \A k \in 1..n : v[k] \in Int
    BY <1>1, <2>1, ElementOfSeq
  <2> QED
    BY <2>1, <2>2 DEF Textual
<1>4. G = [k \in 1..n |-> CodeIn(chain, v[k])]
  BY <1>3 DEF InputCodes
<1>5. P = Places(G, n, 0)
  BY DEF InputPlaces
<1>6. PieceStarts = [k \in 1..n + 1 |-> Len(TextBytes(chain, SubSeq(v, 1, k - 1)))]
  BY DEF PieceStarts
<1> HIDE DEF chain, v, n, G, P, buffer
<1>7. ASSUME NEW k \in 1..n PROVE IsChar(chain.encoding, v[k])
  <2> DEFINE c == v[k]
  <2>1. k \in DOMAIN v /\ c \in Int /\ c >= 0
    BY <1>3
  <2>2. v[k] >= 0 => v[k] \in DOMAIN EncoderOf(chain, {v[k]}).code
    BY <1>1, <2>1, Zenon
  <2>3. c \in DOMAIN EncoderOf(chain, {c}).code
    BY <2>1, <2>2, Zenon
  <2> HIDE DEF c
  <2>4. c \in Nat
    BY <2>1
  <2>5. CodesOfChain(EncoderOf(chain, {c}).code, chain, {c})
    BY <1>2, <2>4, EncoderCodes
  <2>6. IsChar(chain.encoding, c)
    BY <2>3, <2>4, <2>5 DEF CodesOfChain
  <2> QED
    BY <2>6 DEF c
<1>8. CodesOfText(chain, G, v, n)
  BY <1>4, <1>7 DEF CodesOfText
<1>9. ASSUME NEW k \in 0..n PROVE TextBytes(chain, SubSeq(v, 1, k)) = First(G, k)
  <2> DEFINE t == SubSeq(v, 1, k)
  <2>1. k \in Nat /\ k <= n /\ k - 0 = k /\ 0 + 1 = 1 /\ \A j \in 1..k : 0 + j = j
    BY <1>3
  <2>2. IsPart(SubSeq(v, 0 + 1, k), v, 0, k)
    BY <1>3, <2>1, PartOfSequence
  <2>3. LongAs(t, k) /\ \A j \in 1..k : t[j] = v[j]
    BY <2>1, <2>2 DEF IsPart
  <2> HIDE DEF t
  <2>4. CodesOfText(chain, G, v, k)
    BY <1>3, <1>8, <2>1 DEF CodesOfText
  <2>5. TextBytes(chain, t) = First(G, k)
    BY <1>2, <2>1, <2>3, <2>4, TextBytesMeans
  <2> QED
    BY <2>5 DEF t
<1>10. buffer = First(G, n)
  <2>1. \A k \in 1..n : v[k] = v[k]
    OBVIOUS
  <2> QED
    BY <1>1, <1>2, <1>3, <1>8, <2>1, TextBytesMeans
<1>11. Lies(chain, buffer, v, P, n, Len(buffer)) /\ P[n] = Len(buffer)
  <2>1. \A i \in 1..Len(First(G, n)) : buffer[0 + i] = First(G, n)[i]
    BY <1>10
  <2>2. /\ Lies(chain, buffer, v, Places(G, n, 0), n, 0 + Len(First(G, n)))
        /\ Places(G, n, 0)[n] = 0 + Len(First(G, n))
    BY <1>2, <1>3, <1>8, <2>1, TextLies
  <2>3. 0 + Len(First(G, n)) = Len(buffer)
    BY <1>1, <1>10, LenProperties
  <2> QED
    BY <1>5, <2>2, <2>3
<1>12. AllSeqs(G, 0..255, n)
  BY <1>2, <1>3, <1>8, TextIsBytes
<1>13. ASSUME NEW k \in 0..n PROVE P[k] = Len(First(G, k)) /\ First(G, k) \in Seq(0..255)
  <2> DEFINE S == 0..255
  <2>1. k \in Nat /\ AllSeqs(G, S, k)
    BY <1>3, <1>12 DEF AllSeqs
  <2> HIDE DEF S
  <2>2. First(G, k) \in Seq(S)
    BY <2>1, FirstNext
  <2>3. Len(First(G, k)) \in Nat
    BY <2>2, LenProperties
  <2>4. P[k] = 0 + Len(First(G, k))
    BY <1>5 DEF Places
  <2> QED
    BY <2>2, <2>3, <2>4 DEF S
<1>14. P[0] = 0
  <2> DEFINE S == 0..255
  <2>1. 0 \in Nat /\ AllSeqs(G, S, 0) /\ 0 \in 0..n
    BY <1>3 DEF AllSeqs
  <2> HIDE DEF S
  <2>2. First(G, 0) = <<>>
    BY <2>1, FirstNext
  <2>3. Len(<<>>) = 0
    OBVIOUS
  <2> QED
    BY <1>13, <2>1, <2>2, <2>3
<1>15. IsText(chain, buffer, v, P, n)
  BY <1>1, <1>2, <1>3, <1>11, <1>14 DEF IsText
<1>16. PieceStarts = [k \in 1..n + 1 |-> P[k - 1]]
  <2>1. ASSUME NEW k \in 1..n + 1 PROVE Len(TextBytes(chain, SubSeq(v, 1, k - 1))) = P[k - 1]
    <3>1. k - 1 \in 0..n
      BY <1>3
    <3> DEFINE i == k - 1
    <3> HIDE DEF i
    <3>2. i \in 0..n
      BY <3>1 DEF i
    <3>3. Len(TextBytes(chain, SubSeq(v, 1, i))) = P[i]
      BY <1>9, <1>13, <3>2
    <3> QED
      BY <3>3 DEF i
  <2> QED
    BY <1>6, <2>1
<1> QED
  BY <1>1, <1>3, <1>15, <1>16 DEF chain, v, n, P, buffer

\* The window that the client holds of a text is of that text.
LEMMA WindowIsText == ASSUME WindowKept PROVE ContextIsText
<1> DEFINE v == input.text
           n == Len(v)
           P == InputPlaces
<1> SUFFICES ASSUME call.name = "read", Textual,
                    NEW i \in DOMAIN PieceStarts, NEW j \in DOMAIN PieceStarts,
                    i <= j, PieceStarts[i] = call.begin, PieceStarts[j] = call.end
             PROVE  LET from == Max({1, i - call.leading})
                        to   == Min({n, j - 1 + call.trailing})
                    IN /\ [k \in 1..Len(answer.items) - 1 |-> answer.items[k].val] = SubSeq(v, from, to)
                       /\ answer.begin = i - from /\ answer.end = j - from
  BY DEF ContextIsText, Textual
<1> DEFINE leading == call.leading
           trailing == call.trailing
           a == i - 1
           b == j - 1
           from == Max({1, i - leading})
           to == Min({n, j - 1 + trailing})
           d == IF a <= leading THEN a ELSE leading
           m == IF n <= b + trailing THEN n ELSE b + trailing
           s == answer.items
<1>1. /\ input \in Inputs /\ leading \in Nat /\ trailing \in Nat
      /\ answer = Decode(input.chain, input.buffer, call.begin, call.end, leading, trailing)
  BY DEF WindowKept
<1>2. /\ v \in Seq(Int) /\ n \in Nat /\ IsText(input.chain, input.buffer, v, P, n)
      /\ PieceStarts = [k \in 1..n + 1 |-> P[k - 1]]
  BY <1>1, InputIsText
<1> HIDE DEF v, n, P, leading, trailing
<1>3. i \in 1..n + 1 /\ j \in 1..n + 1 /\ call.begin = P[i - 1] /\ call.end = P[j - 1]
  <2>1. DOMAIN PieceStarts = 1..n + 1
    BY <1>2
  <2> QED
    BY <1>2, <2>1
<1>4. a \in 0..n /\ b \in a..n /\ a \in Nat /\ b \in Nat
  BY <1>2, <1>3
<1>5. answer = Decode(input.chain, input.buffer, P[a], P[b], leading, trailing)
  BY <1>1, <1>3
<1>6. Lesser(d, a, leading) /\ Lesser(m, n, b + trailing) /\ b <= m
  <2> HIDE DEF a, b
  <2>1. leading \in Nat /\ trailing \in Nat
    BY <1>1
  <2>2. n \in Nat /\ b <= n
    BY <1>2, <1>4
  <2>3. Lesser(d, a, leading)
    BY <1>4, <2>1 DEF Lesser
  <2>4. Lesser(m, n, b + trailing) /\ b <= m
    BY <1>4, <2>1, <2>2 DEF Lesser
  <2> QED
    BY <2>3, <2>4
<1>7. from = (a - d) + 1 /\ to = m
  <2>1. 1 \in Int /\ i - leading \in Int /\ n \in Int /\ j - 1 + trailing \in Int
    BY <1>1, <1>2, <1>3
  <2>2. from = IF 1 <= i - leading THEN i - leading ELSE 1
    BY <2>1, MinOfTwo
  <2>3. to = IF n <= j - 1 + trailing THEN n ELSE j - 1 + trailing
    BY <2>1, MinOfTwo
  <2>4. from = (a - d) + 1
    BY <1>1, <1>3, <2>2
  <2>5. to = m
    BY <1>1, <1>2, <1>3, <2>3
  <2> QED
    BY <2>4, <2>5
<1>8. d \in Nat /\ d <= a /\ m \in Nat /\ m <= n /\ i = a + 1 /\ j = b + 1
  BY <1>2, <1>3, <1>6 DEF Lesser
<1> HIDE DEF from, to, d, m, a, b
<1>9. TextWindow(answer, v, a, b, m, d)
  BY <1>1, <1>2, <1>4, <1>5, <1>6, DecodedIsText
<1> HIDE DEF s
<1> DEFINE e == d + (m - a)
<1>10. /\ LongAs(s, e + 1) /\ answer.begin = d /\ answer.end = d + (b - a)
       /\ \A k \in 1..e : s[k].val = v[(a - d) + k]
  BY <1>9 DEF TextWindow, s
<1>11. e \in Nat /\ e = m - (a - d) /\ a - d \in Nat /\ a - d <= m
  BY <1>4, <1>6, <1>8
<1> HIDE DEF e
<1>12. [k \in 1..Len(s) - 1 |-> s[k].val] = SubSeq(v, from, to)
  <2> DEFINE c == a - d
             t == SubSeq(v, c + 1, m)
  <2> HIDE DEF c
  <2>1. LongAs(v, n)
    BY <1>2, SeqIsSequence DEF LongAs, n
  <2>2. c \in Nat /\ c <= m /\ m <= n /\ m \in Nat /\ m - c = e
    BY <1>8, <1>11 DEF c
  <2>3. IsPart(t, v, c, m)
    BY <1>2, <2>1, <2>2, PartOfSequence
  <2>4. LongAs(t, e) /\ \A k \in 1..e : t[k] = v[c + k]
    BY <2>2, <2>3 DEF IsPart
  <2>5. t = SubSeq(v, from, to)
    BY <1>7 DEF c
  <2> HIDE DEF t
  <2>6. t = [k \in 1..e |-> t[k]]
    BY <1>11, <2>4, SequenceMeans
  <2>7. Len(s) - 1 = e
    BY <1>10, <1>11 DEF LongAs
  <2>8. \A k \in 1..e : s[k].val = t[k]
    BY <1>10, <2>4 DEF c
  <2> QED
    BY <2>5, <2>6, <2>7, <2>8
<1>13. answer.begin = i - from /\ answer.end = j - from
  BY <1>4, <1>7, <1>8, <1>10
<1> QED
  BY <1>12, <1>13 DEF from, to, s, n, leading, trailing

\* In a buffer of text, every hit on whole characters has as its window the characters in front
\* of it, it, and those behind it, as many as asked for: whatever the encoding, a start inside
\* a character is found out, and how many bytes are read behind the hit does not show.
THEOREM ContextIsTextAlways == Spec => []ContextIsText
<1>1. WindowKept => ContextIsText
  BY WindowIsText
<1> QED
  BY <1>1, WindowKeptAlways, PTL
==============================================================================
