-------------------------------- MODULE Encoders --------------------------------
(***************************************************************************)
(* Encoders (src/src/lib/encoderbase.cpp, utfbase.cpp, utf8.cpp, ascii.cpp,*)
(* byteencoder.cpp, charencoder.cpp, include/encoders): the bytes of a     *)
(* code point, and the codes of a set of code points as few sequences of   *)
(* byte sets.                                                              *)
(*                                                                         *)
(* An encoder is a record: code, from the valid code points to their       *)
(* bytes; limits, low and block, for the UTF encoders, which collect       *)
(* ranges block by block; dot, the codes they keep ready for ".".          *)
(* The order of codes of one length has no meaning and is left open.       *)
(***************************************************************************)
EXTENDS RangeSet

Surrogates == 55296..57343    \* 0xD800..0xDFFF
IsUnicode(c) == c \in 0..CodePointEnd - 1 /\ c \notin Surrogates

\* An encoder that collects code point by code point: EncoderBase's own way.
Plain(code) == [code |-> code, block |-> 0]

\* ASCII; W, here and below, is the code points that a run looks at.
Ascii(W) == Plain([c \in {x \in W : x < 128} |-> <<c>>])

\* 0x80 | the lowest six bits
Continuation(x) == 128 + (x % 64)

Utf8Bytes(c) ==
  CASE c < 128   -> <<c>>
    [] c \in 128..2047    -> <<192 + c \div 64, Continuation(c)>>
    [] c \in 2048..65535  -> <<224 + c \div 4096, Continuation(c \div 64), Continuation(c)>>
    [] c > 65535 -> <<240 + c \div 262144, Continuation(c \div 4096), Continuation(c \div 64),
                      Continuation(c)>>

\* The two bytes of a unit and the four of a code point, most significant first.
TwoBytes(x)  == <<x \div 256, x % 256>>
FourBytes(x) == <<x \div 16777216, (x \div 65536) % 256, (x \div 256) % 256, x % 256>>

Utf16Units(c) ==
  IF c < 65536 THEN <<c>> ELSE <<55296 - 64 + c \div 1024, 56320 + (c % 1024)>>

UnitBytes(u, littleEndian) == IF littleEndian THEN Reverse(TwoBytes(u)) ELSE TwoBytes(u)

Utf16Bytes(c, littleEndian) ==
  LET units == Utf16Units(c)
  IN IF Len(units) = 1 THEN UnitBytes(units[1], littleEndian)
     ELSE UnitBytes(units[1], littleEndian) \o UnitBytes(units[2], littleEndian)

Utf32Bytes(c, littleEndian) ==
  IF littleEndian THEN Reverse(FourBytes(c)) ELSE FourBytes(c)

\* The codes kept ready for ".": the tables of CachingUTF8, CachingUTF16LE...
Utf8Dot ==
  << <<0..127>>, <<194..223, 128..191>>,
     <<{224}, 160..191, 128..191>>, <<{237}, 128..159, 128..191>>,
     <<(225..236) \cup (238..239), 128..191, 128..191>>,
     <<{240}, 144..191, 128..191, 128..191>>, <<{244}, 128..143, 128..191, 128..191>>,
     <<241..243, 128..191, 128..191, 128..191>> >>

AnyByte == 0..255
NotSurrogate == (0..215) \cup (224..255)   \* high bytes

Utf16Dot(littleEndian) ==
  LET units == << <<NotSurrogate, AnyByte>>, <<216..219, AnyByte>>, <<220..223, AnyByte>> >>
      U(k) == IF littleEndian THEN Reverse(units[k]) ELSE units[k]
  IN <<U(1), U(2) \o U(3)>>

Utf32LEDot == << <<AnyByte, 216..223, 1..16, {0}>>, <<AnyByte, NotSurrogate, 0..16, {0}>> >>
Utf32BEDot == << <<{0}, {0}, NotSurrogate, AnyByte>>, <<{0}, 1..16, AnyByte, AnyByte>> >>

\* A UTF encoder: where the lengths of codes change, the byte, counted from the
\* end, that runs through a block, and the size of a block.
Utf(W, Bytes(_), limits, low, block, dot) ==
  [code |-> [c \in {x \in W : IsUnicode(x)} |-> Bytes(c)],
   limits |-> limits, low |-> low, block |-> block, dot |-> dot]

UTF8(W) == Utf(W, Utf8Bytes, {128, 2048, 55296, 57344, 65536}, 1, 64, Utf8Dot)
UTF16LE(W) == Utf(W, LAMBDA c : Utf16Bytes(c, TRUE), {55296, 57344, 65536}, 2, 256, Utf16Dot(TRUE))
UTF16BE(W) == Utf(W, LAMBDA c : Utf16Bytes(c, FALSE), {55296, 57344, 65536}, 1, 256, Utf16Dot(FALSE))
UTF32LE(W) == Utf(W, LAMBDA c : Utf32Bytes(c, TRUE), {55296, 57344}, 4, 256, Utf32LEDot)
UTF32BE(W) == Utf(W, LAMBDA c : Utf32Bytes(c, FALSE), {55296, 57344}, 1, 256, Utf32BEDot)

\* ByteEncoder: T is applied to every byte; OCEEncoder has T a fixed permutation.
Bytewise(T, e) == Plain([c \in DOMAIN e.code |-> [k \in DOMAIN e.code[c] |-> T[e.code[c][k]]]])

\* RotEncoder, a CharEncoder: letters move by rot places.
Rotated(rot, c) ==
  CASE c \in 65..90  -> 65 + ((c - 65 + rot) % 26)
    [] c \in 97..122 -> 97 + ((c - 97 + rot) % 26)
    [] OTHER         -> c
Rot(rot, e, W) == Plain([c \in {x \in W : {x, Rotated(rot, x)} \subseteq DOMAIN e.code} |->
                          e.code[Rotated(rot, c)]])
-----------------------------------------------------------------------------
(* Codes of a set: collectRanges and write.                                *)

\* The elements of a set of numbers, the least first.
Ascending(S) ==
  LET rank == [x \in S |-> Cardinality({y \in S : y <= x})]
  IN [k \in 1..Cardinality(S) |-> CHOOSE x \in S : rank[x] = k]

\* The elements of any set, in some order.
Listed(S) ==
  LET Left[k \in 0..Cardinality(S)] ==
        IF k = 0 THEN S ELSE LET before == Left[k - 1] IN before \ {CHOOSE x \in before : TRUE}
  IN [k \in 1..Cardinality(S) |-> CHOOSE x \in Left[k - 1] : TRUE]

Singles(s) == [k \in DOMAIN s |-> {s[k]}]

\* The next code point of the same block.
SameBlock(e, prev, c) ==
  /\ prev + 1 = c
  /\ c \notin e.limits
  /\ Len(e.code[c]) = 1 \/ c % e.block # 0

SamePrefix(s, u) == Len(s) = Len(u) /\ Front(s) = Front(u)

\* Does c belong to the range that ends with prev?  EncoderBase asks for the same bytes up to
\* the last, the UTF encoders for the next code point of the same block.
JoinsRange(e, prev, c) ==
  IF e.block = 0 THEN SamePrefix(e.code[prev], e.code[c]) ELSE SameBlock(e, prev, c)

\* The place of the byte that runs through a range of codes like s.
RunningByte(e, s) == IF e.block = 0 \/ Len(s) = 1 THEN Len(s) ELSE Len(s) + 1 - e.low

\* The ranges of the codes of S: the code of the code point that begins one, with the bytes of
\* all those up to the next range at the place of the running byte.
CollectRanges(e, S) ==
  LET cps     == Ascending(S \cap DOMAIN e.code)
      begins  == {k \in DOMAIN cps : k = 1 \/ ~JoinsRange(e, cps[k - 1], cps[k])}
      After(k) == Min({m \in begins : k < m} \cup {Len(cps) + 1})
      RangeFrom(k) ==
        LET s  == e.code[cps[k]]
            at == RunningByte(e, s)
        IN [Singles(s) EXCEPT ![at] = {e.code[cps[m]][at] : m \in k..After(k) - 1}]
  IN {RangeFrom(k) : k \in begins}

\* Faulty variant: the bytes behind the place are not compared.
EqualUpTo(n, s, u) ==
  Len(s) = Len(u) /\ \A k \in DOMAIN s : k < Len(s) - n => s[k] = u[k]

\* equal_except_at, counted from the end.
EqualExceptAt(n, s, u) ==
  Len(s) = Len(u) /\ \A k \in DOMAIN s : k # Len(s) - n => s[k] = u[k]

\* Codes that differ at the place n from the end only become one.
CollapseAt(n, codes) ==
  LET Class(s) == {u \in codes : EqualExceptAt(n, s, u)}
      Merge(s) == [s EXCEPT ![Len(s) - n] = UNION {u[Len(s) - n] : u \in Class(s)}]
  IN {IF n < Len(s) THEN Merge(s) ELSE s : s \in codes}

\* write: the codes of a set, collapsed at every place, the shortest first.
Write(e, S) ==
  LET final   == CollapseAt(3, CollapseAt(2, CollapseAt(1, CollapseAt(0, CollectRanges(e, S)))))
      Long(n) == Listed({s \in final : Len(s) = n})
  IN Long(1) \o Long(2) \o Long(3) \o Long(4)

\* CachingEncoder: the codes of every valid code point, ".", are kept ready.
Codes(e, S) ==
  IF "dot" \in DOMAIN e /\ DOMAIN e.code \subseteq S THEN e.dot ELSE Write(e, S)
=============================================================================
