-------------------------------- MODULE Decoders --------------------------------
(***************************************************************************)
(* Decoders (include/decoders, src/src/lib/decoders) and the chains that   *)
(* name an encoder or a decoder (chain.cpp, encoderfactory.cpp,            *)
(* decoderfactory.cpp): [rot, encoding, bytes], where bytes is "identity"  *)
(* or "OCE".                                                               *)
(*                                                                         *)
(* A decoder reads a range of a buffer item by item: [val, at], a code     *)
(* point and the offset of its first byte, or -b-1 for a byte b that       *)
(* starts no code.  The queue of bytes read ahead, at most four, is the    *)
(* rest of the range.                                                      *)
(***************************************************************************)
EXTENDS Encoders

CONSTANTS OCE, unOCE   \* the tables of OCEEncoder and OCEDecoder

\* Two permutations of the bytes, each the inverse of the other.
ASSUME TablesInvert ==
  /\ OCE \in [0..255 -> 0..255] /\ unOCE \in [0..255 -> 0..255]
  /\ \A b \in 0..255 : unOCE[OCE[b]] = b /\ OCE[unOCE[b]] = b

Chain(rot, encoding, bytes) == [rot |-> rot, encoding |-> encoding, bytes |-> bytes]

MaxByteLength(chain) == IF chain.encoding = "ASCII" THEN 1 ELSE 4

\* EncoderFactory::get, for the code points of W.
EncoderOf(chain, W) ==
  LET V == W \cup {Rotated(chain.rot, c) : c \in W}
      base == CASE chain.encoding = "ASCII"    -> Ascii(V)
                [] chain.encoding = "UTF-8"    -> UTF8(V)
                [] chain.encoding = "UTF-16LE" -> UTF16LE(V)
                [] chain.encoding = "UTF-16BE" -> UTF16BE(V)
                [] chain.encoding = "UTF-32LE" -> UTF32LE(V)
                [] chain.encoding = "UTF-32BE" -> UTF32BE(V)
      bytewise == IF chain.bytes = "OCE" THEN Bytewise(OCE, base) ELSE base
  IN IF chain.rot = 0 THEN bytewise ELSE Rot(chain.rot, bytewise, W)
-----------------------------------------------------------------------------
Step(val, used) == [val |-> val, used |-> used]
NoCode == Step(0, 0)

\* utf8_to_cp: how long the code is that a byte starts, and the point of n bytes.
Utf8Length(b) ==
  CASE b < 128        -> 1
    [] b \in 194..223 -> 2
    [] b \in 224..239 -> 3
    [] b \in 240..244 -> 4
    [] OTHER          -> 0

Utf8Point(s, n) ==
  LET Low(k) == s[k] % 64
  IN CASE n = 1 -> s[1]
       [] n = 2 -> 64 * (s[1] % 32) + Low(2)
       [] n = 3 -> 4096 * (s[1] % 16) + 64 * Low(2) + Low(3)
       [] n = 4 -> 262144 * (s[1] % 8) + 4096 * Low(2) + 64 * Low(3) + Low(4)

Utf8ToCp(s) ==
  LET n == Utf8Length(s[1])
      least == <<0, 128, 2048, 65536>>
  IN IF /\ n \in 1..Len(s)
        /\ \A k \in 2..n : s[k] \in 128..191
        /\ Utf8Point(s, n) >= least[n] /\ IsUnicode(Utf8Point(s, n))
     THEN Step(Utf8Point(s, n), n) ELSE NoCode

\* The unit of two bytes at k.
UnitAt(s, k, littleEndian) ==
  IF littleEndian THEN s[k] + 256 * s[k + 1] ELSE 256 * s[k] + s[k + 1]

\* Faulty variant: any unit may follow a high surrogate.
Utf16ToCpAnyTrail(s, littleEndian) ==
  LET Unit(k) == UnitAt(s, k, littleEndian)
  IN CASE Len(s) >= 2 /\ Unit(1) \notin Surrogates -> Step(Unit(1), 2)
       [] Len(s) >= 4 /\ Unit(1) \in 55296..56319 ->
            Step(1024 * (Unit(1) - (55296 - 64)) + (Unit(3) % 1024), 4)
       [] OTHER -> NoCode

\* utf16_to_cp
Utf16ToCp(s, littleEndian) ==
  LET Unit(k) == UnitAt(s, k, littleEndian)
  IN CASE Len(s) >= 2 /\ Unit(1) \notin Surrogates -> Step(Unit(1), 2)
       [] Len(s) >= 4 /\ Unit(1) \in 55296..56319 /\ Unit(3) \in 56320..57343 ->
            Step(1024 * (Unit(1) - (55296 - 64)) + Unit(3) - 56320, 4)
       [] OTHER -> NoCode

\* utf32_to_cp
Utf32ToCp(s, littleEndian) ==
  LET digits == IF littleEndian THEN Reverse(s) ELSE s
      cp == 65536 * digits[2] + 256 * digits[3] + digits[4]
  IN IF Len(s) = 4 /\ digits[1] = 0 /\ IsUnicode(cp) THEN Step(cp, 4) ELSE NoCode

CodeAt(encoding, s) ==
  CASE encoding = "ASCII"    -> IF s[1] < 128 THEN Step(s[1], 1) ELSE NoCode
    [] encoding = "UTF-8"    -> Utf8ToCp(s)
    [] encoding = "UTF-16LE" -> Utf16ToCp(s, TRUE)
    [] encoding = "UTF-16BE" -> Utf16ToCp(s, FALSE)
    [] encoding = "UTF-32LE" -> Utf32ToCp(s, TRUE)
    [] encoding = "UTF-32BE" -> Utf32ToCp(s, FALSE)

\* OCEDecoder
Undone(chain, b) == IF chain.bytes = "OCE" THEN unOCE[b] ELSE b

\* RotDecoder turns letters back; a bad byte is below them.
Unrotated(rot, c) == Rotated(26 - rot, c)

Item(val, at) == [val |-> val, at |-> at]
BadByte(b, at) == Item(-b - 1, at)

\* The items of the bytes from..to-1 of a buffer: reset, then next until END.
Items(chain, buffer, from, to) ==
  LET Window(p) == [k \in 1..Min({4, to - p}) |-> Undone(chain, buffer[p + k])]
      Rest[p \in from..to] ==
        LET s == Window(p)
            step == CodeAt(chain.encoding, s)
        IN IF p = to THEN <<>>
           ELSE IF step.used = 0
             THEN <<BadByte(s[1], p)>> \o Rest[p + 1]
             ELSE <<Item(Unrotated(chain.rot, step.val), p)>> \o Rest[p + step.used]
  IN Rest[from]
=============================================================================
