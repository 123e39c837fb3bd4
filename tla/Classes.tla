--------------------------------- MODULE Classes ---------------------------------
(***************************************************************************)
(* Character classes: the parser's (src/src/lib/re_grammar.ypp,            *)
(* parseutil.cpp) and what NFABuilder has the encoder write for them.      *)
(*                                                                         *)
(* A class is its code points, its breakout bytes, and whether these are   *)
(* added to the codes of the code points or taken away from them.          *)
(***************************************************************************)
EXTENDS Encoders, RangeSet
-----------------------------------------------------------------------------
(* What the parser makes of the items of a bracket expression.             *)

Class(points, bytes, additive) == [points |-> points, bytes |-> bytes, additive |-> additive]

IsClass(x) ==
  /\ x \in [points : Seq(0..CodePointEnd), bytes : SUBSET (0..255), additive : BOOLEAN]
  /\ IsRangeSet(x.points)

CharAtom(c)     == Class(SetPoint(<<>>, c), {}, TRUE)
RangeAtom(a, b) == Class(Insert(<<>>, a, b + 1), {}, TRUE)   \* a < b, or the parser throws
ByteAtom(b)     == Class(<<>>, {b}, TRUE)

\* BYTE '-' BYTE: ByteSet::set sets bits up to a whole byte, whole bytes, and bits.
ByteRangeAtom(a, b) ==
  LET end   == b + 1
      up    == Min({end, 8 * ((a + 7) \div 8)})
      whole == IF end - up >= 8 THEN 8 * (end \div 8) ELSE up
  IN Class(<<>>, {x \in 0..255 : (a <= x /\ x < up) \/ (up <= x /\ x < whole) \/ (whole <= x /\ x < end)}, TRUE)

\* c-[...] and \zhh-[...]: the hyphen is an item of its own.
CharHyphenClass(c, class) == [class EXCEPT !.points = SetPoint(SetPoint(@, c), 45)]
ByteHyphenClass(b, class) == [class EXCEPT !.points = SetPoint(@, 45), !.bytes = @ \cup {b}]

\* The named classes; "ascii" is a pattern that is not in Unicode mode.
InsertAll(ranges) == InsertRanges(<<>>, ranges)
SetDigitClass == InsertAll(<< <<48, 58>> >>)
SetWordClass  == InsertAll(<< <<48, 58>>, <<65, 91>>, <<95, 96>>, <<97, 123>> >>)
SetSpaceClass == InsertAll(<< <<9, 14>>, <<32, 33>> >>)
SetHorizontalSpaceClass ==
  InsertAll(<< <<9, 10>>, <<32, 33>>, <<160, 161>>, <<5760, 5761>>, <<6158, 6159>>,
               <<8192, 8203>>, <<8239, 8240>>, <<8287, 8288>>, <<12288, 12289>> >>)
SetVerticalSpaceClass == InsertAll(<< <<10, 14>>, <<133, 134>>, <<8232, 8234>> >>)

\* A small letter is its set, a capital the complement.
Named(letter) ==
  CASE letter = "d" -> SetDigitClass           [] letter = "D" -> Flip(SetDigitClass)
    [] letter = "s" -> SetSpaceClass           [] letter = "S" -> Flip(SetSpaceClass)
    [] letter = "h" -> SetHorizontalSpaceClass [] letter = "H" -> Flip(SetHorizontalSpaceClass)
    [] letter = "v" -> SetVerticalSpaceClass   [] letter = "V" -> Flip(SetVerticalSpaceClass)
    [] letter = "w" -> SetWordClass            [] letter = "W" -> Flip(SetWordClass)
NamedAtom(letter) == Class(Named(letter), {}, TRUE)

\* Juxtaposition, &&, -- and ~~: the left operand says whether bytes are added.
Operated(op, x, y) ==
  CASE op = "union" -> [x EXCEPT !.points = OrPoints(@, y.points), !.bytes = @ \cup y.bytes]
    [] op = "and"   -> [x EXCEPT !.points = AndPoints(@, y.points), !.bytes = @ \cap y.bytes]
    [] op = "minus" -> [x EXCEPT !.points = MinusPoints(@, y.points), !.bytes = @ \ y.bytes]
    [] op = "xor"   -> [x EXCEPT !.points = XorPoints(@, y.points),
                                 !.bytes = (@ \ y.bytes) \cup (y.bytes \ @)]

\* ICU's closure under case; folds are the sets of code points equal but for case.
CloseOver(points, folds) ==
  LET found == UNION {F \in folds : \E c \in F : HasPoint(points, c)}
  IN InsertRanges(points, SetToSeq({<<c, c + 1>> : c \in found}))

\* caseDesensitizeUnicode: the closure is taken over when it has grown.
CaseDesensitize(points, folds) ==
  LET closed == CloseOver(points, folds)
  IN IF CountPoints(closed) = CountPoints(points) THEN points ELSE closed

\* '[' ... ']' and '[^' ... ']', without and with case.
Positive(x, folds) == [x EXCEPT !.points = CaseDesensitize(@, folds)]

\* Faulty variant: code points are flipped before they are closed over case.
NegatedBeforeCase(x, folds) ==
  IF x.points # <<>>
  THEN [x EXCEPT !.points = CaseDesensitize(Flip(@), folds),
                 !.additive = IF x.bytes # {} THEN FALSE ELSE @]
  ELSE IF x.bytes # {} THEN [x EXCEPT !.bytes = 0..255 \ @]
  ELSE [x EXCEPT !.points = Flip(@)]

Negative(x, folds) ==
  IF x.points # <<>>
  THEN [x EXCEPT !.points = Flip(CaseDesensitize(@, folds)),
                 !.additive = IF x.bytes # {} THEN FALSE ELSE @]
  ELSE IF x.bytes # {} THEN [x EXCEPT !.bytes = 0..255 \ @]
  ELSE [x EXCEPT !.points = Flip(@)]

Closed(negated, x, folds) == IF negated THEN Negative(x, folds) ELSE Positive(x, folds)

\* The parser throws for a class without members; for a negated one it looks at the
\* part that it negated.
EmptyClass(negated, x, folds) ==
  LET y == Closed(negated, x, folds)
  IN IF negated /\ x.points # <<>> THEN y.points = <<>> ELSE y.points = <<>> /\ y.bytes = {}
-----------------------------------------------------------------------------
\* NFABuilder::charClass.  Bytes are added to the codes of one byte, which come first, or
\* taken from them.
WithBytes(codes, bytes, additive) ==
  LET single == codes # <<>> /\ Len(codes[1]) = 1
      WithFirst(B) == IF B = {} THEN Tail(codes) ELSE <<<<B>>>> \o Tail(codes)
  IN CASE bytes = {}                         -> codes
       [] bytes # {} /\ additive /\ single   -> WithFirst(codes[1][1] \cup bytes)
       [] bytes # {} /\ additive /\ ~single  -> Append(codes, <<bytes>>)
       [] bytes # {} /\ ~additive /\ single  -> WithFirst(codes[1][1] \ bytes)
       [] OTHER                              -> codes

\* The codes of a class with the code points S.
ClassCodes(e, S, bytes, additive) == WithBytes(Codes(e, S), bytes, additive)
=============================================================================
