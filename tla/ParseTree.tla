------------------------------- MODULE ParseTree -------------------------------
(***************************************************************************)
(* Parse trees (include/parsenode.h) and what they mean: the matches of a  *)
(* pattern in order of preference, by which the rewriter, the builder and  *)
(* the machine are judged.  The root of a tree stands for its child; Empty *)
(* is a root that the rewriter left without one.                           *)
(***************************************************************************)
EXTENDS Encoders

Unbounded == 1000000  \* UNBOUNDED

Literal(c)         == [type |-> "LITERAL", val |-> c]
RawByte(b)         == [type |-> "BYTE", val |-> b]
Dot                == [type |-> "DOT"]
\* A class of code points, with bytes that are added to it or taken from it.
CharClassWith(S, bytes, additive) ==
  [type |-> "CHAR_CLASS", set |-> S, bytes |-> bytes, additive |-> additive]
CharClass(S)       == CharClassWith(S, {}, TRUE)
Alternation(l, r)  == [type |-> "ALTERNATION", left |-> l, right |-> r]
Concatenation(l, r) == [type |-> "CONCATENATION", left |-> l, right |-> r]
Repetition(n, min, max)   == [type |-> "REPETITION", left |-> n, min |-> min, max |-> max]
RepetitionNG(n, min, max) == [type |-> "REPETITION_NG", left |-> n, min |-> min, max |-> max]
Empty              == [type |-> "EMPTY"]

IsBinary(n)     == n.type \in {"ALTERNATION", "CONCATENATION"}
IsRepetition(n) == n.type \in {"REPETITION", "REPETITION_NG"}

RECURSIVE Subtrees(_)
Subtrees(n) ==
  {n} \cup (IF IsBinary(n) \/ IsRepetition(n) THEN Subtrees(n.left) ELSE {})
      \cup (IF IsBinary(n) THEN Subtrees(n.right) ELSE {})
-----------------------------------------------------------------------------
(* The meaning of a tree, by the manual of the pattern language: S|T       *)
(* prefers S, greedy repetitions prefer to go on, reluctant ones to stop.  *)

\* The ends of the byte sequences of codes that stand in txt after i bytes.
EndsOfCodes(codes, txt, i) ==
  {i + Len(s) : s \in {u \in codes : u # <<>> /\ i + Len(u) <= Len(txt)
                                     /\ SubSeq(txt, i + 1, i + Len(u)) = u}}

\* The byte sequences of a leaf under an encoder.  Codes of one encoding are prefix
\* free, so no two of them stand at one place.
CodesOf(n, enc) ==
  CASE n.type = "LITERAL" -> {enc.code[c] : c \in {n.val} \cap DOMAIN enc.code}
    [] n.type = "BYTE"    -> {<<n.val>>}
    [] n.type = "DOT"     -> {enc.code[c] : c \in DOMAIN enc.code}
    [] OTHER ->
         LET codes == {enc.code[c] : c \in n.set \cap DOMAIN enc.code}
             single == {<<b>> : b \in n.bytes}
         IN IF n.additive THEN codes \cup single ELSE codes \ single

\* The ends of the matches of n in txt after i bytes, the preferred one first.  A
\* turn of a repetition beyond the minimum consumes something.
RECURSIVE Ends(_, _, _, _)
RECURSIVE EndsAfter(_, _, _, _)
Ends(n, enc, txt, i) ==
  LET left == Ends(n.left, enc, txt, i)
      Again(min) == [n EXCEPT !.min = min, !.max = IF @ = Unbounded THEN @ ELSE @ - 1]
      more == EndsAfter(SelectSeq(left, LAMBDA e : e > i), Again(0), enc, txt)
  IN CASE n.type = "ALTERNATION"   -> left \o Ends(n.right, enc, txt, i)
       [] n.type = "CONCATENATION" -> EndsAfter(left, n.right, enc, txt)
       [] ~IsRepetition(n)         -> Listed(EndsOfCodes(CodesOf(n, enc), txt, i))
       [] n.max = 0                -> <<i>>
       [] n.min > 0                -> EndsAfter(left, Again(n.min - 1), enc, txt)
       [] n.type = "REPETITION"    -> more \o <<i>>
       [] n.type = "REPETITION_NG" -> <<i>> \o more

\* The ends of n after each of the ends already reached, in order.
EndsAfter(reached, n, enc, txt) ==
  IF reached = <<>> THEN <<>>
  ELSE Ends(n, enc, txt, Head(reached)) \o EndsAfter(Tail(reached), n, enc, txt)

NoEnd == -1

\* The end of the match of n that starts after i bytes, or NoEnd.
MatchOf(n, enc, txt, i) ==
  LET ends == Ends(n, enc, txt, i) IN IF ends = <<>> THEN NoEnd ELSE ends[1]

\* Leftmost matches that do not overlap, among those that start in from..last.
RECURSIVE LeftmostOf(_, _, _, _, _)
LeftmostOf(n, enc, txt, from, last) ==
  LET starts == {s \in from..last : MatchOf(n, enc, txt, s) # NoEnd}
      start  == CHOOSE s \in starts : \A u \in starts : s <= u
      end    == MatchOf(n, enc, txt, start)
  IN IF starts = {} THEN <<>>
     ELSE <<<<start, end>>>> \o LeftmostOf(n, enc, txt, end, last)
=============================================================================
