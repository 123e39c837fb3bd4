-------------------------------- MODULE Patterns --------------------------------
(***************************************************************************)
(* Patterns over three bytes, for the model-checking modules: shorthands   *)
(* for parse trees, and lists and sets of patterns by what they exercise.  *)
(***************************************************************************)
EXTENDS Integers, Sequences

B == INSTANCE NfaBuilder
R == INSTANCE Rewriter

PByte == 0..2

\* The encoding of these patterns: code points 0, 1 and 2 are themselves.
OneByte == B!Plain([cp \in PByte |-> <<cp>>])

a == B!Literal(0)
b == B!Literal(1)
c == B!Literal(2)
dot == B!Dot
ab  == B!CharClass({0, 1})
bc  == B!CharClass({1, 2})
ac  == B!CharClass({0, 2})
Cat(l, r) == B!Concatenation(l, r)
Or(l, r)  == B!Alternation(l, r)
Rep(n, min, max) == B!Repetition(n, min, max)
RepNG(n, min, max) == B!RepetitionNG(n, min, max)
Opt(n)  == Rep(n, 0, 1)
Star(n) == Rep(n, 0, B!Unbounded)
Plus(n) == Rep(n, 1, B!Unbounded)
OptNG(n)  == RepNG(n, 0, 1)
StarNG(n) == RepNG(n, 0, B!Unbounded)
PlusNG(n) == RepNG(n, 1, B!Unbounded)

\* ab, held back while it may still become abbba: other threads are overtaken by it late.
Tentative == Cat(a, Cat(b, Opt(Cat(b, Cat(b, a)))))

\* Lists of one pattern.
Single == <<
  <<Cat(a, b)>>, <<Plus(a)>>, <<Cat(Plus(a), b)>>, <<Cat(a, Star(b))>>,
  <<Cat(PlusNG(a), b)>>, <<Cat(a, Cat(StarNG(dot), b))>>, <<Cat(a, Cat(Star(dot), b))>>,
  <<Or(Cat(a, b), a)>>, <<Or(a, Cat(a, b))>>, <<Plus(Or(Cat(a, b), b))>>,
  <<Cat(Star(Or(a, Cat(a, b))), b)>>, <<Rep(Or(a, Cat(a, b)), 2, 3)>>,
  <<Cat(Opt(a), Cat(Opt(a), b))>>, <<Cat(OptNG(a), Cat(OptNG(b), a))>>,
  <<Cat(dot, Cat(a, b))>>, <<Or(Cat(a, Cat(a, b)), Cat(b, a))>>,
  <<Cat(Plus(Cat(a, Opt(b))), a)>>, <<Cat(dot, Or(a, Cat(bc, b)))>>,
  <<Or(Tentative, Cat(b, Cat(Plus(dot), b)))>>, <<Or(Tentative, Cat(b, Cat(dot, b)))>> >>

\* Lists of patterns that share states, or the place of their matches.
Several == <<
  <<a, Cat(a, b)>>, <<Cat(a, b), Cat(b, a)>>, <<Cat(a, Star(b)), Cat(b, Star(a))>>,
  <<Cat(a, b), Cat(a, b)>>, <<Plus(a), Cat(a, Cat(Star(dot), b))>>,
  <<Cat(a, Cat(a, b)), Cat(a, Cat(b, a)), b>>, <<Cat(a, Cat(b, Opt(a))), Cat(a, Star(b))>>,
  <<Or(a, b), Cat(ab, ab)>>, <<Cat(a, Plus(b)), Cat(a, PlusNG(ab)), Cat(dot, a)>>,
  <<Cat(a, Cat(Opt(b), a)), Cat(a, Cat(b, a))>>,
  <<Or(Cat(a, b), Cat(b, Cat(Plus(b), a))), Cat(b, Cat(Plus(b), ac))>>,
  <<Or(Cat(a, Cat(b, b)), b), Cat(a, Cat(b, a))>> >>

\* Enough alternatives on few bytes for jump tables with indirect tables.
Tables == <<
  <<Or(Cat(a, a), Or(Cat(b, a), Or(Cat(a, b), Cat(c, a))))>>,
  <<Cat(a, b), Cat(b, a), Cat(b, b), Cat(a, Plus(a)), c>>,
  <<Cat(a, Or(Cat(a, a), Or(Cat(b, a), Or(Cat(a, Star(b)), Cat(c, b)))))>>,
  <<Cat(a, Cat(ab, b)), Cat(a, Cat(b, a)), Cat(dot, b), Cat(b, Cat(Star(dot), a))>> >>

\* Threads of the second alternative pile up behind one of the first.
Growing == << <<Or(Cat(a, Cat(Star(dot), c)), Cat(b, Cat(Star(dot), c)))>> >>

\* Every concatenation and alternation of two small units.
Units == {a, b, dot} \cup {Opt(n) : n \in {a, ab}} \cup {Star(n) : n \in {b, dot}}
         \cup {Plus(n) : n \in {a, ab}} \cup {OptNG(a), StarNG(dot), PlusNG(b), Rep(a, 1, 2)}
Products == {Cat(l, r) : l \in Units, r \in Units} \cup {Or(l, r) : l \in Units, r \in Units}

\* Trees for the rewriter: what it sums up, moves and drops, in either order.
Parts == {a, Opt(a), Plus(a), Rep(a, 1, 2), RepNG(a, 1, 2), PlusNG(a), OptNG(b), Rep(b, 0, 0)}
Rewritten ==
  UNION {{Cat(l, Cat(m, r)), Cat(Cat(l, m), r), Or(Cat(b, l), Cat(m, r)), Or(Cat(l, m), Or(b, r))}
           : l \in Parts, m \in Parts, r \in Parts}
  \cup {Cat(Rep(Cat(b, n), min, 2), RepNG(n, min, max)) : n \in Parts \ {OptNG(b), Rep(b, 0, 0)},
          min \in 1..2, max \in 2..3}

\* Trees that the rewriter gives another meaning.
Misread == {Cat(Or(Rep(a, 0, 0), b), c), Rep(Cat(a, OptNG(b)), 2, 2),
            Cat(Plus(Or(a, Cat(a, b))), Plus(Or(a, Cat(a, b))))}

\* Code points of one, two and three bytes, some with a common end.
Scaled ==
  LET codes == << <<0>>, <<1, 0>>, <<1, 1>>, <<2, 0, 0>>, <<2, 1, 0>>, <<2, 1, 1>>, <<2, 2, 2>> >>
  IN B!Plain([cp \in 0..6 |-> codes[cp + 1]])
Classes ==
  {B!CharClassWith(S, bytes, additive) :
     S \in SUBSET (0..6), bytes \in {{}, {0}}, additive \in BOOLEAN}
Classed == Classes \cup {Cat(Plus(n), a) : n \in Classes} \cup {Cat(b, dot), dot, c}

\* Patterns to add in every order.
Mixed == {a, Cat(a, b), Cat(a, Star(b)), Cat(dot, a), Cat(b, Or(a, c)), Or(Cat(a, a), Cat(c, b)),
          Cat(Plus(a), b), Cat(a, Cat(Star(dot), b)), Cat(Opt(a), ab), Star(a)}
=============================================================================
