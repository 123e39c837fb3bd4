------------------------------- MODULE NfaBuilder -------------------------------
(***************************************************************************)
(* NFABuilder (src/src/lib/nfabuilder.cpp): parse tree to NFA, one         *)
(* fragment per subtree.  A fragment is a list of the vertices that enter  *)
(* it, a list of the vertices that leave it, each with the position where  *)
(* the next edges go among its out edges, and the position in the list of  *)
(* entries at which the fragment may be skipped, NoSkip if it may not.     *)
(*                                                                         *)
(* The stack of fragments is the recursion over the tree.                  *)
(***************************************************************************)
EXTENDS Nfa, ParseTree, Classes

NoSkip == 1000000     \* NOSKIP, larger than any list
NoVertex == -1        \* no vertex yet

\* Every builder step takes and returns the graph built so far and a fragment.
Built(g, in, out, skip) == [g |-> g, in |-> in, out |-> out, skip |-> skip]
FullFragment(g, v) == Built(g, <<v>>, <<<<v, 0>>>>, NoSkip)

-----------------------------------------------------------------------------
\* Edges from each vertex of src to each of dst: those before dstskip go
\* before the insertion point, which then stands between the two groups.
PatchMid(b, dst, dstskip) ==
  LET before == IF dstskip < Len(dst) THEN dstskip ELSE Len(dst)
      Patch(acc, k) ==
        LET v == b.out[k][1]  pos == b.out[k][2] IN
        [acc EXCEPT
          !.g.out[v] = SubSeq(@, 1, pos) \o dst \o SubSeq(@, pos + 1, Len(@)),
          !.out[k] = <<v, pos + before>>]
  IN FoldLeft(Patch, b, [k \in 1..Len(b.out) |-> k])

PatchPre(b, dst)  == PatchMid(b, dst, Len(dst))
PatchPost(b, dst) == PatchMid(b, dst, 0)

\* One vertex per byte of the encoded code point, in a row.
BuildLiteral(n, g, enc) ==
  LET bytes == enc.code[n.val]
      first == NextVertex(g)
      Chain(h, k) ==
        LET with == AddVertex(h, Vertex({bytes[k]}, Unlabelled, FALSE))
        IN IF k = 1 THEN with ELSE AddEdge(with, first + k - 2, first + k - 1)
  IN Built(FoldLeft(Chain, g, [k \in 1..Len(bytes) |-> k]),
           <<first>>, <<<<first + Len(bytes) - 1, 0>>>>, NoSkip)

BuildByte(n, g) ==
  FullFragment(AddVertex(g, Vertex({n.val}, Unlabelled, FALSE)), NextVertex(g))

NodeCodes(n, enc) == ClassCodes(enc, n.set, n.bytes, n.additive)

\* A code enters the fragment: it shares the longest suffix that the fragment has,
\* found by walking back from a tail, and its other bytes are put in front.
AddCode(b, code) ==
  LET Bytes(v) == b.g.vertex[v].bytes
      tails == {k \in DOMAIN b.out : Bytes(b.out[k][1]) = Last(code)}
      WalkBack(s, k) ==
        LET same == {h \in Vertices(b.g) : s.tail \in ToSet(b.g.out[h]) /\ Bytes(h) = code[k]}
        IN IF s.left = k /\ same # {} THEN [s EXCEPT !.tail = CHOOSE h \in same : TRUE, !.left = k - 1]
           ELSE s
      suffix == FoldRight(LAMBDA k, s : WalkBack(s, k), [k \in 1..Len(code) - 1 |-> k],
                  [tail |-> b.out[CHOOSE k \in tails : \A j \in tails : k <= j][1],
                   left |-> Len(code) - 1])
      New(at) == NextVertex(at.g)
      Put(k, at) ==
        LET with == AddVertex(at.g, Vertex(code[k], Unlabelled, FALSE))
        IN [g |-> IF at.tail = NoVertex THEN with ELSE AddEdge(with, New(at), at.tail),
            tail |-> New(at)]
      from == IF tails = {} THEN [tail |-> NoVertex, left |-> Len(code)] ELSE suffix
      whole == FoldRight(Put, [k \in 1..from.left |-> k], [g |-> b.g, tail |-> from.tail])
  IN Built(whole.g, Append(b.in, whole.tail),
           IF tails = {} THEN Append(b.out, <<NextVertex(b.g), 0>>) ELSE b.out, NoSkip)

BuildClass(n, g, enc) ==
  FoldLeft(AddCode, Built([g EXCEPT !.deterministic = FALSE], <<>>, <<>>, NoSkip),
           NodeCodes(n, enc))

\* What the encoder cannot write throws: a code point it lacks, a class left empty.
Encodable(n, enc) ==
  CASE n.type = "LITERAL"    -> n.val \in DOMAIN enc.code
    [] n.type = "CHAR_CLASS" -> NodeCodes(n, enc) # <<>>
    [] OTHER                 -> TRUE

Question(b) == [b EXCEPT !.skip = IF @ > Len(b.in) THEN Len(b.in) ELSE @]
QuestionNG(b) == [b EXCEPT !.skip = 0]
Plus(b)   == PatchPre(b, b.in)
PlusNG(b) == PatchPost(b, b.in)
Star(b)   == Question(Plus(b))
StarNG(b) == QuestionNG(PlusNG(b))

\* r was built after l, in l's graph.
Alternate(l, r) ==
  Built(r.g, l.in \o r.in, l.out \o r.out,
        CASE l.skip # NoSkip -> l.skip
          [] l.skip = NoSkip /\ r.skip # NoSkip -> Len(l.in) + r.skip
          [] OTHER -> NoSkip)

Concatenate(l, r) ==
  LET p == PatchMid([l EXCEPT !.g = r.g], r.in, r.skip) IN
  Built(p.g,
        IF l.skip = NoSkip THEN l.in
        ELSE SubSeq(l.in, 1, l.skip) \o r.in \o SubSeq(l.in, l.skip + 1, Len(l.in)),
        IF r.skip = NoSkip THEN r.out ELSE p.out \o r.out,
        IF NoSkip \in {l.skip, r.skip} THEN NoSkip ELSE l.skip + r.skip)
-----------------------------------------------------------------------------
\* The repetitions that have an operator of their own.
Special(n) == <<n.min, n.max>> \in {<<0, 1>>, <<0, Unbounded>>, <<1, Unbounded>>}

Repeat(n, b) ==
  LET greedy == n.type = "REPETITION" IN
  CASE <<n.min, n.max>> = <<0, 1>>         -> IF greedy THEN Question(b) ELSE QuestionNG(b)
    [] <<n.min, n.max>> = <<0, Unbounded>> -> IF greedy THEN Star(b) ELSE StarNG(b)
    [] OTHER                               -> IF greedy THEN Plus(b) ELSE PlusNG(b)

\* The tree traverse synthesises for T{n,m}: T...T(T(T...)?)?, T...TT+ or T...T.
RECURSIVE Times(_, _)
Times(T, k) == IF k = 1 THEN T ELSE Concatenation(T, Times(T, k - 1))

RECURSIVE Options(_, _, _)
Options(n, T, k) ==
  [n EXCEPT !.left = IF k = 1 THEN T ELSE Concatenation(T, Options(n, T, k - 1)),
            !.min = 0, !.max = 1]

RECURSIVE Prepend(_, _, _)
Prepend(T, k, tail) == IF k = 0 THEN tail ELSE Concatenation(T, Prepend(T, k - 1, tail))

Counted(n) ==
  CASE n.min = n.max -> Times(n.left, n.min)
    [] n.max = Unbounded ->
         IF n.min = 0 THEN n ELSE Prepend(n.left, n.min - 1, [n EXCEPT !.min = 1])
    [] OTHER -> Prepend(n.left, n.min, Options(n, n.left, n.max - n.min))

RECURSIVE Build(_, _, _)
Build(n, g, enc) ==
  CASE n.type = "LITERAL"    -> BuildLiteral(n, g, enc)
    [] n.type = "BYTE"       -> BuildByte(n, g)
    [] n.type = "CHAR_CLASS" -> BuildClass(n, g, enc)
    [] n.type = "DOT"        -> BuildClass(CharClass(DOMAIN enc.code), g, enc)
    [] n.type = "ALTERNATION" ->
         LET l == Build(n.left, g, enc) IN Alternate(l, Build(n.right, l.g, enc))
    [] n.type = "CONCATENATION" ->
         LET l == Build(n.left, g, enc) IN Concatenate(l, Build(n.right, l.g, enc))
    [] OTHER -> IF Special(n) THEN Repeat(n, Build(n.left, g, enc)) ELSE Build(Counted(n), g, enc)

\* build and finish: the start is concatenated with the tree, and what leaves
\* the result matches.  A tree that matches the empty string is refused.
MatchesEmpty(tree, enc) == tree = Empty \/ Build(tree, StartOnly, enc).skip # NoSkip

Buildable(tree, enc) ==
  (\A n \in Subtrees(tree) : Encodable(n, enc)) /\ ~MatchesEmpty(tree, enc)

Finish(b, label) ==
  LET whole == Concatenate([FullFragment(StartOnly, 0) EXCEPT !.g = b.g], b)
      final == {o[1] : o \in ToSet(whole.out)}
  IN [whole.g EXCEPT !.vertex = [v \in DOMAIN @ |->
        IF v \in final THEN [@[v] EXCEPT !.label = label, !.match = TRUE] ELSE @[v]]]

Nfab(tree, enc, label) == Finish(Build(tree, StartOnly, enc), label)
=============================================================================
