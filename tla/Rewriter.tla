-------------------------------- MODULE Rewriter --------------------------------
(***************************************************************************)
(* The rewriter of parse trees (src/src/lib/rewriter.cpp, and reduce of    *)
(* parser.cpp).  The source changes nodes in place under their parent;     *)
(* here each pass returns the tree it leaves, and its Boolean result is    *)
(* that the tree is another one.                                           *)
(***************************************************************************)
EXTENDS ParseTree

\* hasZeroLengthMatch
RECURSIVE HasZeroLengthMatch(_)
HasZeroLengthMatch(n) ==
  \/ n.type = "EMPTY"
  \/ n.type = "ALTERNATION" /\ (HasZeroLengthMatch(n.left) \/ HasZeroLengthMatch(n.right))
  \/ n.type = "CONCATENATION" /\ HasZeroLengthMatch(n.left) /\ HasZeroLengthMatch(n.right)
  \/ IsRepetition(n) /\ (n.min = 0 \/ HasZeroLengthMatch(n.left))

\* has_only_zero_length_match: of an alternation it looks at the left side only.
RECURSIVE HasOnlyZeroLengthMatch(_)
HasOnlyZeroLengthMatch(n) ==
  \/ n.type = "EMPTY"
  \/ n.type = "ALTERNATION" /\ HasOnlyZeroLengthMatch(n.left)
  \/ /\ n.type = "CONCATENATION"
     /\ HasOnlyZeroLengthMatch(n.left) /\ HasOnlyZeroLengthMatch(n.right)
  \/ IsRepetition(n) /\ ((n.min = 0 /\ n.max = 0) \/ HasOnlyZeroLengthMatch(n.left))

\* The dummy a subtree without a byte to match is replaced with: x{0}.
Dummy == Repetition(Literal(120), 0, 0)

RECURSIVE ReduceEmptySubtrees(_)
ReduceEmptySubtrees(n) ==
  IF HasOnlyZeroLengthMatch(n) THEN Dummy
  ELSE IF ~IsBinary(n) /\ ~IsRepetition(n) THEN n
  ELSE LET l == ReduceEmptySubtrees(n.left)
           r == ReduceEmptySubtrees(n.right)
       IN CASE IsRepetition(n) -> [n EXCEPT !.left = l]
            \* ST{0} and T{0}S are S
            [] n.type = "CONCATENATION" /\ HasOnlyZeroLengthMatch(l) -> r
            [] n.type = "CONCATENATION" /\ ~HasOnlyZeroLengthMatch(l)
                 /\ HasOnlyZeroLengthMatch(r) -> l
            \* S|T{0} is S?
            [] n.type = "ALTERNATION" /\ HasOnlyZeroLengthMatch(r) -> Repetition(l, 0, 1)
            [] OTHER -> [n EXCEPT !.left = l, !.right = r]

\* A whole tree that matches nothing but the empty string loses its root's child.
ReduceEmpty(tree) ==
  IF HasOnlyZeroLengthMatch(tree) THEN Empty ELSE ReduceEmptySubtrees(tree)

\* T{1} and T{1}? are T, T{n}? is T{n}.
RECURSIVE PruneUseless(_)
PruneUseless(n) ==
  CASE IsRepetition(n) /\ n.min = 1 /\ n.max = 1 -> PruneUseless(n.left)
    [] n.type = "REPETITION_NG" /\ n.min = n.max /\ n.min # 1 ->
         [n EXCEPT !.type = "REPETITION"]
    [] OTHER -> n

\* Below the node a child is replaced with, the children in their turn.
RECURSIVE ReduceUseless(_)
ReduceUseless(tree) ==
  LET n == PruneUseless(tree) IN
  CASE IsBinary(n)     -> [n EXCEPT !.left = ReduceUseless(@), !.right = ReduceUseless(@)]
    [] IsRepetition(n) -> [n EXCEPT !.left = ReduceUseless(@)]
    [] OTHER           -> n

\* combinable: two repetitions of one kind and of the same bounds and body.
Combinable(x, y) == IsRepetition(x) /\ x = y

Sum2(x, y) == IF Unbounded \in {x, y} THEN Unbounded ELSE x + y
\* Faulty variant: the least number of times is not summed.
CombinedAtMost(x, y) == [x EXCEPT !.max = Sum2(@, y.max)]
Combined(x, y) == [x EXCEPT !.min = @ + y.min, !.max = Sum2(@, y.max)]

\* T{a,b}T{c,d} becomes T{a+c,b+d}, the two being siblings or uncle and nephew.
RECURSIVE CombineConsecutive(_)
CombineConsecutive(n) ==
  LET l == CombineConsecutive(n.left)
      r == CombineConsecutive(n.right)
  IN CASE IsRepetition(n) -> [n EXCEPT !.left = l]
       [] n.type = "CONCATENATION" /\ Combinable(l, r) -> Combined(l, r)
       [] n.type = "CONCATENATION" /\ r.type = "CONCATENATION" /\ Combinable(l, r.left) ->
            [n EXCEPT !.left = Combined(l, r.left), !.right = r.right]
       [] IsBinary(n) -> [n EXCEPT !.left = l, !.right = r]
       [] OTHER -> n

\* One turn per node: (e f) d under b becomes e (f d).
RECURSIVE MakeRightAssociative(_)
MakeRightAssociative(n) ==
  LET l == MakeRightAssociative(n.left)
      r == MakeRightAssociative(n.right)
  IN CASE IsRepetition(n) -> [n EXCEPT !.left = l]
       [] IsBinary(n) /\ l.type = n.type ->
            [l EXCEPT !.right = [n EXCEPT !.left = l.right, !.right = r]]
       [] IsBinary(n) /\ l.type # n.type -> [n EXCEPT !.left = l, !.right = r]
       [] OTHER -> n

\* T{a,b}?T{c,d} becomes T{a+c,a+d}; below, a T that is no repetition is T{1,1}.
RECURSIVE NongreedyThenGreedy(_)
NongreedyThenGreedy(n) ==
  LET r == NongreedyThenGreedy(n.right)
      Greedy(c, d) ==
        NongreedyThenGreedy(Repetition(n.left.left, n.left.min + c, Sum2(n.left.min, d)))
  IN CASE IsRepetition(n) -> [n EXCEPT !.left = NongreedyThenGreedy(@)]
       [] n.type = "ALTERNATION" -> [n EXCEPT !.left = NongreedyThenGreedy(@), !.right = r]
       [] n.type = "CONCATENATION" /\ n.left.type = "REPETITION_NG" ->
            IF r.type = "REPETITION" /\ n.left.left = r.left THEN Greedy(r.min, r.max)
            ELSE IF n.left.left = r THEN Greedy(1, 1)
            ELSE [n EXCEPT !.right = r]
       [] n.type = "CONCATENATION" /\ n.left.type # "REPETITION_NG" -> [n EXCEPT !.right = r]
       [] OTHER -> n

\* S{n,m}? at the end, or before what may be empty, becomes S{n}.
Least(n) == [n EXCEPT !.type = "REPETITION", !.max = n.min]

RECURSIVE NongreedyThenEmpty(_)
NongreedyThenEmpty(n) ==
  CASE n.type = "REPETITION"    -> [n EXCEPT !.left = NongreedyThenEmpty(@)]
    [] n.type = "REPETITION_NG" -> [Least(n) EXCEPT !.left = NongreedyThenEmpty(@)]
    [] n.type = "ALTERNATION" ->
         [n EXCEPT !.left = NongreedyThenEmpty(@), !.right = NongreedyThenEmpty(@)]
    [] n.type = "CONCATENATION" ->
         [n EXCEPT !.left = CASE ~HasZeroLengthMatch(n.right) -> @
                              [] HasZeroLengthMatch(n.right) /\ @.type = "REPETITION_NG" -> Least(@)
                              [] OTHER -> NongreedyThenEmpty(@),
                   !.right = NongreedyThenEmpty(@)]
    [] OTHER -> n

\* The source looks for ? and { in the text of the pattern, which a tree with such
\* a repetition always has.
MayBeNongreedy(tree) == \E n \in Subtrees(tree) : n.type = "REPETITION_NG"
MayBeCounted(tree) ==
  \E n \in Subtrees(tree) :
    IsRepetition(n) /\ <<n.min, n.max>> \notin {<<0, 1>>, <<0, Unbounded>>, <<1, Unbounded>>}

\* reduce
Reduce(tree) ==
  LET combined == CombineConsecutive(MakeRightAssociative(tree))
      greedy == IF MayBeNongreedy(tree) THEN NongreedyThenGreedy(NongreedyThenEmpty(combined))
                ELSE combined
      nonempty == ReduceEmpty(greedy)
  IN IF greedy # tree \/ MayBeCounted(tree)
     THEN IF nonempty = Empty THEN Empty ELSE ReduceUseless(nonempty)
     ELSE greedy
=============================================================================
