------------------------------ MODULE NfaOptimizer ------------------------------
(***************************************************************************)
(* NFAOptimizer (src/src/lib/nfaoptimizer.cpp) and the way FSMThingy uses  *)
(* it: prune each pattern's NFA, merge it into the common one, make the    *)
(* result more deterministic, and choose the vertices at which a thread    *)
(* learns which pattern it runs.                                           *)
(***************************************************************************)
EXTENDS Nfa, FiniteSetsExt

CONSTANT Byte

Unlabelable == -2   \* UNLABELABLE

Bytes(g, v) == g.vertex[v].bytes
-----------------------------------------------------------------------------
(* pruneBranches: an edge is removed when every byte it takes was taken by *)
(* earlier siblings that match, for those win whatever follows.            *)

PruneVertex(g, head) ==
  LET Keep(acc, tail) ==
        LET fresh == Bytes(g, tail) \ acc.matched IN
        [out |-> IF fresh = {} THEN acc.out ELSE Append(acc.out, tail),
         matched |-> IF g.vertex[tail].match THEN acc.matched \cup fresh ELSE acc.matched]
  IN FoldLeft(Keep, [out |-> <<>>, matched |-> {}], g.out[head]).out

\* The walk visits the tails of removed edges as well.
PruneBranches(g) ==
  [g EXCEPT !.out = [v \in DOMAIN @ |->
     IF v \in ReachableFrom(g, 0) THEN PruneVertex(g, v) ELSE g.out[v]]]
-----------------------------------------------------------------------------
(* mergeIntoFSM: a depth-first walk over the edges of src, each of which   *)
(* is mapped to an edge of dst.  A merge state m holds dst, the maps       *)
(* between the vertices, and the position in dst's out lists after which   *)
(* the image of the next sibling must stand.                               *)

\* Faulty variant: in degrees are not looked at.
CanMergeShared(m, src, dstTail, srcTail) ==
  LET d == m.dst.vertex[dstTail]  s == src.vertex[srcTail] IN
  /\ d.label = s.label
  /\ d.label = Unlabelled \/ (OutDegree(src, srcTail) = 0 /\ OutDegree(m.dst, dstTail) = 0)
  /\ d.bytes = s.bytes

CanMerge(m, src, dstTail, srcTail) ==
  LET d == m.dst.vertex[dstTail]  s == src.vertex[srcTail] IN
  /\ d.label = s.label
  /\ d.label = Unlabelled \/ (OutDegree(src, srcTail) = 0 /\ OutDegree(m.dst, dstTail) = 0)
  /\ InDegree(m.dst, dstTail) = 1 /\ InDegree(src, srcTail) = 1
  /\ dstTail \notin DOMAIN m.dst2src \/ InDegree(src, m.dst2src[dstTail]) = 1
  /\ d.bytes = s.bytes

\* The first position of v in list s at or after position from, both counted
\* from 0, and the length of s when it does not occur.
PositionFrom(s, from, Test(_)) ==
  LET at == {i \in from..Len(s) - 1 : Test(s[i + 1])} IN
  IF at = {} THEN Len(s) ELSE Min(at)

ProcessChild(m, src, srcHead, si) ==
  LET srcTail == src.out[srcHead][si]
      dstHead == m.src2dst[srcHead]
      siblings == m.dst.out[dstHead]
      known == srcTail \in DOMAIN m.src2dst
      visitedHead == dstHead \in DOMAIN m.pos
      start == IF visitedHead THEN m.pos[dstHead] ELSE 0
      IsImage(v) == v = m.src2dst[srcTail]
      Mergeable(v) == CanMerge(m, src, v, srcTail)
      di == IF known THEN PositionFrom(siblings, 0, IsImage)
            ELSE PositionFrom(siblings, start, Mergeable)
      found == ~known /\ di < Len(siblings)
      grown == IF known \/ found THEN m.dst ELSE AddVertex(m.dst, src.vertex[srcTail])
      dstTail == CASE known -> m.src2dst[srcTail]
                   [] found -> siblings[di + 1]
                   [] OTHER -> NextVertex(m.dst)
      position == IF known \/ found \/ visitedHead THEN di ELSE 0
  IN [dst |-> IF dstTail \in ToSet(siblings) THEN grown
              ELSE InsertEdge(grown, dstHead, dstTail, position),
      src2dst |-> (srcTail :> dstTail) @@ m.src2dst,
      \* Dst2Src[dstTail].front()
      dst2src |-> m.dst2src @@ (dstTail :> srcTail),
      pos |-> (dstHead :> position) @@ m.pos]

\* stack holds the pairs <<source head, out index>> still to do, top first.
RECURSIVE MergeEdges(_, _, _, _)
MergeEdges(m, src, stack, visited) ==
  IF stack = <<>> THEN m.dst
  ELSE LET e == Head(stack)
           srcTail == src.out[e[1]][e[2]]
           children == [i \in DOMAIN src.out[srcTail] |-> <<srcTail, i>>]
       IN IF e \in visited THEN MergeEdges(m, src, Tail(stack), visited)
          ELSE MergeEdges(ProcessChild(m, src, e[1], e[2]), src,
                          children \o Tail(stack), visited \cup {e})

MergeIntoFSM(dst, src) ==
  LET start == [dst |-> [dst EXCEPT !.deterministic = @ /\ src.deterministic],
                src2dst |-> (0 :> 0), dst2src |-> <<>>, pos |-> <<>>]
  IN MergeEdges(start, src, [i \in DOMAIN src.out[0] |-> <<0, i>>], {})
-----------------------------------------------------------------------------
(* subsetDFA: the subset construction, which stops at match states.  A     *)
(* vertex of the result is a pair of a byte set and a list of vertices of  *)
(* the source, in priority order.                                          *)

RemoveRightDuplicates(s) ==
  SelectSeq([k \in DOMAIN s |-> <<k, s[k]>>],
            LAMBDA p : \A j \in 1..p[1] - 1 : s[j] # p[2])

\* The vertices that the heads reach on byte b.
OutNeighbours(src, heads, b) ==
  LET all == FlattenSeq([k \in DOMAIN heads |-> src.out[heads[k]]])
      onB == SelectSeq(all, LAMBDA v : b \in Bytes(src, v))
      firsts == RemoveRightDuplicates(onB)
  IN [k \in DOMAIN firsts |-> firsts[k][2]]

\* Cut a list of vertices before and after each match state.
Groups(src, tails) ==
  LET Cut(acc, v) ==
        IF src.vertex[v].match \/ acc = <<>> \/ src.vertex[Last(acc)[1]].match
        THEN Append(acc, <<v>>)
        ELSE Append(Front(acc), Append(Last(acc), v))
  IN FoldLeft(Cut, <<>>, tails)

\* The successors of a subset state, those on one byte set together.  The
\* order between byte sets, which are disjoint, decides no priority; the map of
\* the source has them in the order of their bits, here it is that of their least bytes.
SubsetSuccessors(src, ss) ==
  LET OnByte == [b \in Byte |-> OutNeighbours(src, ss[2], b)]
      classes == {{b \in Byte : OnByte[b] = OnByte[c]} : c \in {b \in Byte : OnByte[b] # <<>>}}
      ordered == SetToSortSeq(classes, LAMBDA S, T : Min(S) < Min(T))
      Tails(bs) == LET gs == Groups(src, OnByte[CHOOSE b \in bs : TRUE])
                   IN [k \in DOMAIN gs |-> <<bs, gs[k]>>]
  IN FlattenSeq([k \in DOMAIN ordered |-> Tails(ordered[k])])

\* The subset states in the order of their discovery; k is the next to expand.
\* (The source expands the last one found first, which numbers them otherwise:
\* nothing that follows depends on the numbers.)
RECURSIVE SubsetStates(_, _, _)
SubsetStates(src, states, k) ==
  IF k > Len(states) THEN states
  ELSE LET Discovered(acc, ss) == IF ss \in ToSet(acc) THEN acc ELSE Append(acc, ss)
       IN SubsetStates(src, FoldLeft(Discovered, states, SubsetSuccessors(src, states[k])), k + 1)

\* The graph of those states.
SubsetGraph(src, states) ==
  LET Num(ss) == CHOOSE n \in 0..Len(states) - 1 : states[n + 1] = ss
      matching(ss) == src.vertex[ss[2][1]].match
  IN [vertex |-> [n \in 0..Len(states) - 1 |->
                    LET ss == states[n + 1] IN
                    Vertex(ss[1],
                           IF matching(ss) THEN src.vertex[ss[2][1]].label ELSE Unlabelled,
                           matching(ss))],
      out |-> [n \in 0..Len(states) - 1 |->
                 LET next == SubsetSuccessors(src, states[n + 1])
                 IN [k \in DOMAIN next |-> Num(next[k])]],
      deterministic |-> TRUE]

SubsetDFA(src) == SubsetGraph(src, SubsetStates(src, <<<<{}, <<0>>>>>>, 1))
-----------------------------------------------------------------------------
(* labelGuardStates.                                                       *)

\* propagateMatchLabels: a vertex from which the matches of one pattern only
\* are reached gets its label.
MatchLabels(g, v) == {g.vertex[m].label : m \in {u \in ReachableFrom(g, v) : g.vertex[u].match}}

PropagatedLabel(g, v) ==
  CASE v = 0 -> Unlabelled
    [] v # 0 /\ Cardinality(MatchLabels(g, v)) > 1 -> Unlabelable
    [] OTHER -> CHOOSE l \in MatchLabels(g, v) : TRUE   \* every vertex reaches a match

\* removeNonMinimalLabels: of the labels on a path only the first is kept.
RECURSIVE UnlabelableClosure(_, _, _)
UnlabelableClosure(g, label, S) ==
  LET more == S \cup {v \in UNION {ToSet(g.out[u]) : u \in S} : label[v] = Unlabelable}
  IN IF more = S THEN S ELSE UnlabelableClosure(g, label, more)

LabelGuardStates(g) ==
  LET label == [v \in Vertices(g) |-> PropagatedLabel(g, v)]
      shared == UnlabelableClosure(g, label, {0})
      heads == UNION {ToSet(g.out[v]) : v \in shared} \ shared
  IN [g EXCEPT !.vertex = [v \in DOMAIN @ |->
        [@[v] EXCEPT !.label = IF v \in heads THEN label[v] ELSE Unlabelled]]]
-----------------------------------------------------------------------------
(* FSMThingy: the patterns are added one by one, then the graph is         *)
(* finalized.                                                              *)

Added(fsm, nfa) == MergeIntoFSM(fsm, PruneBranches(nfa))

Finalized(fsm, determinize) ==
  LabelGuardStates(IF determinize /\ ~fsm.deterministic THEN SubsetDFA(fsm) ELSE fsm)
=============================================================================
