-------------------------------- MODULE Compiler --------------------------------
(***************************************************************************)
(* Compiler and code generation (src/src/lib/compiler.cpp, codegen.cpp,    *)
(* utility.cpp): the finished NFA becomes a program.                       *)
(*                                                                         *)
(* A first pass orders the states and reserves room for each, a second     *)
(* pass encodes them in place; both count words on their own.  A program   *)
(* is a function from the addresses of instructions to instructions, with  *)
(* operands folded in; words that only hold operands have no entry.        *)
(***************************************************************************)
EXTENDS NfaOptimizer

MaxByte == Max(Byte)   \* 255

\* TransitionFactory::getSmallest and toInstruction.
Transition(bytes) ==
  LET lo == Min(bytes)  hi == Max(bytes) IN
  CASE Cardinality(bytes) = 1 -> [op |-> "BYTE", byte |-> lo, negate |-> FALSE]
    [] bytes = Byte /\ lo < hi -> [op |-> "ANY"]
    [] bytes = lo..hi /\ lo < hi /\ bytes # Byte ->
         [op |-> "RANGE", first |-> lo, last |-> hi, negate |-> FALSE]
    [] bytes = {lo, hi} /\ hi > lo + 1 ->
         [op |-> "EITHER", first |-> lo, last |-> hi, negate |-> FALSE]
    [] OTHER -> [op |-> "BIT_VECTOR", bytes |-> bytes]

Fork(a)      == [op |-> "FORK", target |-> a]
Jump(a)      == [op |-> "JUMP", target |-> a]
LabelOp(l)   == [op |-> "LABEL", offset |-> l]
CheckHalt(c) == [op |-> "CHECK_HALT", offset |-> c]
MatchOp      == [op |-> "MATCH"]
FinishOp     == [op |-> "FINISH"]
HaltOp       == [op |-> "HALT"]

\* Words an instruction takes, with the operands that follow it.
Words(in) == CASE in.op = "BIT_VECTOR" -> 9
               [] in.op \in {"FORK", "JUMP"} -> 2
               [] in.op = "JUMP_TABLE_RANGE" -> 2 + in.last - in.first
               [] OTHER -> 1

-----------------------------------------------------------------------------
(* pivotStates: per byte, the out vertices that take it.                   *)

Pivot(g, v) ==
  [b \in Byte |->
     LET p == RemoveRightDuplicates(SelectSeq(g.out[v], LAMBDA t : b \in Bytes(g, t)))
     IN [k \in DOMAIN p |-> p[k][2]]]

MaxOutbound(tbl) == Max({Len(tbl[b]) : b \in DOMAIN tbl})
Populated(tbl) == {b \in DOMAIN tbl : tbl[b] # <<>>}

UsesTable(g, v) == OutDegree(g, v) > 3 /\ MaxOutbound(Pivot(g, v)) < OutDegree(g, v)

\* Faulty variant: one word per entry of an indirect table.
JumpTableSizeShort(g, v) ==
  LET tbl == Pivot(g, v)
      indirect == {b \in Byte : Len(tbl[b]) > 1}
  IN 2 + (Max(Populated(tbl)) - Min(Populated(tbl))) + SumFunction([b \in indirect |-> Len(tbl[b])])

\* calcJumpTableSize
JumpTableSize(g, v) ==
  LET tbl == Pivot(g, v)
      indirect == {b \in Byte : Len(tbl[b]) > 1}
  IN 2 + (Max(Populated(tbl)) - Min(Populated(tbl))) + 2 * SumFunction([b \in indirect |-> Len(tbl[b])])
-----------------------------------------------------------------------------
(* First pass: specialVisit and CodeGenVisitor.                            *)

\* The states in discovery order: what follows a state without a branch comes
\* right after it.
RECURSIVE Discover(_, _, _, _)
Discover(g, toVisit, discovered, order) ==
  IF toVisit = <<>> THEN order
  ELSE LET v == Head(toVisit)
           new == SelectSeq(g.out[v], LAMBDA w : w \notin discovered)
       IN Discover(g,
                   IF OutDegree(g, v) < 2 THEN new \o Tail(toVisit) ELSE Tail(toVisit) \o new,
                   discovered \cup ToSet(new), Append(order, v))

\* What the helper knows after both loops of specialVisit.
Layout(g) ==
  LET order == Discover(g, <<0>>, {0}, <<>>)
      rank == [v \in Vertices(g) |-> CHOOSE k \in DOMAIN order : order[k] = v]
      checked == {v \in Vertices(g) : InDegree(g, v) > 1}
      NumEval(v) == IF v = 0 THEN 0 ELSE Words(Transition(Bytes(g, v)))
      OutOps(v) ==
        CASE OutDegree(g, v) = 0 -> 0
          [] UsesTable(g, v)     -> JumpTableSize(g, v)
          [] OTHER -> 2 * (OutDegree(g, v) - 1)
                      + (IF rank[v] + 1 = rank[g.out[v][1]] THEN 0 ELSE 2)
      NumOther(v) ==
        OutOps(v)
        + (IF g.vertex[v].label # Unlabelled THEN 1 ELSE 0)
        + (IF g.vertex[v].match THEN 2 + (IF OutDegree(g, v) > 0 THEN 1 ELSE 0) ELSE 0)
        + (IF v \in checked THEN 1 ELSE 0)
      eval == [v \in Vertices(g) |-> NumEval(v)]
      total == [v \in Vertices(g) |-> eval[v] + NumOther(v)]
      start[k \in 1..Len(order) + 1] ==
        IF k = 1 THEN 0 ELSE start[k - 1] + total[order[k - 1]]
  IN [rank  |-> rank,
      eval  |-> eval,
      total |-> total,
      start |-> [v \in Vertices(g) |-> start[rank[v]]],
      guard |-> start[Len(order) + 1],
      check |-> [v \in checked |-> Cardinality({w \in checked : rank[w] <= rank[v]})]]
-----------------------------------------------------------------------------
(* Second pass: encodeState.                                               *)

\* figureOutLanding: where to go when the byte of v has been consumed.
Landing(g, cg, v) ==
  IF OutDegree(g, v) = 1 /\ g.vertex[v].label = Unlabelled /\ ~g.vertex[v].match
  THEN cg.start[g.out[v][1]]
  ELSE cg.start[v] + cg.eval[v]

\* createJumpTable: bytes with several successors lead to forks after the
\* table, the last of them a jump, in reverse edge order.
EncodePivot(g, cg, tbl, base) ==
  LET first == Min(Populated(tbl))
      last == IF Populated(tbl) = {first} THEN MaxByte ELSE Max(Populated(tbl))
      Indirect(b) ==
        LET n == Len(tbl[b]) IN
        [k \in 1..n |-> IF k < n THEN Fork(Landing(g, cg, tbl[b][n - k + 1]))
                                 ELSE Jump(Landing(g, cg, tbl[b][1]))]
      many == {b \in first..last : Len(tbl[b]) > 1}
      tableEnd == base + 2 + last - first
      Address(b) == tableEnd + 2 * SumFunction([c \in {c \in many : c < b} |-> Len(tbl[c])])
      table == [b \in first..last |->
                  CASE tbl[b] = <<>>     -> 0
                    [] Len(tbl[b]) = 1   -> Landing(g, cg, tbl[b][1])
                    [] OTHER             -> Address(b)]
      lists == SetToSortSeq(many, <)
  IN <<[op |-> "JUMP_TABLE_RANGE", first |-> first, last |-> last, table |-> table]>>
     \o FlattenSeq([k \in DOMAIN lists |-> Indirect(lists[k])])

EncodeTable(g, cg, v, base) == EncodePivot(g, cg, Pivot(g, v), base)

\* The children but the first in reverse order, each a fork: the parent thread,
\* which runs on, has priority over the forked one.
EncodeChildren(g, cg, v) ==
  LET d == OutDegree(g, v)
      forks == [k \in 1..d - 1 |-> Fork(cg.start[g.out[v][d - k + 1]])]
      first == g.out[v][1]
  IN CASE d = 0 -> <<>>
       [] d > 0 /\ cg.rank[v] + 1 = cg.rank[first] -> forks
       [] OTHER -> Append(forks, Jump(cg.start[first]))

EncodeTransition(g, cg, v) ==
  <<Transition(Bytes(g, v))>>
  \o (IF g.vertex[v].label # Unlabelled THEN <<LabelOp(g.vertex[v].label)>> ELSE <<>>)
  \o (IF v \in DOMAIN cg.check THEN <<CheckHalt(cg.check[v])>> ELSE <<>>)
  \o (CASE ~g.vertex[v].match -> <<>>
        [] g.vertex[v].match /\ OutDegree(g, v) > 0 -> <<MatchOp, Fork(cg.guard + 1)>>
        [] OTHER -> <<MatchOp, FinishOp>>)

WordsOf(ins) == SumFunction([k \in DOMAIN ins |-> Words(ins[k])])

EncodeState(g, cg, v) ==
  LET head == IF v = 0 THEN <<>> ELSE EncodeTransition(g, cg, v)
  IN head \o (IF UsesTable(g, v)
              THEN EncodeTable(g, cg, v, cg.start[v] + WordsOf(head))
              ELSE EncodeChildren(g, cg, v))

\* Instructions in a row from address a on.
Place(ins, a) ==
  LET addr == [k \in DOMAIN ins |-> a + WordsOf(SubSeq(ins, 1, k - 1))]
  IN [x \in {addr[k] : k \in DOMAIN ins} |-> ins[CHOOSE k \in DOMAIN ins : addr[k] = x]]
-----------------------------------------------------------------------------
(* bestPair: the window of two bytes, at a fixed offset from the start of  *)
(* a match, that excludes the most starts.                                 *)

RECURSIVE AtDepth(_, _)
AtDepth(g, d) ==
  IF d = 0 THEN {0} ELSE UNION {ToSet(g.out[v]) : v \in AtDepth(g, d - 1)}

RECURSIVE LeastMatchDepth(_, _)
LeastMatchDepth(g, d) ==
  IF \E v \in AtDepth(g, d) : g.vertex[v].match THEN d ELSE LeastMatchDepth(g, d + 1)

\* Faulty variant: a match needs a second byte.
PairsAtInside(g, d) ==
  UNION {UNION {UNION {Bytes(g, t0) \X Bytes(g, t1) : t1 \in ToSet(g.out[t0])} : t0 \in ToSet(g.out[h])}
           : h \in AtDepth(g, d)}

PairsAt(g, d) ==
  UNION {UNION {IF g.vertex[t0].match THEN Bytes(g, t0) \X Byte
                ELSE UNION {Bytes(g, t0) \X Bytes(g, t1) : t1 \in ToSet(g.out[t0])}
                  : t0 \in ToSet(g.out[h])}
           : h \in AtDepth(g, d)}

BestPair(g) ==
  LET pairs == [d \in 0..LeastMatchDepth(g, 0) - 1 |-> PairsAt(g, d)]
      count == [d \in DOMAIN pairs |-> Cardinality(pairs[d])]
      off == Min({d \in DOMAIN pairs : \A e \in DOMAIN pairs : count[d] <= count[e]})
  IN [off |-> off, pairs |-> pairs[off]]
-----------------------------------------------------------------------------
\* The program of a graph with its layout and its filter.
Encode(g, cg, best) ==
  LET Add(code, v) == code @@ Place(EncodeState(g, cg, v), cg.start[v])
  IN [code      |-> FoldSet(LAMBDA v, code : Add(code, v),
                            (cg.guard :> HaltOp) @@ (cg.guard + 1 :> FinishOp), Vertices(g)),
      guard     |-> cg.guard,
      maxLabel  |-> Max({g.vertex[v].label : v \in Vertices(g)}),
      maxCheck  |-> Cardinality(DOMAIN cg.check),
      filterOff |-> best.off,
      filter    |-> best.pairs]

CreateProgram(g) == Encode(g, Layout(g), BestPair(g))

\* createJumpTable's own check, for every state: the second pass fills exactly
\* the room that the first pass reserved.
FillsLayout(g, cg) == \A v \in Vertices(g) : WordsOf(EncodeState(g, cg, v)) = cg.total[v]
SnippetsFit(g) == FillsLayout(g, Layout(g))
=============================================================================
