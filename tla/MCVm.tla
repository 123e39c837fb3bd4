---------------------------------- MODULE MCVm ----------------------------------
(***************************************************************************)
(* Model values for Vm: programs that the modelled pipeline - NfaBuilder,  *)
(* NfaOptimizer, Compiler - makes from small pattern lists, and every text *)
(* of a small alphabet up to a length.  The texts of full length suffice:  *)
(* a client may close a stream after any of its bytes.                     *)
(***************************************************************************)
EXTENDS VmOrderProofs, Patterns, FiniteSets, TLC

CONSTANTS
  Family,       \* the pattern lists: see PatternLists
  TwoByteLength,   \* length of the texts over two bytes
  ThreeByteLength  \* length of the texts over all three

C == INSTANCE Compiler WITH Byte <- PByte

PatternLists ==
  CASE Family = "single"  -> Single
    [] Family = "several" -> Several
    [] Family = "tables"  -> Tables
    [] Family = "growing" -> Growing
    [] Family = "all"     -> Single \o Several \o Tables

\* Every list without and with determinization.
MCConfigs == {<<n, d>> : n \in DOMAIN PatternLists, d \in BOOLEAN}

Nfas == [n \in DOMAIN PatternLists |->
           [k \in DOMAIN PatternLists[n] |-> B!Nfab(R!Reduce(PatternLists[n][k]), OneByte, k - 1)]]

\* A program remembers the number of its pattern list.
MCPrograms ==
  {C!CreateProgram(C!Finalized(C!FoldLeft(C!Added, C!StartOnly, Nfas[p[1]]), p[2])) @@ [list |-> p[1]]
     : p \in MCConfigs}

MCTexts == [1..TwoByteLength -> {0, 1}] \cup [1..ThreeByteLength -> PByte]

\* One text: the first byte, then the second over and over.
MCOneText == {[k \in 1..TwoByteLength |-> IF k = 1 THEN 0 ELSE 1]}

\* The addresses that control reaches from the start of p by the instructions ops.
ReachedBy(p, ops) ==
  LET Within[n \in 0..Cardinality(DOMAIN p.code)] ==
        IF n = 0 THEN {0}
        ELSE LET near == Within[n - 1]
             IN near \cup UNION {Targets(p, x) : x \in {y \in near : p.code[y].op \in ops}}
  IN Within[Cardinality(DOMAIN p.code)]

\* The labels with which control reaches the addresses of p, as <<address, label>>.
Carried(p) ==
  LET steps == Cardinality(DOMAIN p.code) * (p.maxLabel + 2)
      After(at) == {<<y, IF p.code[at[1]].op = "LABEL" THEN p.code[at[1]].offset ELSE at[2]>>
                      : y \in Targets(p, at[1])}
      Within[n \in 0..steps] ==
        IF n = 0 THEN {<<0, NoLabel>>}
        ELSE LET near == Within[n - 1] IN near \cup UNION {After(at) : at \in near}
  IN Within[steps]

\* The flow of a program that the proofs assume of every program.
MCFlow(p) ==
  LET ops == {in.op : in \in {p.code[x] : x \in DOMAIN p.code}}
      labels == Carried(p)
      OnlyAfter(op) == DOMAIN p.code \ (ReachedBy(p, ops \ {op}) \cup {p.guard})
  IN [initial |-> ReachedBy(p, {"FORK", "JUMP"}),
      labelled |-> OnlyAfter("LABEL"), matched |-> OnlyAfter("MATCH"),
      carried |-> [x \in DOMAIN p.code |->
                     IF x = p.guard THEN 0..p.maxLabel \cup {NoLabel}
                     ELSE {at[2] : at \in {pair \in labels : pair[1] = x}}]]
-----------------------------------------------------------------------------
(* The promise, for these programs.                                        *)

MCKeywords(p) == {k - 1 : k \in DOMAIN PatternLists[p.list]}

MCExpected(p, l, txt, last) == B!LeftmostOf(PatternLists[p.list][l + 1], OneByte, txt, 0, last)

HitsOf(l) ==
  LET mine == SelectSeq(hits, LAMBDA h : h.label = l)
  IN [k \in DOMAIN mine |-> <<mine[k].start, mine[k].end>>]

\* startsWith gives up on a buffer that ends inside the window of the filter.
MCGivesUp(p, length) == length \in 2..p.filterOff + 1

Promise == INSTANCE Grep WITH
  Keywords <- MCKeywords,
  Expected <- MCExpected,
  GivesUp <- MCGivesUp,
  given <- bufEnd,
  lastStart <- CASE call = "startsWith" -> 1
                 [] closed /\ call = "idle" -> None
                 [] OTHER -> resolveFrom,
  id <- prog,
  found <- [l \in MCKeywords(prog) |-> HitsOf(l)],
  phase <- CASE ~closed -> "open"
             [] closed /\ call # "idle" -> "closing"
             [] OTHER -> "closed"

\* The context implements the promise.
KeepsPromise == Promise!Spec

\* What lg_starts_with promises: the hits at the first byte of the buffer that
\* a search of the same buffer would find.
AtStart(n) == [l \in MCKeywords(prog) |->
                 MCExpected(prog, l, SubSeq(text, 1, n), 0)]
Found == [l \in MCKeywords(prog) |-> HitsOf(l)]

StartsWithFindsThem == closed /\ call = "idle" => Found = AtStart(bufEnd)

\* "Uses a fixed amount of RAM" (api.h:199): whatever the text, no more threads
\* than the program has instructions.
FixedMemory == Len(active) <= Cardinality(DOMAIN code)
=============================================================================
