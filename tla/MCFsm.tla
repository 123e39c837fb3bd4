--------------------------------- MODULE MCFsm ---------------------------------
(***************************************************************************)
(* Model values for FsmThingy, and what the automaton and the program must *)
(* keep of the patterns: checked against the meaning of each parse tree,   *)
(* on every text of the three bytes up to a length.                        *)
(***************************************************************************)
EXTENDS FsmThingy

P == INSTANCE Patterns

CONSTANTS TextLength

Under(enc, tree) == [tree |-> tree, enc |-> enc]
Alone(enc, trees) == {<<Under(enc, tree)>> : tree \in trees}

\* Every product and alternative of two small units alone, every tree for the rewriter,
\* every class of a scaled encoding, and every list of up to three of a mixed set.
MCLists ==
  Alone(P!OneByte, P!Products \cup P!Rewritten) \cup Alone(P!Scaled, P!Classed)
  \cup UNION {[1..n -> {Under(P!OneByte, tree) : tree \in P!Mixed}] : n \in 2..3}

\* Patterns that a comment or the manual gives another meaning than the rewriter.
MCMisread == Alone(P!OneByte, P!Misread \cup P!Products)

TextsUpTo(n) == UNION {[1..k -> Byte] : k \in 0..n}

Labels == 0..Len(patterns) - 1

\* The rewriter leaves the matches of a tree as they are: what it sums up, drops and
\* makes greedy is the same to the pattern around it.
ReductionKeepsMatches ==
  \A l \in Labels : \A txt \in TextsUpTo(TextLength) :
    LET p == patterns[l + 1]
    IN B!MatchOf(R!Reduce(p.tree), p.enc, txt, 0) = B!MatchOf(p.tree, p.enc, txt, 0)

\* Reducing, building, merging, pruning, determinization and the move of the labels keep,
\* for every pattern and text, the match that the manual gives the pattern alone, its
\* priorities among several matches included.
MatchesKept ==
  \A l \in Labels : \A txt \in TextsUpTo(TextLength) :
    MatchFrom(fsm, l, txt, 0) = B!MatchOf(patterns[l + 1].tree, patterns[l + 1].enc, txt, 0)

\* createJumpTable's own check (compiler.cpp:98), for every state: the second
\* pass fills exactly the room that the first pass reserved for it.
CodeFitsLayout == program # NoProgram => SnippetsFit(fsm)

\* No match starts where the filter of the program forbids a start.
FilterSound ==
  program # NoProgram =>
    \A l \in Labels : \A txt \in TextsUpTo(TextLength) :
      MatchFrom(fsm, l, txt, 0) # NoMatch /\ Len(txt) >= program.filterOff + 2
        => <<txt[program.filterOff + 1], txt[program.filterOff + 2]>> \in program.filter
=============================================================================
