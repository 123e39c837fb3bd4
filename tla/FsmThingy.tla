------------------------------- MODULE FsmThingy -------------------------------
(***************************************************************************)
(* Building a program (src/src/lib/fsmthingy.cpp, and addPattern and       *)
(* compile_program of lightgrep_c_api.cpp): patterns are reduced and added *)
(* one at a time to a common automaton, then finalized and compiled.  The  *)
(* client discards the automaton once it is compiled (api.h,               *)
(* lg_compile_program), so nothing is added after that.                    *)
(***************************************************************************)
EXTENDS Compiler

CONSTANTS
  Lists     \* the lists of patterns a client adds: each a parse tree and an encoder

B == INSTANCE NfaBuilder
R == INSTANCE Rewriter

VARIABLES
  fsm,       \* Fsm, the common automaton
  patterns,  \* PMap->Patterns: the pattern of each label, label 0 first
  program,   \* Prog, or NoProgram
  refused    \* the last call threw

vars == <<fsm, patterns, program, refused>>

NoProgram == <<>>

Init ==
  /\ fsm = StartOnly
  /\ patterns = <<>>
  /\ program = NoProgram
  /\ refused = FALSE

\* The label is the index of the pattern in the pattern map, which grows only
\* when the automaton took the pattern.
AddReduced(pattern, tree) ==
  /\ program = NoProgram
  /\ \/ /\ B!Buildable(tree, pattern.enc)
        /\ fsm' = Added(fsm, B!Nfab(tree, pattern.enc, Len(patterns)))
        /\ patterns' = Append(patterns, pattern)
        /\ refused' = FALSE
     \/ /\ ~B!Buildable(tree, pattern.enc)   \* no code point left, or "Empty matches"
        /\ refused' = TRUE
        /\ UNCHANGED <<fsm, patterns>>
  /\ UNCHANGED program

\* The library parses and reduces before it adds.
AddPattern(pattern) == AddReduced(pattern, R!Reduce(pattern.tree))

CompileProgram(determinize) ==
  /\ program = NoProgram
  /\ \/ /\ Cardinality(Vertices(fsm)) >= 2
        /\ fsm' = Finalized(fsm, determinize)
        /\ program' = CreateProgram(fsm')
        /\ refused' = FALSE
     \/ /\ Cardinality(Vertices(fsm)) < 2   \* "No valid patterns were parsed"
        /\ refused' = TRUE
        /\ UNCHANGED <<fsm, program>>
  /\ UNCHANGED patterns

Next ==
  \/ \E list \in Lists :
       /\ Len(patterns) < Len(list)
       /\ patterns = SubSeq(list, 1, Len(patterns))
       /\ AddPattern(list[Len(patterns) + 1])
  \/ \E determinize \in BOOLEAN : CompileProgram(determinize)

Spec == Init /\ [][Next]_vars
=============================================================================
