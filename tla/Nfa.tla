---------------------------------- MODULE Nfa ----------------------------------
(***************************************************************************)
(* The automaton of automata.h and graph.h: a Glushkov NFA whose bytes are *)
(* on the vertices, with ordered out edges.  Vertex 0 is the start; it     *)
(* carries no transition.  The order of the out edges is the priority of   *)
(* the alternatives, and a match has the lowest priority of all.           *)
(*                                                                         *)
(* The second half says what an NFA means for a text: the match that is    *)
(* first in priority order.                                                *)
(***************************************************************************)
EXTENDS Integers, Sequences, FiniteSets, SequencesExt

NoMatch == -1  \* no match from here
Unlabelled == -1 \* NOLABEL of automata.h

Vertex(bytes, label, match) == [bytes |-> bytes, label |-> label, match |-> match]

\* NFA(1): one vertex, the start.
StartOnly == [vertex |-> (0 :> Vertex({}, Unlabelled, FALSE)), out |-> (0 :> <<>>),
              deterministic |-> TRUE]

Vertices(g) == DOMAIN g.vertex
NextVertex(g) == Cardinality(Vertices(g))   \* what addVertex returns

AddVertex(g, v) ==
  [g EXCEPT !.vertex = @ @@ (NextVertex(g) :> v), !.out = @ @@ (NextVertex(g) :> <<>>)]

\* insertEdge at position pos of head's out list, counted from 0.
InsertEdge(g, head, tail, pos) == [g EXCEPT !.out[head] = InsertAt(@, pos + 1, tail)]
AddEdge(g, head, tail) == [g EXCEPT !.out[head] = Append(@, tail)]

OutDegree(g, v) == Len(g.out[v])
InDegree(g, v) ==
  Cardinality({e \in UNION {{h} \X DOMAIN g.out[h] : h \in Vertices(g)} :
                 g.out[e[1]][e[2]] = v})

\* The vertices that paths from v reach, v among them.
RECURSIVE Closure(_, _)
Closure(g, S) ==
  LET more == S \cup UNION {ToSet(g.out[v]) : v \in S}
  IN IF more = S THEN S ELSE Closure(g, more)
ReachableFrom(g, v) == Closure(g, {v})
-----------------------------------------------------------------------------
(* What a text means to an NFA.                                            *)

\* The end of the first match of label l, in priority order, of the paths that
\* leave v when i bytes of txt are consumed.  The label of a match is the last
\* one on its path, the match's own included: seen, when v is reached.
RECURSIVE FirstEnd(_, _, _, _, _, _)
FirstEnd(g, l, v, seen, txt, i) ==
  LET label == IF g.vertex[v].label = Unlabelled THEN seen ELSE g.vertex[v].label
      Ends == [k \in DOMAIN g.out[v] |->
                 IF i < Len(txt) /\ txt[i + 1] \in g.vertex[g.out[v][k]].bytes
                 THEN FirstEnd(g, l, g.out[v][k], label, txt, i + 1) ELSE NoMatch]
      found == {k \in DOMAIN Ends : Ends[k] # NoMatch}
  IN CASE found # {}                         -> Ends[CHOOSE k \in found : \A j \in found : k <= j]
       [] g.vertex[v].match /\ label = l     -> i
       [] OTHER                              -> NoMatch

MatchFrom(g, l, txt, i) == FirstEnd(g, l, 0, Unlabelled, txt, i)
=============================================================================
