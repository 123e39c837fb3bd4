------------------------------ MODULE MCKeyFiles ------------------------------
(***************************************************************************)
(* Key files of a few lines for KeyFiles, and what a client may expect of  *)
(* its patterns, of its errors and of a program it wrote and read back.    *)
(***************************************************************************)
EXTENDS KeyFiles

\* p and q parse, q not in every encoding, b does not parse.
MCParses == {"p", "q"}
MCEncodes == {"p", "q"} \X {"A", "U"} \ {<<"q", "A">>}
MCDefaultEncodings == <<"A">>
MCEncodingsIn ==
  [c \in {"A", "U", "A,U", "U,A", ",", "p", "q", "0"} |->
     CASE c = "A,U" -> <<"A", "U">>
       [] c = "U,A" -> <<"U", "A">>
       [] c = "," -> <<>>
       [] OTHER -> <<c>>]
MCTextOf ==
  [s \in {"p", "q", "A", "U"} |->
     CASE s = "p" -> <<112>> [] s = "q" -> <<113, 113>> [] s = "A" -> <<65>> [] s = "U" -> <<85, 56>>]

MCLines ==
  {<<"p">>, <<"b">>, <<"q", "A,U">>, <<"p", "U,A", "0", "1", "0">>, <<"p", "A", "?">>,
   <<"">>, <<"p", ",">>, <<>>, <<"", "q", "U">>}

MCKeyLists ==
  {<<[name |-> "f", lines |-> ls]>> : ls \in UNION {[1..n -> MCLines] : n \in 0..4}} \cup
  {<<[name |-> "f", lines |-> l1], [name |-> "g", lines |-> l2]>> :
     l1 \in UNION {[1..n -> MCLines] : n \in 0..2}, l2 \in UNION {[1..n -> MCLines] : n \in 0..2}}

MCCompiled ==
  {[maxLabel |-> 260, maxCheck |-> 0, filterOff |-> 2, filter |-> {1, 7, 8, 12},
    code |-> <<<<1, 2, 3, 4>>, <<0, 0, 0, 9>>>>],
   [maxLabel |-> 0, maxCheck |-> 3, filterOff |-> 0, filter |-> {}, code |-> <<<<7, 0, 0, 0>>>>]}

-----------------------------------------------------------------------------
\* lightgrep_c_api.cpp:282: "append the error from addPatternList to the chain".
ErrorsKept ==
  pc \notin {"line", "add", "thrown"} => errs = FlattenSeq(made)

\* optparser.cpp:96-97: "prog --binary" outputs the program as binary, --program-file
\* reads a search program from file.
ProgramFileReadBack ==
  pc = "loadedFile" =>
    /\ Len(handle.pmap) = Len(pmap)
    /\ ProgramOf(buffer, handle.prog) = prog
=============================================================================
