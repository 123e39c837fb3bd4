------------------------------- MODULE MCSearch -------------------------------
(***************************************************************************)
(* Model values for SearchController.                                      *)
(***************************************************************************)
EXTENDS SearchPromise

\* Two lines, CR LF and LF line ends, hits at both ends of a block of two bytes
\* and across blocks; a content whose length is a multiple of a block; no bytes.
c1 == <<"x", "\r", "\n", "x", "x">>
c2 == <<"x", "y">>
c3 == <<"\n", "x", "\n">>
c4 == <<>>
c6 == <<"x", "\n", "y", "x", "\r", "\n", "y", "\n">>
c5 == <<"y", "x", "x", "\n", "x", "\n">>

\* The hits of the pattern x+.
XRuns(c) ==
  LET starts == {i \in DOMAIN c : c[i] = "x" /\ (i = 1 \/ c[i - 1] # "x")}
      end(i) == CHOOSE j \in i..Len(c) :
                  /\ \A k \in i..j : c[k] = "x"
                  /\ j = Len(c) \/ c[j + 1] # "x"
  IN [n \in 1..Cardinality(starts) |->
        LET i == CHOOSE s \in starts : Cardinality({t \in starts : t < s}) = n - 1
        IN [start |-> i - 1, end |-> end(i)]]

MCContents == {c1, c2, c3, c4, c5, c6}
MCHits == [c \in MCContents |-> XRuns(c)]

\* f and g are files, d a directory with a file and a directory below, l a list.
\* "-" is read as a file or as a list.
MCDisks ==
  {[p \in {"f", "g", "h", "d", "e", "l", Stdin, "gone"} |->
      CASE p = "f" -> File(f, <<>>)
        [] p = "g" -> File(c2, <<>>)
        [] p = "h" -> File(c3, <<>>)
        [] p = "d" -> Dir(<<"e", "h">>)
        [] p = "e" -> Dir(<<"h">>)
        [] p = "l" -> File(c4, <<Stdin, "d", "h">>)
        [] p = Stdin -> File(c2, <<"g", Stdin>>)
        [] OTHER -> Absent] : f \in {c1, c4, c5, c6}}

Plain ==
  [command |-> "search", pattern |-> <<>>, keywords |-> <<"k">>, pargs |-> <<"f">>,
   lists |-> <<>>, A |-> None, B |-> None, C |-> None, mmap |-> FALSE,
   recursive |-> FALSE, withFilename |-> FALSE, noFilename |-> FALSE, noOutput |-> FALSE]

MCCommands ==
  {Plain,
   [Plain EXCEPT !.keywords = <<>>, !.pargs = <<"k", "f", "g">>, !.noOutput = TRUE],
   [Plain EXCEPT !.mmap = TRUE, !.pargs = <<"g", "f">>, !.noFilename = TRUE],
   [Plain EXCEPT !.pargs = <<"d", "f">>, !.recursive = TRUE],
   [Plain EXCEPT !.pargs = <<"d", "gone", "f">>],
   [Plain EXCEPT !.pargs = <<>>, !.withFilename = TRUE],
   [Plain EXCEPT !.pargs = <<Stdin, "f", Stdin>>],
   [Plain EXCEPT !.pargs = <<Stdin>>, !.C = 1],
   [Plain EXCEPT !.pargs = <<Stdin, "f">>, !.lists = <<Stdin, "l", Stdin>>, !.recursive = TRUE],
   [Plain EXCEPT !.pargs = <<>>, !.lists = <<"d", "l", "gone", Stdin>>, !.B = 0],
   [Plain EXCEPT !.C = 0], [Plain EXCEPT !.C = 1, !.pargs = <<"f", "g">>],
   [Plain EXCEPT !.A = 1], [Plain EXCEPT !.B = 1, !.noFilename = TRUE]}

-----------------------------------------------------------------------------
\* A search ends, whatever it is given: neither thread waits for ever.
Terminates == <>(pc \in Ended)
=============================================================================
