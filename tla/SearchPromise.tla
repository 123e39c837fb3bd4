----------------------------- MODULE SearchPromise -----------------------------
(***************************************************************************)
(* What a search owes to who asked for it: the files named, the hits in    *)
(* them, and the lines around a hit.                                       *)
(***************************************************************************)
EXTENDS SearchController

\* What a command line names, by its lists and arguments alone.  The standard input
\* is read once, by whichever of a list and a path comes first.
ListUsed(i) ==
  ~ /\ opts.lists[i] = Stdin
    /\ \E j \in 1..i - 1 :
         opts.lists[j] = Stdin \/ Stdin \in Range(LinesOf(opts.lists[j]))

Use(as, p) == [as |-> as, path |-> p]

UsesOf(i) ==
  IF ListUsed(i)
  THEN <<Use("list", opts.lists[i])>> \o
       [k \in DOMAIN LinesOf(opts.lists[i]) |-> Use("input", LinesOf(opts.lists[i])[k])]
  ELSE <<>>

Uses ==
  FlattenSeq([i \in DOMAIN opts.lists |-> UsesOf(i)])
  \o [k \in DOMAIN opts.inputs |-> Use("input", opts.inputs[k])]

FileOnly(p) == IF disk[p].kind = "file" THEN <<p>> ELSE <<>>

FilesUnder(p) ==
  IF disk[p].kind = "dir" /\ opts.recursive
  THEN FlattenSeq([i \in DOMAIN disk[p].below |-> FileOnly(disk[p].below[i])])
  ELSE FileOnly(p)

\* The standard input the first time only.
FilesOf(uses, k) ==
  IF /\ uses[k].as = "input"
     /\ uses[k].path = Stdin => \A j \in 1..k - 1 : uses[j].path # Stdin
  THEN FilesUnder(uses[k].path)
  ELSE <<>>

Named == FlattenSeq([k \in DOMAIN Uses |-> FilesOf(Uses, k)])

\* The files are searched in the order in which the command line names them,
\* directories walked, the standard input read once; a search that reaches its
\* summary has searched them all (main.cpp:322-371, :459-510).
OpenedInOrder ==
  ~Rejected(raw) =>
    /\ IsPrefix(opened, Named)
    /\ pc = "summary" => opened = Named

\* What is written is, file by file, the hits of the files in order, each once,
\* under the path of the file it is in: a file's hits are all out before the next
\* file is opened.  Groups are separated between hits only.
HitsIn(p) ==
  [k \in DOMAIN Hits[disk[p].bytes] |-> <<p, Hits[disk[p].bytes][k]>>]

HitsOf(files) == FlattenSeq([i \in DOMAIN files |-> HitsIn(files[i])])

\* Between files.
Settled == pc \in {"lists", "paths", "summary"}

OutputPromise ==
  LET expected == HitsOf(opened)
  IN /\ ~Rejected(raw) /\ ~Counts(opts) =>
          /\ Len(out) = numHits
          /\ Len(out) <= Len(expected)
          /\ \A i \in DOMAIN out :
               /\ <<out[i].of, out[i].hit>> = expected[i]
               /\ WritesPath(opts) => out[i].path = expected[i][1]
               /\ out[i].separated <=> SeparatesGroups(opts) /\ i > 1
     /\ numHits <= Len(expected)
     /\ Settled => numHits = Len(expected)

\* The context of a hit that lies in the buffer the writer holds: from the start of
\* the line `before' lines up to the end of the line `after' lines down, as far as
\* they are in the buffer, without the last line's own end.
HasItsLines(o) ==
  LET atLeast0(n) == IF n > 0 THEN n ELSE 0
      text == TextAround(disk[o.of].bytes, o.block.begin, o.block.end, o.hit.start, o.hit.end,
                         atLeast0(opts.before), atLeast0(opts.after))
  IN o.hit.start >= o.block.begin /\ o.hit.end <= o.block.end =>
       /\ \A p \in o.context.begin..o.context.end - 1 : p \in text
       /\ \A p \in text : p \in o.context.begin..o.context.end - 1

ContextLines ==
  WritesContext(opts) /\ ~Rejected(raw) => \A i \in DOMAIN out : HasItsLines(out[i])

\* Between files, the bytes counted are those of the files searched, put end to end
\* (searchcontroller.cpp:60-64).
BytesOf(files) == FlattenSeq([i \in DOMAIN files |-> disk[files[i]].bytes])

TotalsAgree == Settled => bytesSearched = Len(BytesOf(opened))

\* What decode() is written for (lightgrep_c_util.cpp:121-122): the hit lies in the
\* context that is passed with it.
HitInItsContext ==
  WritesContext(opts) /\ ~Rejected(raw) => \A i \in DOMAIN out :
    out[i].context.begin <= out[i].hit.start /\ out[i].hit.end <= out[i].context.end
=============================================================================
