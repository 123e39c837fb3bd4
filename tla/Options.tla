-------------------------------- MODULE Options --------------------------------
(***************************************************************************)
(* What parse_opts (src/cmd/optparser.cpp) makes of a command line.  A     *)
(* command line is a record of what the client wrote: counts of occurrence *)
(* as BOOLEANs, values as numbers or sequences, None where an option was   *)
(* not given.  Boost's splitting of argv into options is not modelled.     *)
(***************************************************************************)
EXTENDS Integers, Sequences

\* An option that was not given; also Options' default for the two contexts.
None == -1

\* The path that stands for the standard input.
Stdin == "-"

PatternCommands == {"search", "graph", "prog", "samp", "validate"}

\* The patterns come from -p, from -k or, failing both, from the first
\* positional argument, which is then no input.
KeysFromPargs(raw) == raw.pattern = <<>> /\ raw.keywords = <<>>

PargsLeft(raw) ==
  IF KeysFromPargs(raw) /\ raw.pargs # <<>> THEN Tail(raw.pargs) ELSE raw.pargs

KeyFiles(raw) ==
  IF KeysFromPargs(raw) /\ raw.pargs # <<>> THEN <<Head(raw.pargs)>> ELSE raw.keywords

\* -C is kept in the variable of -B (Boost's notify visits the options by name,
\* "before-context" first) and copied to that of -A.
BeforeContext(raw) == IF raw.C # None THEN raw.C ELSE raw.B
AfterContext(raw) == IF raw.C # None THEN raw.C ELSE raw.A

\* A context in lines implies --mmap.
MemoryMapped(raw) == raw.mmap \/ BeforeContext(raw) # None \/ AfterContext(raw) # None

\* Positional arguments are the inputs of a search; without them, and without a
\* list of inputs, it reads the standard input.
Inputs(raw) ==
  IF PargsLeft(raw) # <<>> THEN PargsLeft(raw)
  ELSE IF raw.lists = <<>> THEN <<Stdin>> ELSE <<>>

\* Paths are printed on request, and unless forbidden for any input named on the
\* command line or in a list.
PrintPath(raw) ==
  IF raw.lists # <<>> \/ PargsLeft(raw) # <<>> THEN ~raw.noFilename ELSE raw.withFilename

\* "samp" takes up to two numbers from the positional arguments; the other
\* commands that are not "search" take none.
TooManyPargs(raw) ==
  CASE raw.command = "search" -> FALSE
    [] raw.command = "samp" -> Len(PargsLeft(raw)) > 2
    [] OTHER -> PargsLeft(raw) # <<>>

\* The command lines parse_opts throws on.
Rejected(raw) ==
  \/ raw.command \notin PatternCommands
  \/ raw.pattern # <<>> /\ raw.keywords # <<>>
  \/ KeysFromPargs(raw) /\ raw.pargs = <<>>
  \/ raw.withFilename /\ raw.noFilename
  \/ /\ raw.command = "search"
     /\ MemoryMapped(raw)
     /\ \E i \in DOMAIN Inputs(raw) : Inputs(raw)[i] = Stdin
  \/ TooManyPargs(raw)

\* The Options of a search that is not rejected.
ParseOpts(raw) ==
  [keyFiles |-> KeyFiles(raw),
   inputs |-> Inputs(raw),
   lists |-> raw.lists,
   before |-> BeforeContext(raw),
   after |-> AfterContext(raw),
   printPath |-> PrintPath(raw),
   noOutput |-> raw.noOutput,
   recursive |-> raw.recursive,
   mmapped |-> MemoryMapped(raw)]
=============================================================================
