-------------------------------- MODULE KeyFiles --------------------------------
(***************************************************************************)
(* From key files to a program and to a program file: parsePatterns and    *)
(* the commands of main.cpp as clients of the C API, and lg_add_pattern_   *)
(* list, lg_add_pattern, lg_compile_program, lg_write_program and          *)
(* lg_read_program (lightgrep_c_api.cpp).  What parses, and what an        *)
(* encoding admits, is left to the parser and the NFA builder.             *)
(*                                                                         *)
(* A key file is a sequence of lines, a line a sequence of columns, a      *)
(* column a string that may be empty.                                      *)
(***************************************************************************)
EXTENDS Serialization

CONSTANTS
  KeyLists,             \* the key files given together: sequences of [name, lines]
  Parses,               \* the patterns that parse
  Encodes,              \* the pairs <<pattern, encoding>> the builder accepts
  EncodingsIn,          \* what a column of encodings lists
  DefaultEncodings,
  Compiled,             \* what compilation may produce
  TextOf                \* the bytes of a pattern or an encoding

Text == STRING

ASSUME KeyListsAssumption ==
  \A fs \in KeyLists : fs \in Seq([name : Text, lines : Seq(Seq(Text))])

\* Programs are numbers, a filter and instructions of four bytes.
ASSUME CompiledAssumption ==
  \A p \in Compiled :
    p \in [maxLabel : 0..LargestNumber, maxCheck : 0..LargestNumber, filterOff : 0..LargestNumber,
           filter : SUBSET (0..FilterBits - 1), code : Seq([1..InstructionBytes -> Byte])]

ASSUME TextAssumption ==
  \A e \in Encodes : TextOf[e[1]] \in Seq(Char) /\ TextOf[e[2]] \in Seq(Char)

VARIABLES
  files,                \* the key files: never changes
  pc,
  fileNo, lines, lnum,  \* the file being read, its lines left, addPatternList's lnum
  pattern, encodings,   \* the pattern parsed last, the encodings it is still to be added in
  inErr,                \* in_err, the errors of this file
  errs,                 \* err, the chain parsePatterns returns
  labels,               \* FSM: what each call of FSMThingy::addPattern added
  pmap,                 \* PMap->Patterns
  prog,                 \* Prog, or NoProg
  printed,              \* what reached stderr of the errors
  buffer,               \* the client's buffer with the program written
  handle,               \* the handle read from the buffer, or NoProg
  made                  \* every error made, by file

files_ == <<files, fileNo, lines, lnum>>
adding == <<pattern, encodings, labels, pmap>>
vars == <<files_, pc, adding, inErr, errs, prog, printed, buffer, handle, made>>

NoProg == <<>>
Null == "null"

\* makeError: an error that lg_parse_pattern or lg_add_pattern catches has a message
\* and is given the line's index by its caller; those of addPatternList itself name
\* their source; one that escapes addPatternList has neither.
Error(why, source, index) == [why |-> why, source |-> source, index |-> index]

\* boost::tokenizer drops what is empty: lines, and columns of a line.
NonEmpty(s, empty) == FlattenSeq([k \in DOMAIN s |-> IF s[k] = empty THEN <<>> ELSE <<s[k]>>])
Columns(line) == NonEmpty(line, "")
LinesOf(file) == NonEmpty(file.lines, <<>>)

\* The encodings a pattern is to be added in: those its line lists, or the default.
EncodingsOf(line) ==
  IF Len(Columns(line)) > 1 THEN EncodingsIn[Columns(line)[2]] ELSE DefaultEncodings

ASSUME EncodingsAssumption ==
  \A fs \in KeyLists : \A f \in DOMAIN fs :
    \A n \in DOMAIN LinesOf(fs[f]) : EncodingsOf(LinesOf(fs[f])[n]) \in Seq(Text)

\* An int numbers the lines.
ASSUME LinesAssumption ==
  \A fs \in KeyLists : \A f \in DOMAIN fs : Len(LinesOf(fs[f])) <= LargestInt

\* boost::lexical_cast<bool>
IsBool(column) == column \in {"0", "1"}
OptionsOf(cols) == SubSeq(cols, 3, IF Len(cols) < 5 THEN Len(cols) ELSE 5)

Init ==
  /\ files \in KeyLists
  /\ pc = "files"
  /\ fileNo = 0 /\ lines = <<>> /\ lnum = 0
  /\ pattern = Null /\ encodings = <<>>
  /\ inErr = <<>> /\ errs = <<>>
  /\ labels = <<>> /\ pmap = <<>> /\ prog = NoProg
  /\ printed = <<>>
  /\ buffer = <<>> /\ handle = NoProg
  /\ made = <<>>

-----------------------------------------------------------------------------
\* parsePatterns: one call of lg_add_pattern_list for each key file.
AddPatternList ==
  /\ pc = "files"
  /\ fileNo < Len(files)
  /\ fileNo' = fileNo + 1
  /\ lines' = LinesOf(files[fileNo'])
  /\ lnum' = 0
  /\ inErr' = <<>>
  /\ made' = Append(made, <<>>)
  /\ pc' = "line"
  /\ UNCHANGED <<files, adding, errs, prog, printed, buffer, handle>>

NextLine == lines' = Tail(lines) /\ lnum' = lnum + 1

Report(e) ==
  /\ inErr' = Append(inErr, e)
  /\ made' = [made EXCEPT ![fileNo] = Append(@, e)]

\* addPatternList, one line: its columns are checked from left to right, the line is
\* parsed, and the pattern is to be added in each of the encodings.
ReadLine ==
  /\ pc = "line" /\ lines # <<>>
  /\ NextLine
  /\ LET cols == Columns(Head(lines))
         listed == EncodingsOf(Head(lines))
         source == files[fileNo].name
     IN \/ /\ cols = <<>>
           /\ Report(Error("no pattern", source, lnum))
           /\ UNCHANGED <<pc, pattern, encodings>>
        \/ /\ cols # <<>> /\ Len(cols) > 1 /\ listed = <<>>
           /\ Report(Error("no encoding list", source, lnum))
           /\ UNCHANGED <<pc, pattern, encodings>>
        \/ /\ cols # <<>> /\ listed # <<>>
           /\ \E i \in DOMAIN OptionsOf(cols) : ~IsBool(OptionsOf(cols)[i])
           /\ pc' = "thrown"
           /\ UNCHANGED <<inErr, made, pattern, encodings>>
        \/ /\ cols # <<>> /\ (listed # <<>> \/ Len(cols) = 1)
           /\ \A i \in DOMAIN OptionsOf(cols) : IsBool(OptionsOf(cols)[i])
           /\ \/ /\ cols[1] \notin Parses
                 /\ Report(Error("parse", Null, lnum))
                 /\ UNCHANGED <<pc, pattern, encodings>>
              \/ /\ cols[1] \in Parses
                 /\ pattern' = cols[1] /\ encodings' = listed
                 /\ pc' = "add"
                 /\ UNCHANGED <<inErr, made>>
  /\ UNCHANGED <<files, fileNo, errs, labels, pmap, prog, printed, buffer, handle>>

\* Faulty, for the sensitivity checks: a refused pattern stays in the pattern map.
AddPatternBefore ==
  /\ pc = "add" /\ encodings # <<>>
  /\ LET enc == Head(encodings) IN
     IF <<pattern, enc>> \in Encodes
     THEN /\ labels' = Append(labels, [label |-> Len(pmap), pattern |-> pattern, chain |-> enc])
          /\ pmap' = Append(pmap, [pattern |-> pattern, chain |-> enc, userIndex |-> lnum - 1])
          /\ UNCHANGED <<inErr, made>>
     ELSE /\ Report(Error("encoding", Null, lnum - 1))
          /\ pmap' = Append(pmap, [pattern |-> pattern, chain |-> enc, userIndex |-> lnum - 1])
          /\ UNCHANGED labels
  /\ encodings' = Tail(encodings)
  /\ UNCHANGED <<files_, pc, pattern, errs, prog, printed, buffer, handle>>

\* lg_add_pattern: the label is the size of the pattern map, which grows after the
\* automaton has taken the pattern.
AddPattern ==
  /\ pc = "add" /\ encodings # <<>>
  /\ LET enc == Head(encodings) IN
     IF <<pattern, enc>> \in Encodes
     THEN /\ labels' = Append(labels, [label |-> Len(pmap), pattern |-> pattern, chain |-> enc])
          /\ pmap' = Append(pmap, [pattern |-> pattern, chain |-> enc, userIndex |-> lnum - 1])
          /\ UNCHANGED <<inErr, made>>
     ELSE Report(Error("encoding", Null, lnum - 1)) /\ UNCHANGED <<labels, pmap>>
  /\ encodings' = Tail(encodings)
  /\ UNCHANGED <<files_, pc, pattern, errs, prog, printed, buffer, handle>>

PatternAdded ==
  /\ pc = "add" /\ encodings = <<>>
  /\ pc' = "line"
  /\ UNCHANGED <<files_, adding, inErr, errs, prog, printed, buffer, handle, made>>

\* Faulty, for the sensitivity checks: the chain is not walked to its end.
JoinAtFirst(list) ==
  errs' = IF errs = <<>> \/ list = <<>> THEN errs \o list ELSE <<Head(errs)>> \o list

\* parsePatterns hangs the errors of a list on the last one of the chain.
Join(list) == errs' = errs \o list

EndList ==
  /\ pc = "line" /\ lines = <<>>
  /\ Join(inErr)
  /\ pc' = "files"
  /\ UNCHANGED <<files_, adding, inErr, prog, printed, buffer, handle, made>>

\* lg_add_pattern_list, when addPatternList threw: the errors so far and the one
\* caught.  in_err->Next is the second error of the list, not the end of it.
CaughtError == Error("exception", Null, -1)
WithCaught(list) == IF list = <<>> THEN <<CaughtError>> ELSE <<Head(list), CaughtError>>

ListThrew ==
  /\ pc = "thrown"
  /\ made' = [made EXCEPT ![fileNo] = Append(@, CaughtError)]
  /\ Join(WithCaught(inErr))
  /\ pc' = "files"
  /\ UNCHANGED <<files_, adding, inErr, prog, printed, buffer, handle>>

-----------------------------------------------------------------------------
\* handleParseErrors: the source is printed if there are several key files; a null
\* one spoils the stream, and nothing after it is seen.
NamesFiles == Len(files) > 1
Visible(chain) ==
  LET bad == {i \in DOMAIN chain : NamesFiles /\ chain[i].source = Null}
  IN IF bad = {} THEN chain ELSE SubSeq(chain, 1, Min(bad) - 1)

HandleParseErrors ==
  /\ pc = "files" /\ fileNo = Len(files)
  /\ printed' = Visible(errs)
  /\ pc' = "build"
  /\ UNCHANGED <<files_, adding, inErr, errs, prog, buffer, handle, made>>

\* buildProgram; without a single pattern the graph cannot be finalized.
BuildProgram ==
  /\ pc = "build"
  /\ \/ labels # <<>> /\ prog' \in Compiled /\ pc' = "built"
     \/ labels = <<>> /\ pc' = "noProgram" /\ UNCHANGED prog
  /\ UNCHANGED <<files_, adding, inErr, errs, printed, buffer, handle, made>>

\* A client writes the program to a buffer of its own, of lg_program_size bytes.
Encoded(infos) ==
  [i \in DOMAIN infos |-> [pattern |-> TextOf[infos[i].pattern], chain |-> TextOf[infos[i].chain],
                           userIndex |-> infos[i].userIndex]]

WriteToBuffer ==
  /\ pc = "built"
  /\ buffer' = WriteProgram(Encoded(pmap), prog)
  /\ pc' = "written"
  /\ UNCHANGED <<files_, adding, inErr, errs, prog, printed, handle, made>>

ReadFromBuffer ==
  /\ pc = "written"
  /\ handle' = ReadProgram(buffer)
  /\ pc' = "loaded"
  /\ UNCHANGED <<files_, adding, inErr, errs, prog, printed, buffer, made>>

\* writeProgram and loadProgram: what "prog --binary" puts in a file is what
\* --program-file reads, into a buffer that loadProgram frees as it returns.
WriteFile ==
  /\ pc = "built"
  /\ buffer' = MarshallProgram(prog)
  /\ pc' = "file"
  /\ UNCHANGED <<files_, adding, inErr, errs, prog, printed, handle, made>>

LoadProgram ==
  /\ pc = "file"
  /\ handle' = ReadProgram(buffer)
  /\ buffer' = <<>>
  /\ pc' = "loadedFile"
  /\ UNCHANGED <<files_, adding, inErr, errs, prog, printed, made>>

Stopped == pc \in {"noProgram", "loaded", "loadedFile"} /\ UNCHANGED vars

Next ==
  \/ AddPatternList \/ ReadLine \/ AddPattern \/ PatternAdded \/ EndList \/ ListThrew
  \/ HandleParseErrors \/ BuildProgram
  \/ WriteToBuffer \/ ReadFromBuffer \/ WriteFile \/ LoadProgram
  \/ Stopped

Spec == Init /\ [][Next]_vars
-----------------------------------------------------------------------------
(* Properties.                                                             *)

\* A label stands in the automaton for the pattern and the encoding that the pattern
\* map has at that index, also after refusals (lightgrep_c_api.cpp:123-128).
LabelsAreIndices ==
  labels = [i \in DOMAIN pmap |->
             [label |-> i - 1, pattern |-> pmap[i].pattern, chain |-> pmap[i].chain]]

\* What each line of each file should come to: its patterns in order, or errors,
\* with the index of the line among those that are not empty.
Refused(line) ==
  \/ Columns(line) = <<>>
  \/ Len(Columns(line)) > 1 /\ EncodingsOf(line) = <<>>
  \/ Columns(line)[1] \notin Parses

Admits(line, k) == <<Columns(line)[1], EncodingsOf(line)[k]>> \in Encodes

PatternsOf(line, n) ==
  IF Refused(line) THEN <<>>
  ELSE FlattenSeq([k \in DOMAIN EncodingsOf(line) |->
         IF Admits(line, k) THEN <<[pattern |-> Columns(line)[1], chain |-> EncodingsOf(line)[k],
                                    userIndex |-> n]>>
         ELSE <<>>])

ErrorsOf(line, n) ==
  IF Refused(line) THEN <<n>>
  ELSE FlattenSeq([k \in DOMAIN EncodingsOf(line) |-> IF Admits(line, k) THEN <<>> ELSE <<n>>])

PatternsIn(file) ==
  FlattenSeq([n \in DOMAIN LinesOf(file) |-> PatternsOf(LinesOf(file)[n], n - 1)])
ErrorsIn(file) ==
  FlattenSeq([n \in DOMAIN LinesOf(file) |-> ErrorsOf(LinesOf(file)[n], n - 1)])

\* One of the options in the columns after the encodings is no number that is a bool.
Throws(line) ==
  /\ Len(Columns(line)) > 2 /\ EncodingsOf(line) # <<>>
  /\ \E k \in 3..Len(Columns(line)) : k <= 5 /\ ~IsBool(Columns(line)[k])

NoneThrew == \A f \in DOMAIN files : \A n \in DOMAIN LinesOf(files[f]) : ~Throws(LinesOf(files[f])[n])

Indices(chain) == [i \in DOMAIN chain |-> chain[i].index]

\* Every pattern of every line of every file is in the pattern map, once for each
\* encoding, or has an error of its own under the line's index, in order across
\* files; with one key file all of them are shown.
AllAccountedFor ==
  NoneThrew /\ pc \notin {"files", "line", "add", "thrown"} =>
    /\ pmap = FlattenSeq([f \in DOMAIN files |-> PatternsIn(files[f])])
    /\ Indices(errs) = FlattenSeq([f \in DOMAIN files |-> ErrorsIn(files[f])])
    /\ ~NamesFiles => printed = errs

\* A program that was written with lg_write_program, if an int holds the number of its
\* bytes, fills exactly those that lg_program_size announces, and lg_read_program gives
\* the same program and the same patterns back.
Announced == ProgramHandleSize(Encoded(pmap), prog)

ReadBack ==
  pc \in {"written", "loaded"} /\ Len(buffer) <= LargestInt =>
    /\ Len(buffer) = Announced
    /\ pc = "loaded" =>
         /\ [i \in DOMAIN handle.pmap |-> InfoOf(buffer, handle.pmap[i])] = Encoded(pmap)
         /\ ProgramOf(buffer, handle.prog) = prog
=============================================================================
