# Lightgrep in TLA+

Lightgrep searches a byte stream for many regular expressions in many encodings at
once. It compiles the expressions into one program for a virtual machine of Pike's
kind and runs that machine over the stream, buffer by buffer, in a single pass. This
directory models the way from a parse tree to the line written for a hit - rewriting,
encoding, automaton, program, machine, the search of files, the context of a hit - in
TLA+, checks it with TLC on small instances and proves the safety properties of the machine,
of the search of files, of the key files, and of classes and windows with TLAPS.

Paths below are relative to the root of the repository: `src/lib`, `include`, `src/cmd`.

## 1. The system

| Component | Sources | State | Operations |
|---|---|---|---|
| Parser | `src/lib/re_grammar.ypp`, `parser.cpp`, `parseutil.cpp` | node store of a `ParseTree`, the class being read | text to tree; bracket expressions to sets |
| Sets | `include/rangeset.h`, `byteset.h` | sorted bounds of ranges; 256 bits | insert, union, intersection, difference, complement |
| Rewriter | `src/lib/rewriter.cpp` | the tree, rewritten in place | empty subtrees, trailing repetitions, repeated subexpressions |
| Encoders, decoders | `src/lib/encoders`, `src/lib/decoders`, `utf*.cpp`, ICU | none after construction | code points to bytes, sets to byte ranges, and back |
| NFA, graph | `include/automata.h`, `graph.h` | vertices with a byte set, a label, a match flag; ordered out and in lists | add vertices, add, insert and remove edges |
| NFA builder | `src/lib/nfabuilder.cpp`, `include/fragment.h` | the NFA, a stack of fragments | one callback per node type, in postorder |
| NFA optimizer | `src/lib/nfaoptimizer.cpp` | the maps of one merge | prune, merge, determinize, label |
| Compiler | `src/lib/compiler.cpp`, `codegen.cpp`, `utility.cpp` | layout of the states | order, measure, encode; two-byte filter |
| FSM and C API | `src/lib/fsmthingy.cpp`, `lightgrep_c_api.cpp` | the common NFA, the pattern map, the program | add pattern, add list, compile, write, read |
| Search context | `src/lib/vm.cpp`, `include/thread.h` | thread lists, locks, live labels, ends of matches | `search`, `searchResolve`, `closeOut`, `startsWith`, `reset` |
| Windows | `src/lib/lightgrep_c_util.cpp` | none | the characters of a hit and around it |
| Controller, readers | `src/cmd/searchcontroller.cpp`, `reader.cpp` | two buffers, a future | read ahead on a second thread |
| Hit writers | `src/cmd/hitwriter.cpp` | path, current buffer, first-hit flag | a line for a hit, with lines of context |
| Command line | `src/cmd/main.cpp`, `optparser.cpp` | options | key files, program files, lists, directories, search |

**How they interact.** `lg_parse_pattern` makes and reduces a tree. `lg_add_pattern`
gives it the next label (the number of patterns so far), builds its NFA with the encoder
of its encoding, prunes it and merges it into the common NFA; then the pattern map grows.
`lg_compile_program` finalizes the common NFA and writes the program. Contexts share a
program, which no longer changes. A client feeds a context with consecutive buffers; the
context calls back for each hit, on the caller's stack. All of the library is sequential.
The command line is such a client: its key files become patterns, its files become
buffers, which a second thread reads one ahead, and its callbacks write lines that they
cut from the buffer they were given last.

**What is hard.** One frame (one byte) runs all threads in an order that *is* their
priority, across recursion in `FORK_OP`, saved copies and two lists that are swapped.
Whether a match may be reported depends on what other threads may still do many bytes
later. Locks (`CHECK_HALT_OP`) kill threads to keep the machine small and must never
kill the one that would have won. Buffers end anywhere, and the filter reads ahead.
Merging puts patterns with priorities of their own into one ordered graph. The two
passes of the compiler must count alike. The rewriter and the sharing of suffixes of
long codes must not change what a pattern matches. Two threads share two buffers; a hit
is reported when its buffer may be gone. A window is decoded backwards from a hit,
where no character is known to begin. One bad line among many key files must neither
shift the labels of the others nor go unseen.

**What correctness means for each component.**

- Search context: exactly the leftmost matches of each keyword, in order, none early,
  none lost, for every division into buffers; every call returns; the value returned
  bounds later hits; locks, live labels and priorities are what the instructions take
  them for.
- Rewriter: a tree keeps its matches and their order of preference.
- Sets, classes, encoders: a class is a set; negation is its complement; what is written
  for it is the codes of its members and no other.
- Builder, optimizer: for every pattern and text the match that the manual gives the
  tree, priorities included, whatever was added before and after.
- Compiler: code fills exactly its room; the filter rejects no start of a match.
- Controller and readers: every byte of every file named is searched once, in order; no
  buffer is filled while it is searched; the program ends.
- Hit writers, windows: each hit once, under its own file, with the lines and the
  characters that are around it.
- Key files, program files: labels and patterns stay in step, each line comes to patterns
  or to errors, what is read back is what was written.

The hazards behind these, each at its line, are in `PROJECT.json`.

## 2. The modules

| Module | Models | Role |
|---|---|---|
| `Vm` | `vm.cpp`, `vm.h`, `thread.h` | the search context, one action per instruction, loop turn and API call |
| `VmProofs`, `VmOrderProofs` | | the inductive invariant and what follows from it |
| `Grep` | the promise of `include/lightgrep/api.h` | abstract specification of a context |
| `ParseTree` | `parsenode.h`; the manual `documentation/reref.tex` | trees, and their matches in order of preference: the reference |
| `Rewriter` | `rewriter.cpp`, `reduce` of `parser.cpp` | the passes, as operators from tree to tree |
| `Nfa` | `automata.h`, `graph.h` | the NFA, and what a text means to it |
| `NfaBuilder` | `nfabuilder.cpp`, `fragment.h` | tree to NFA |
| `NfaOptimizer` | `nfaoptimizer.cpp` | prune, merge, determinize, label |
| `Compiler` | `compiler.cpp`, `codegen.cpp`, `utility.cpp` | NFA to program |
| `FsmThingy` | `fsmthingy.cpp`, `addPattern`, `compile_program` | the state machine of a program under construction |
| `Encoders` | `ascii.cpp`, `utf*.cpp`, `encoderbase.cpp`, rot and OCE encoders | code points to bytes, sets to few sequences of byte sets |
| `RangeSet` | `rangeset.h` | sets of code points, on their bounds |
| `Classes` | bracket expressions of `re_grammar.ypp`, `parseutil.cpp` | class algebra, negation, case, codes of a class |
| `Decoders` | `src/lib/decoders`, `encoderfactory.cpp`, `decoderfactory.cpp` | chains; bytes to characters, stray bytes included |
| `Transcoding` | `lightgrep_c_util.cpp`, composed with the four above | a client that reads a class, writes it, reads windows and contexts |
| `TranscodingProofs` | | sets on bounds, classes; what decoding a range gives, the parts of a window; decoders against encoders |
| `ContextProofs` | | encoders against decoders; a text read from anywhere; the window of a hit in a text, the context shown to a user |
| `EncoderProofs` | | what an encoder writes for a set of code points; what a class and its negation accept |
| `Options` | `optparser.cpp` | what a command line asks for, and which are refused |
| `HitWriter` | `hitwriter.cpp` | lines of context, group separators |
| `SearchController` | `main.cpp`, `searchcontroller.cpp`, `reader.cpp`, composed with the two above | the search of files by two threads |
| `SearchPromise` | | what a search owes: the files named, their hits, the lines around them |
| `SearchProofs` | | the invariant of the two threads and of the walk; of output, context and totals |
| `Serialization` | `pattern_map.cpp`, `program.cpp`, `lg_write_program`, `lg_read_program` | programs as bytes |
| `KeyFiles` | `lg_add_pattern_list`, key and program files of `main.cpp` | from key files to a program that was written and read |
| `KeyFilesProofs` | | the invariant of reading key files; bytes written are read back |
| `DataLemmas` | | induction, concatenation, prefixes and parts of sequences, for the proofs |
| `Patterns` | | trees, lists and sets of patterns the runs use |
| `MCVm`, `MCFsm`, `MCTranscoding`, `MCSearch`, `MCKeyFiles` | | model values, references and refinement mapping for TLC |

`Vm`, `SearchController`, `KeyFiles`, `Transcoding`, what they extend and their proofs use
no recursive operator but recursive functions; `Vm` knows programs only by what its
assumptions say of them. The pipeline modules are pure operators, recursive where the code
loops over a graph or a tree, and are used by TLC only.

### The machine, step by step

The C++ runs a frame in nested calls; `Vm` has one action for each of their parts, and
the variables `call`, `stage`, `t` and `forks` say which part is next.

| Code | Action |
|---|---|
| constructor, up to its epsilon sequence; after it | `Init`; `Constructed` |
| `search`, `searchResolve`, `startsWith`, `closeOut`, `reset` entered | `Search`, `SearchResolve`, `StartsWith`, `CloseOut`, `Reset` |
| next turn of the byte loop | `BeginFrame` |
| `_execute` in `_executeThread`, and the overlap test of `_executeEpSequence` | `ExecuteThread` |
| `_executeNewThreads` and the filter | `SpawnThreads` |
| cases of `_executeEpsilon` | `FinishWaits`, `FinishReports`, `Fork`, `Jump`, `CheckHalt`, `Label`, `Match`, `EndSequence` |
| `_markLive`, `Next.push_back`, return into `FORK_OP` | `Settle` |
| `_cleanup` | `Cleanup` |
| `return _startOfLeftmostLiveThread(offset)` | `ReturnLeftmost` |
| turn of `closeOut`'s loop, its end | `CloseThread`, `Closed` (and `EndStartsWith` on the way there) |

- The recursion of `FORK_OP` is the stack `forks`: the saved copy `f`, with the target
  it will jump to when the parent's sequence is over.
- `forks` is also why `PriorityOrder` speaks of four places: survivors, the runner, its
  saved copies, those yet to run.
- `Thread::NONE` is 2^64-1 and `NONE + 1` is 0 there; it is -1 here, so that is kept.
  Other offsets are not wrapped: a stream of 2^64 bytes is out of question.
- A thread killed by its own instruction has `PC = 0`; one killed by another's `FINISH`
  stands at the guard, the last but one word of the program, a `HALT`.
- Buffers are contiguous and the stream starts at 0: `text` is the whole stream, a
  client's call gives the next `n` bytes (0 included, as the controller's last block
  is). `cur` and `bufEnd` are offsets in it.
- `hits`, `returned`, `resolveFrom` and `closed` are history: what the client has seen
  and done since the last reset.
- The client closes a stream before it resets or stops, and gives no buffer after that.
  It may mix `search` and `searchResolve` only in the order of `api.h`: once
  `searchResolve` took over, `search` would create new starts again. `startsWith` is
  used on a fresh context.
- `Program`'s operands (jump tables, bit vectors, targets) are fields of the
  instruction; `Size` and `Words` count them.

### The pipeline

- Vertices are numbers from 0 in both; out lists are sequences, so `insertEdge` at a
  position is `InsertAt`. In lists are only counted.
- The rewriter changes nodes in place under their parent; a pass here returns the tree it
  leaves, and the pass's Boolean result is that the tree is another one. The passes come
  in the order of `reduce`, each until it changes nothing where the code loops.
- The builder's stack of fragments is the recursion of `Build`. `traverse` first
  replaces counted repetitions by concatenations and optional nodes; `Counted` is that
  tree. A class is a set of code sequences; `AddCode` walks back from a tail of the
  fragment to the longest suffix that a new code shares with it, as `nfabuilder.cpp:255`.
- The depth-first stack of `mergeIntoFSM` is an argument of `MergeEdges`; its reference
  to a popped element (`nfaoptimizer.cpp:173`) is read as the value it had.
- The alphabet has three bytes where the code has 256. Nothing in the pipeline depends
  on the number but the length of tables and the last byte of `minAndMaxValues`, which
  is `MaxByte`. Encodings of two and three bytes per code point over it (`Patterns`) stand
  for those of UTF-8 and UTF-16.
- `utility.cpp` walks the graph breadth first and keeps the window sets in bit vectors;
  `PairsAt` is that set for one offset. The first of the smallest sets is taken, as
  `min_element` does.

### Classes, encodings and windows

- Here bytes are 256 and code points reach 0x10FFFF, but an encoder is looked at for the
  code points of `CodePoints` only: those around every place where the length or the block
  of a code changes, and some letters.
- A class is the bounds of its ranges, its bytes, and whether these are added or taken
  away. `FirstItem`, `NextItem`, `CloseClass` are the grammar's actions for the items, the
  operators and the closing bracket; a closed class may be an item of the next.
  `WriteClass` is `NFABuilder::charClass`, with the encoder's own block-wise collection of
  ranges.
- Case pairs are ICU's and a constant (`CaseFolds`); the tables of OCE are constants of
  which `TablesInvert` is assumed: each is a function on the bytes and inverts the other,
  as the two tables in the source do.
- The inputs are bytes that an `unsigned int` can count, in the chains that this
  module knows; the items are classes (`InputsAssumption`, `ChainsAssumption`).
- `ReadWindow`, `HitContext`, `Free` are the calls of the C API. Their loops - all starts
  in front of the hit, the best one taken - are recursive functions; `UIntMax` is the largest
  `unsigned int`.

### The search of files

| Code | Action |
|---|---|
| `parse_opts`, `main` | `ReadOptions` |
| `search(opts)`: a list, the inputs, the summary | `NextList` |
| `search(inputs)`, `search(input)`, the walk of a directory | `NextPath` |
| `reader.read` of `searchFile`, first and in the loop | `FirstRead`, `Prefetch` |
| `fut.get()` | `GetBlock` |
| `lg_search`, byte by byte; its return | `SearchByte`, `EndSearch` |
| the callback | `ReportHit` |
| the last search, of no bytes; `lg_closeout_search` | `LastSearch`, `CloseOut` |
| `fread` on the reader's thread, byte by byte; its end or error | `ReadByte`, `EndRead` |

The last row is a process of its own. A block holds positions in the file rather than
bytes, so that a block overwritten during the search is told from the right one. The
search context is taken at the promise of `Grep`: a hit is reported in order, at any time
between its last byte and the close-out, and when exactly is left open. Reads of the paths
in `Faulty` may fail at any byte.

### Key files and programs

`KeyFiles` has one action per line of a key file, per encoding of a line, and per call
of the API. What parses, and what an encoding admits, are constants; that an exception
leaves `addPatternList` from a column that is no Boolean is not. Programs are compiled
elsewhere: `Compiled` stands for them. `Serialization` is by bytes: a string ends at its
zero, numbers have the sizes of the code, `FilterBits` is the size of the filter. Sizes
and line numbers wrap where the code keeps them in an `int` or an `unsigned int`, whose
largest value is `LargestNumber` (`bufSize` sums in an `int`, `pattern_map.cpp:50`). What a
buffer says beyond it is not told from it.

## 3. What the runs check

| Run | Question | Bounds | Size |
|---|---|---|---|
| `vm_promise` | Does the machine implement `Grep`? | 36 pattern lists, each with and without determinization; texts of length 5 over two bytes, length 3 over three | 1.6 M states, 2 min |
| `vm_invariants` | Do its invariants hold, for every mix of calls and with or without a callback? Does every call return? | same lists, lengths 3 and 3 | 0.7 M states, 2 min |
| `starts_with_tail` | Is `lg_starts_with` exact where the filter's window does not fit? (violated) | | |
| `fixed_memory` | Is a context's memory fixed? (violated) | one program, one text of 24 bytes | |
| `fsm_build` | Does the way from tree to program keep each pattern's matches? | all concatenations and alternatives of pairs of 13 small units; trees for each rule of the rewriter; classes under scaled encodings; lists of up to 3 of a mixed set; every text up to 4 bytes | 9 k states, 1 min |
| `rewriter` | ... for trees that a comment or the manual gives another meaning? (violated) | | |
| `transcoding` | Are classes sets, codes exact, windows and contexts what is there? | 9 chains; texts of up to 3 characters or 2 pieces with stray bytes; classes between all edges of the encodings, and 4 items under 4 operators | 183 k states, 2 to 3 min |
| `transcoding_bad` | Is the number of bad items always that? (violated) | | |
| `search_files` | Is everything searched once, in order, and written with its lines? Does the program end? | 14 command lines, 4 disks, files of up to 8 bytes, blocks of 2 | seconds |
| `search_context` | Is a hit in the context it is given? (violated) | | |
| `key_files` | Do labels, patterns and errors stay in step? Is a program read back? | one key file of up to 4 lines, or two of up to 2; 9 kinds of line | seconds |
| `key_files_errors` | Are all errors kept? (violated) | | |

**The promise** (`Grep`). `HitsIn(l, n)` is the list of matches of keyword `l` in the
first `n` bytes, by the meaning of its parse tree *alone*: leftmost, for each start the
first in the order of preference, not overlapping. While a stream is open a hit may be
reported only if it stands whatever follows; when it is closed all must have been.
`searchResolve` restricts the list to the starts before it took over, `startsWith` to the
start at byte 0, and nothing is promised where the filter's window exceeds the buffer
(`GivesUp`, see finding 1). `KeepsPromise` maps `Vm` to it: `found` is the hits by label,
`given` is `bufEnd`. A machine that reported late would also keep it until the stream
ends, and `FinishedWaitForLive` says that it does not hold a match back for nothing.

The reference, `MatchOf` of `ParseTree`, is the manual's: alternatives in order, greedy
and reluctant repetition, backtracking over the tree. Automata, the merge, the subset
construction, the code layout and the machine have nothing in common with it, so the
chain is checked from the tree to the hit.

**Invariants of the machine.**

- `PriorityOrder`: threads stand in the order of their starts, at every step. The kill
  loop of `FINISH_OP` and `_startOfLeftmostLiveThread` are correct only because of it.
- `FlagsMatchNext`: `Live` and `LiveNoLabel` describe `Next` and nothing older.
- `FinishedWaitForLive`: between frames a finished thread stands behind one that reads
  on and may take its place. This is why the leftmost *live* thread, which
  `_startOfLeftmostLiveThread` takes, bounds the finished ones too.
- `LeadIsFirst`: a lead thread, which may kill every thread of its label, has only
  threads of its own start before it.
- `HitsDisjoint`, `ReturnBoundsLaterHits`: the hits of a label are in order and apart;
  none starts before the value last returned.
- `CallsReturn`: a call in progress ends. Together with `FinishReports`, which happens
  within calls, it is the only liveness the library has.

**Properties of the pipeline.** `ReductionKeepsMatches` is about the rewriter alone.
`MatchesKept` holds after every `AddPattern` and after `CompileProgram`, for the patterns
added so far, so the third pattern may not disturb the first. `CodeFitsLayout` is the
check that `createJumpTable` makes for itself (`compiler.cpp:98`), extended to every
state. `FilterSound` says that the two-byte window of `bestPair` rejects no start of a
match.

**Properties of classes and windows.** `ClassIsSet`: the bounds are of disjoint ranges
that do not touch, so that comparison by bounds is comparison of sets, and the four
operators are those of sets. `CodesExact`: for the codes of the code points looked at and
all sequences one byte away from them, what is written for a class accepts exactly those
that the *decoder* of the chain reads as one of its members. `NegationComplements`: no code
is accepted by `[...]` and `[^...]` both, and a character by one of them. `ItemsTile` and
`HitDecoded`: the items of a window lie side by side and the hit is those that start in
it. `ContextIsText`: on whole characters the window is the characters around the hit,
although decoding starts at offsets in the middle of some. `BadCounted`, `ContextShown`:
the number of bad items; the UTF-8 shown to a user. What replaces bad items must itself be
a code point other than NUL: the code does not check it, and the property is about such
replacements only.

**Properties of the search.** `BlockIntact` and `FedInOrder` are the double buffer's;
`OpenedInOrder` compares the files opened with those the command line names, the standard
input at its first use only; `OutputPromise` the output with the hits of the files, file by
file; `ContextLines` the context with the lines of the buffer it is cut from;
`TotalsAgree` the summary with the files. `Terminates` is the liveness of both threads.

**Properties of key files.** `LabelsAreIndices`, after any number of refusals;
`AllAccountedFor`: unless a list threw, every line comes to its patterns, in order, or to
an error under its own index; `ReadBack`: what is written fills the bytes announced and
is read back, up to the size at which `bufSize` wraps, beyond which `bufSize` announces
fewer bytes than `marshall` writes.

**Why these bounds.** The lists of `Patterns` were chosen to fire what can go wrong:
nested and non-greedy repetitions, alternatives of different length in both orders,
patterns that are prefixes of each other, equal patterns, patterns that share a state
until their labels part, enough alternatives for jump tables with and without indirect
tables, windows of the filter at offset 1, codes that share suffixes. Two lists
(`Tentative`) hold a match back while it may still grow, which is what makes a late match
overtake an unlabelled thread; without them several guards of `_liveCheck` could be
dropped unnoticed. Texts of the full length suffice for shorter ones, since the client may
close a stream after any byte. Four bytes are enough for two adjacent matches and for a
match to be overtaken; `vm_promise` has five, since `abbba`, the longest tentative match,
has five. For windows, three characters leave one of context on each side of a hit, of
every length of UTF-8 and UTF-16. For the search, files of 0, 2, 3, 5, 6 and 8 bytes
around blocks of 2 give no block, one full block, a rest, hits at both ends of a block and
across two; `OffsetSize` is above all offsets, so that a wrapped one shows. Two key files
are the least at which chains of errors are joined, four lines hold refusals before and
after accepted ones.

The bounds suffice to break each property when a plausible fault is put into the code:
those faults are the operators marked *faulty*, at least one per property, and
`PROJECT.json` lists which property each breaks.

Coverage shows three branches of the machine that no compiled program takes: `FORK_OP`
on a thread that already overlaps a hit, `FINISH_OP` on one, and `HALT_OP` reached in an
epsilon sequence. They are modelled as the code has them.

**Deadlock** is checked for the machine, the search, the key files and transcoding, where
the only way to stop is an explicit end. The construction runs turn it off: a client
stops using the automaton once it is compiled.

**Fairness** is `WF_vars(Step)` for the machine: a call runs on the caller's thread until
it returns, so a step of the machine that can be taken is taken. Nothing is assumed of
the client: it may stop between calls for good. For the search it is `WF_vars(MainStep)`
and `WF_vars(ReaderStep)`: both threads are scheduled by the system, the main thread waits
for nothing but the future (`fut.get()`), the reader's for nothing but the file. No safety
property uses fairness.

**Findings.**

1. `startsWith` (`vm.cpp:538`) rejects a buffer that ends inside the filter's window
   unless it is one byte long. `.(a|[bc]b)` has the filter at offset 1; in the
   two-byte buffer `aa` the match is missed. `search` takes care of this by running the
   last frames without the filter. `api.h:205-211` promises every match at byte 0.
   (`starts_with_tail`)
2. A context does not use "a fixed amount of RAM" (`api.h:199`): a thread behind a live
   one of higher priority does not lock its state (`vm.cpp:347`), so its successors are
   not killed. `(a.*c|b.*c)` keeps one thread per `b` after an `a`. (`fixed_memory`)
3. The rewriter changes the meaning of some trees. `has_only_zero_length_match`
   (`rewriter.cpp:145`) looks at the left side of an alternation only, so `(a{0}|b)c`
   becomes `c`; `(ab??){2}` becomes `a{2}` (`:605-611`); `(a|ab)+(a|ab)+` becomes
   `(a|ab){2,}`, which prefers another match on `aaba` (`:371-376`). (`rewriter`)
4. `decode` (`lightgrep_c_util.cpp:177`) computes the number of bad items from a maximum
   that is still 0 when there is nothing in front of the hit, and `lg_read_window` returns
   `UINT_MAX` and more. (`transcoding_bad`)
5. A hit reported after its block was replaced is given a context from the wrong bytes;
   `hit->End - hi->BufOff` (`hitwriter.cpp:85`) wraps. (`search_context`)
6. `lg_add_pattern_list` hangs the caught error behind the first of its own
   (`lightgrep_c_api.cpp:283`) and so cuts off the rest. (`key_files_errors`)

**Seen while modelling, without a run of their own.**

- `prog --binary` writes the program without the pattern map (`main.cpp:543-582`), while
  `--program-file` reads both (`main.cpp:251-275`); `ProgramFileReadBack` of `MCKeyFiles`
  states what the options' texts promise.
- `api.h:157` gives errors a source, but those of parsing and adding have none, and
  `main.cpp:115` prints it when there are several key files.
- Names of files are printed for a single positional input too, although the option's
  text says that they are off then; a `-` inside a list is read without being mapped
  where `-C` implies `--mmap` and a positional `-` is refused.
- `rewriter.cpp:589-590` says that concatenations are right-associative; from four
  elements on they are not.
- An operator between classes keeps the left one's mode for bytes, so `[[^a\zFE]\zFF]`
  takes `\zFF` away although items are a union. `NegationComplements` is therefore stated
  for classes without a nested one that was negated with bytes.
- A hit that ends inside a character leaves fewer bytes than `trailing` characters may
  take (`lightgrep_c_util.cpp:184-186`): the last one of the window is then cut off and
  its bytes are bad. `ContextIsText` is therefore about hits on whole characters.

## 4. What is proved

Every theorem is `Spec => []P` of its component's specification, for every value of the
constants: all programs, texts, calls and callbacks; all disks, command lines, block
sizes and interleavings of the two threads; all key files and programs; all classes,
buffers and hits. Every safety invariant of `vm_invariants`, `search_files`, `key_files`
and `transcoding` is a theorem.

| Theorem | Module | States |
|---|---|---|
| `TypeCorrect` | `VmProofs` | `TypeOK`; a thread yet to run always stands at an instruction |
| `Invariance` | `VmProofs` | `Inv`, on which all others of the machine rest |
| `HitsDisjointAlways` | `VmProofs` | `HitsDisjoint` |
| `FlagsMatchNextAlways` | `VmOrderProofs` | `FlagsMatchNext` |
| `PriorityOrderAlways` | `VmOrderProofs` | `PriorityOrder` |
| `FinishedWaitAlways` | `VmOrderProofs` | `FinishedWaitForLive` |
| `LeadIsFirstAlways` | `VmOrderProofs` | `LeadIsFirst` |
| `ReturnBounds` | `VmOrderProofs` | `ReturnBoundsLaterHits` |
| `TypeCorrect` | `SearchProofs` | `TypeOK` |
| `Invariance` | `SearchProofs` | `Inv`, on which all others of the search rest |
| `BlockIntactAlways`, `FedInOrderAlways` | `SearchProofs` | `BlockIntact`, `FedInOrder` |
| `OpenedInOrderAlways` | `SearchProofs` | `OpenedInOrder` |
| `OutputPromiseKept` | `SearchProofs` | `OutputPromise` |
| `ContextLinesAlways` | `SearchProofs` | `ContextLines` |
| `TotalsAgreeAlways` | `SearchProofs` | `TotalsAgree` |
| `Invariance` | `KeyFilesProofs` | `Inv`, on which the next two rest |
| `LabelsAreIndicesAlways` | `KeyFilesProofs` | `LabelsAreIndices` |
| `AccountedAlways` | `KeyFilesProofs` | `AllAccountedFor` |
| `ReadBackAlways` | `KeyFilesProofs` | `ReadBack` |
| `ClassIsSetAlways` | `TranscodingProofs` | `ClassIsSet` |
| `ClosedMeans` | `TranscodingProofs` | what a closing bracket makes of a class, with case and negation |
| `AtomsAreClasses` | `TranscodingProofs` | the items of the grammar are classes in order |
| `HitDecodedAlways` | `TranscodingProofs` | `HitDecoded` |
| `BadCountedAlways` | `TranscodingProofs` | `BadCounted` |
| `CodeReads`, `ItemsTileAlways` | `TranscodingProofs` | every decoder reads only what its encoder writes; `ItemsTile` |
| `CodeForth` | `ContextProofs` | what an encoder writes for a character is read back as it, whatever follows |
| `ContextIsTextAlways` | `ContextProofs` | `ContextIsText` |
| `ContextShownAlways` | `ContextProofs` | `ContextShown` |
| `CodesExactAlways` | `EncoderProofs` | `CodesExact` |
| `NegationComplementsAlways` | `EncoderProofs` | `NegationComplements` |

A leaf that takes a prover more than a moment names that prover and allows it a minute
(`SMTT(60)`, `ZenonT(60)`), so that the proofs do not depend on the speed of the machine:
with the eight modules checked at once on four cores, no leaf used a third of its time.

### The machine

**Assumptions.** `ProgramsAssumption`: jumps and tables stay in the program, labels and
check indices are in range, the guard is a `HALT` (`WellFormed`). `InputAssumption`:
texts are bytes. `FlowAssumption`: for each program there are three sets of addresses -
those the constructor reaches, those that a thread reaches only after `LABEL`, those
only after `MATCH` - which are closed under the program's transfers and have `FINISH`
in the last two. `LabelsAssumption`: for each address there is the set of labels that a
thread there may carry, and an instruction `LABEL` meets a thread without a label or
with that very one: on a path there is one guard, which is what `propagateMatchLabels`
and the removal of labels establish. TLC evaluates all of them for every program that the
modelled compiler makes of the lists; `MCVm!MCFlow` computes the sets.

**The argument.** `TypeOK` is not inductive. `FINISH_OP` reads `MatchEnds[t->Label]`
and `t->End` without a check, so one must know that a thread that gets there has passed
`LABEL` and `MATCH`; `Fit(u)` says this of a thread by its address. It must hold of
every thread in every list: `NextOK`, `ActiveOK` (from the runner on: the threads
before it are spent and may be anything), `ForksOK` for the saved copies, which also
stand at a `FORK`, and `FirstOK` for the templates of new threads, which have passed
nothing. `Control` ties call and stage together, since a thread at the guard, a new
thread and a finished one are treated alike by some stages only. Each action preserves
each part; the lemmas `MoveFit`, `LabelFit`, `MatchFit`, `KillsFit` and `FreshFit` say
what the steps do to one thread.

For `HitsDisjoint`, `HitsInv` adds that the hits of a label end at or before
`MatchEnds` (`HitsBounded`), which a reset of a stream clears with the hits, except
that `startsWith` resets the machine while its hits remain: then the stream is closed
and nothing runs. A hit is accepted only if it starts at or after `MatchEnds`, and by
`Fit` its end is past its start.

`PriorityOrder` speaks of one list put together from four, and no single step keeps it
by itself: `OrderInv` says it by parts - the threads to run, the survivors, these
against those, the saved copies against the runner, whose start they share - and
`OrderMeans` puts the list together again. What an action does to the lists is stated
once, in `EpsilonShape`, `ExecuteShape`, `SpawnShape` and `SettleShape`, and used by all
the invariants. `WaitInv` carries `FinishedWaitForLive` through a frame: a finished
thread settles only if `IsLive` found its label or an unlabelled thread, which by
`FlagsMatchNext` is a thread in `Next`, and that one reads on or waits itself for one
that does. So the first thread between frames is never a finished one: it is live, and
by the order nothing starts before it. That is `LeftmostBounds`, and with it
`ReturnInv` - no thread that may yet report starts before the value returned - is
inductive.

`LeadIsFirst` is about a Boolean that `MATCH_OP` computes and `FINISH_OP` uses frames
later. `LeadInv` says of any two threads in the order of priority that the later one
*yields*: it leads only if the earlier one has its start or cannot take the place of its
match, carrying another label. For the latter the label must not change any more, which
is what `CarriesInv` takes from `LabelsAssumption`: a thread's label is among those its
address allows.

### The search of files

**Assumptions.** Blocks have at least one byte. Contents are sequences shorter than what
an offset holds. The hits of a content lie in it, are not empty and do not overlap: what
`HitsDisjoint` says of the machine. Disks and command lines name only paths that the
disk knows, the standard input is a file.

**The argument.** `BlockIntact` by itself says nothing of how the buffers got filled.
`Inv` has who owns which buffer at each step: the read under way fills `Next`, from where
the block under search ends (`JobInv`); the block got is in `Next` until the swap and in
`Cur` then (`BlockInv`); the context has been given what lies before the offset, and of
the block what was searched (`FedInv`). A short read means the end of the file, since the
reader is done only when its buffer is full or the file is.

`OutputInv` follows the hits through both loops: those counted so far are the hits of the
files before and those reported of this one. The output is compared with a
concatenation over files, the walk (`WalkInv`) with a concatenation over lists, paths and
directories: `WalkedTo(i, u)` says that `i` lists have been begun and `u` uses are done,
and that the files opened with those left of the directory are those of these uses.
A concatenation is a recursive function; the library's induction takes the hypothesis as an
operator, which no prover here can instantiate, so `DataLemmas` states induction with a
*set of numbers* and proves from it that `FlattenSeq` exists, is unique, and grows by
what an element adds.

`ContextLines` needs no invariant beyond `WriterInv` (the buffer is the block): it is a
fact about `find_leading_context` and `find_trailing_context`, stated by
`LeadingContext` and `TrailingContext` for every buffer, hit and number of lines, by
counting line ends.

### Key files

**Assumptions.** Key files are sequences of lines, lines of columns (`Text` is any
string), and a list of encodings is a sequence; an `int` numbers the lines of a file
(`LinesAssumption`). Patterns and chains that were accepted have no zero among their bytes
(`TextAssumption`): they came as C strings. Programs consist of numbers that an `unsigned
int` holds, a filter and instructions of four bytes (`CompiledAssumption`). The filter is
whole bytes and four bytes hold the largest number (`NumbersAssumption`).

**The argument.** `AccountInv` says at every step, in the middle of a line too, that the
pattern map and the errors are what the files, lines and encodings read so far come to,
while none threw; `ReadInv` where the reading is. The chain of errors is a concatenation
over files of concatenations over lines, by the same lemmas of `DataLemmas`.

`ReadBack` is about bytes: `Holds(buf, at, s)` says that a buffer has the sequence `s` at an
address, and `HoldsBoth` takes it apart along concatenations. One lemma each reads what
was written back: `NumberRead`, `StringRead` (up to the first zero, so the text must
have none), `FilterRead` (a bit out of a packed byte), `CodeRead`, `InfoRead`. `PatternsRead`
goes backwards over the entries, since `UnmarshallPatterns` walks on from where the last
one ended, and what it makes of the rest must be known before. The invariants are small:
what is in the pattern map was accepted under the index of a line (`AdmittedInv`), and the
buffer is what `WriteProgram` made of it (`BufferInv`). The bound on the size is needed:
without it `bufSize` wraps and the first conjunct is false.

### Classes and windows

**Assumptions.** `UIntMaxAssumption`, `CodePointsAssumption`: code points, and those that a
case pair has, are below 0x110000. `ChainsAssumption`: encodings are the six of the module,
rotations are less than 26, contexts are natural numbers. `CodesAssumption`: among the code
points looked at, every chain has a code for one (in the code they are all of Unicode); with
none, any class would count as ".". `TablesInvert`: OCE and its inverse.
`InputsAssumption`: a buffer is a sequence of bytes that an `unsigned int` can count, given as a text of characters and stray bytes (any buffer is one, if
need be of stray bytes only), items are classes with bounds in order (`AtomsAreClasses` shows it
of every item the grammar knows), the operators are the four of the grammar.

**The argument.** A set is the sequence of its bounds. `Insert` moves bounds by their
*places* in that sequence; the lemmas show that places found in ascending bounds split
them, that what is put together ascends again with an even number of bounds, and which
points it covers. `Flip` of the bounds is the complement, and union, intersection and
differences go through `Insert` and it. The class being read is then a set at every step
of the parser (`ClassIsSet`), and `ClosedMeans` says which.

For windows, `Items` is a recursive function over offsets: it exists and is unique since
each item has at least one byte, its items ascend, and decoding from the start of an item
gives the rest of the same items. So the window decoded from the best start in front of a
hit, and the hit decoded from its own, fit together: `HitDecoded`. `BadCounted` needs that
the items dropped from a leading context that is too long are not bad ones: a start behind
a bad item would have had fewer of them and would have been taken instead. The
count does not wrap, as there are no more items than bytes. The theorem is about hits
with something in front of them; without, the number returned is wrong (finding 4).

`ItemsTile` needs that a decoder reads only what the encoder of the same name writes.
`CodeReads` shows it for each encoding by the arithmetic of its bits (an overlong form, a
surrogate or a number too large reads as nothing), `PassedBack` and `RotatedBack` that OCE
and rotation are undone (`TablesInvert`, letters stay letters), `EncoderCodes` what the
encoder of a chain is; so every item *covers* its bytes (`ItemCovers`). Ranges that are tiled
join where one ends and the next begins (`TilesJoined`), and so do padding, the best
leading context, the hit and the rest, up to the end item.

`ContextIsText` needs the other direction, `CodeForth`: the decoder reads the code of a
character, whatever bytes follow, as that character. So a text whose codes *lie* side by side
(`Lies`) is read out from any of its places (`ItemsForth`), and the hit and what follows it
are clear (`BackIsText`), once it is known that enough bytes are decoded behind the hit
for as many characters as were asked for (`TopIsText`). In front of the hit nothing says
where a character starts, and the offsets tried may be inside one. One of them is
a place of the text (`StartAtText`) with nothing bad behind it; the start that is taken is
as good, so its last items are characters, as many as are shown (`LeadingEndsGood`). They need
not have been read from a place of the text; but no code of an encoding *ends* with another one
(`CodesEndApart`: a trailing byte of UTF-8 is no first byte, a low surrogate no character),
so two characters that end at one offset are the same (`SameEnd`), and backwards
from the hit every item shown is a character of the text (`EndIsText`). `ContextShown` rests
on `CodeForth` for UTF-8: what is written for the items of each part is read back item by
item, and has a zero byte only at its end (`ThreeAndZero`).

`CodesExact` is about sets of bytes, and about three ways to come by them. What
`collectRanges` makes of a set is one code for each run of code points; `IsEncoder` says what
this rests on: codes that join a range are as long and differ in the *running byte* only.
`PlainIsEncoder` shows it for encoders that compare bytes, `Utf8Blocks`, `Utf16Blocks` and
`Utf32Blocks` for those that count in blocks, by the arithmetic of neighbours. So a range
accepts the codes it was made of and no others (`RangesExact`): the running bytes vary, the rest is
the same. Collapsing at a place merges codes that are equal elsewhere, and the product of the
merged bytes with the others is again the union of the products (`CollapseKeeps`); so
`Write` accepts the codes of the set (`WriteExact`), shortest first, with one code of one byte
at most, which is what `charClass` relies on when it adds breakout bytes to the first code or
takes them away (`WithBytesMeans`). The third way are the tables kept for ".": each accepts
exactly the sequences that the decoder reads to their end (`DotAccepts`). By `CodeForth` and `CodeReads`
what is read to its end is the code of a character (`ReadAsMeans`), and `ClassCodesMean` has it
all together. The codes of "." are written when all code points *looked at* are in the class, so they accept
characters that are not looked at, too; the property leaves these out, in the code there are none.
The invariant, `WrittenKept`, is that a result held is that of the class as it was closed.

`NegationComplements` rests on the same lemma, `ClassWritten`, for both ways to close a bracket
expression: with code points inside, the two have none in common and all together
(`ClosedPoints`), while bytes that one adds the other takes away (`ClosedBytes`); without, neither has
code points and the bytes are complementary; with nothing inside the parser throws.

**Only model-checked**: `KeepsPromise` and the pipeline (`ReductionKeepsMatches`,
`MatchesKept`, `CodeFitsLayout`, `FilterSound`), whose operators are recursive over trees
and graphs - the prover has no SMT backend in a module that reaches a recursive operator,
and what a fold over a tree computes needs induction with an operator as parameter; and
`CallsReturn` and `Terminates`, since liveness is beyond the prover.

## 5. What is not modelled, and the plan

Not modelled:

- the lexer and the LALR grammar outside bracket expressions (generated; its output, the
  tree, is the input of the models); Unicode properties and names, ICU's;
- ICU's code pages, as encoder and decoder; the XOR encoder, which no chain that
  `parseChain` accepts can name;
- the storage of lists in `graph.h`, iterators of `rangeset.h`, the word operations of
  `byteset.h`, `SparseSet`: sets and sequences here;
- the text form of a program, graph output, samples, validation, listings: they print;
- the random match generator, the unparser and `shitgrep`, tools for tests; the trace
  build (`LBT_TRACE_ENABLED`), the Python binding, benchmark and test generators;
- creation and destruction of handles, which only allocate and free.

Order of the work:

1. *Done*: the machine, its promise, the pipeline from tree to program.
2. *Done*: rewriter with a reference for trees, codes of several bytes, classes,
   encoders, decoders and windows, controller and readers, hit writers, options, key
   files and serialization.
3. *Done*: proofs of all safety invariants of the machine, of the search of files, of
   key files and program files, and of classes, encoders, decoders, windows and contexts.
4. Next: the pipeline's properties as theorems, for which its operators would have to be
   recursive functions over numbered nodes.
