--------------------------- MODULE SearchController ---------------------------
(***************************************************************************)
(* The search command of lightgrep, from the command line to the summary:  *)
(* search() of main.cpp walks lists, directories and paths, gives each     *)
(* file a Reader and has SearchController::searchFile (searchcontroller.   *)
(* cpp) feed it to the search context, block by block, while the reader    *)
(* fetches the next block on a thread of its own (reader.cpp).  The search *)
(* context is the machine of module Vm, taken here at its promise: it      *)
(* reports the hits of the bytes it was given in order, each at some time  *)
(* between its last byte and the close-out.                                *)
(*                                                                         *)
(* A block holds positions in the file rather than bytes, so that a block  *)
(* overwritten under the search is told from the right one.                *)
(***************************************************************************)
EXTENDS Options, HitWriter, SequencesExt

CONSTANTS
  Commands,     \* the command lines, as Options describes them
  Disks,        \* what the paths name: functions to Files
  Faulty,       \* the paths whose reads may fail
  Contents,     \* the contents of the files: sequences of bytes
  Hits,         \* Hits[c]: the hits in the content c, in order
  BlockSize

ASSUME BlockSizeAssumption == BlockSize \in Nat \ {0}

\* Contents are sequences, shorter than what an offset can hold.
ASSUME ContentsAssumption ==
  \A c \in Contents : c \in Seq({c[i] : i \in DOMAIN c}) /\ Len(c) < OffsetSize

\* What the search context promises: the hits of a content lie in it, none is
\* empty, and they follow each other.
ASSUME HitsAssumption ==
  \A c \in Contents :
    /\ Hits[c] \in Seq([start : Nat, end : Nat])
    /\ \A i \in DOMAIN Hits[c] :
         /\ Hits[c][i].start < Hits[c][i].end /\ Hits[c][i].end <= Len(c)
         /\ i > 1 => Hits[c][i - 1].end <= Hits[c][i].start

\* A disk says of every path that it, or a command line, mentions what it names.
ASSUME DisksAssumption ==
  \A d \in Disks : \A p \in DOMAIN d :
    /\ d[p].kind \in {"file", "dir", "absent"}
    /\ d[p].kind = "file" => d[p].bytes \in Contents /\ d[p].lines \in Seq(DOMAIN d)
    /\ d[p].kind = "dir" => d[p].below \in Seq(DOMAIN d)
    /\ p = Stdin => d[p].kind = "file"

ASSUME CommandsAssumption ==
  \A c \in Commands :
    /\ \A d \in Disks : Inputs(c) \in Seq(DOMAIN d) /\ c.lists \in Seq(DOMAIN d)
    /\ {c.A, c.B, c.C} \subseteq Int
    /\ {c.mmap, c.recursive, c.withFilename, c.noFilename, c.noOutput} \subseteq BOOLEAN

\* A path names a file with bytes (and lines, should it be read as a list), a
\* directory with the paths below it, or nothing.
File(bytes, lines) == [kind |-> "file", bytes |-> bytes, lines |-> lines]
Dir(below) == [kind |-> "dir", below |-> below]
Absent == [kind |-> "absent"]

Slots == {0, 1}         \* the two buffers of a FileReader
Mapped == 2             \* the address space of a MemoryMappedFileReader
Garbage == -1

VARIABLES
  raw, disk,            \* the command line, the file system: never change
  pc,                   \* where the main thread is
  lists, inputsLeft,    \* the lists and the positional inputs still to do
  paths, below,         \* what is left of the current list and directory
  stdinUsed,
  path,                 \* the file being searched
  slots, cur, next,     \* FileReader: what its buffers hold, Cur and Next
  pos,                  \* where the file, or the mapping, is read next
  job,                  \* the read in progress, and its future
  blk,                  \* searchFile's buf and blkSize
  offset,
  searched,             \* how much of blk the context has been given
  hinfo,                \* the writer's path, buffer and first-hit flag
  fed,                  \* what the context got since its reset: <<offset, position>>
  reported,             \* how many hits of the file have been reported
  numHits, bytesSearched,
  out,                  \* the lines written, with what they say of a hit
  opened                \* the files searched so far

reader == <<slots, cur, next, pos>>
walk == <<lists, inputsLeft, paths, below, stdinUsed>>
vars == <<raw, disk, pc, walk, path, reader, job, blk, offset, searched, hinfo,
          fed, reported, numHits, bytesSearched, out, opened>>

opts == ParseOpts(raw)
Bytes == disk[path].bytes
FileHits == Hits[Bytes]

NoJob == [state |-> "none"]
NoBlock == [slot |-> Mapped, base |-> 0, len |-> 0]
NoPath == "none"

\* What lies in the k'th byte (from 0) of a block.
At(b, k) == IF b.slot = Mapped THEN b.base + k ELSE slots[b.slot][k + 1]

Init ==
  /\ raw \in Commands
  /\ disk \in Disks
  /\ pc = "options"
  /\ lists = <<>> /\ inputsLeft = FALSE /\ paths = <<>> /\ below = <<>>
  /\ stdinUsed = FALSE
  /\ path = NoPath
  /\ slots = [s \in Slots |-> [i \in 1..BlockSize |-> Garbage]]
  /\ cur = 0 /\ next = 1 /\ pos = 0
  /\ job = NoJob
  /\ blk = NoBlock /\ offset = 0 /\ searched = 0
  /\ hinfo = [path |-> NoPath, blk |-> NoBlock, off |-> 0, first |-> TRUE]
  /\ fed = <<>> /\ reported = 0
  /\ numHits = 0 /\ bytesSearched = 0
  /\ out = <<>> /\ opened = <<>>

-----------------------------------------------------------------------------
\* main and parse_opts: a command line that is refused ends in the usage message.
ReadOptions ==
  /\ pc = "options"
  /\ IF Rejected(raw)
     THEN pc' = "usage" /\ UNCHANGED <<lists, inputsLeft>>
     ELSE pc' = "lists" /\ lists' = opts.lists /\ inputsLeft' = TRUE
  /\ UNCHANGED <<raw, disk, paths, below, stdinUsed, path, reader, job, blk, offset,
                 searched, hinfo, fed, reported, numHits, bytesSearched, out, opened>>

\* skipStdin: the standard input can be read once only, as a list or as a file.
StdinAgainNever(p) == FALSE     \* faulty, for the sensitivity checks
StdinAgain(p) == p = Stdin /\ stdinUsed

\* A list that is a directory can be opened and has no lines.
LinesOf(l) == IF disk[l].kind = "file" THEN disk[l].lines ELSE <<>>

\* search(opts): the lists one by one, then the positional inputs, then the
\* summary.  A list that cannot be opened ends the search without one.
NextList ==
  /\ pc = "lists"
  /\ IF lists # <<>>
     THEN /\ lists' = Tail(lists)
          /\ UNCHANGED inputsLeft
          /\ IF StdinAgain(Head(lists))
             THEN UNCHANGED <<pc, paths, stdinUsed>>
             ELSE IF disk[Head(lists)].kind = "absent"
             THEN pc' = "gaveUp" /\ UNCHANGED <<paths, stdinUsed>>
             ELSE /\ pc' = "paths"
                  /\ paths' = LinesOf(Head(lists))
                  /\ stdinUsed' = (stdinUsed \/ Head(lists) = Stdin)
     ELSE IF inputsLeft
     THEN /\ inputsLeft' = FALSE
          /\ paths' = opts.inputs
          /\ pc' = "paths"
          /\ UNCHANGED <<lists, stdinUsed>>
     ELSE pc' = "summary" /\ UNCHANGED <<lists, inputsLeft, paths, stdinUsed>>
  /\ UNCHANGED <<raw, disk, below, path, reader, job, blk, offset, searched, hinfo,
                 fed, reported, numHits, bytesSearched, out, opened>>

\* stdin cannot be mapped; every other file is when --mmap is on.
UsesMapping(p) == p # Stdin /\ opts.mmapped

\* Neither a file that is not there nor, for a mapping, an empty one.
Opens(p) == disk[p].kind = "file" /\ (UsesMapping(p) => disk[p].bytes # <<>>)

\* search(input): a file that cannot be opened or mapped throws out of everything up
\* to main.
OpenFile(p) ==
  \/ /\ ~Opens(p)
     /\ pc' = "failed"
     /\ UNCHANGED <<path, hinfo, reader, fed, reported, offset, opened>>
  \/ /\ Opens(p)
     /\ pc' = "first"
     /\ path' = p
     /\ hinfo' = [hinfo EXCEPT !.path = p]
     /\ slots' = [s \in Slots |-> [i \in 1..BlockSize |-> Garbage]]
     /\ cur' = 0 /\ next' = 1 /\ pos' = 0
     /\ fed' = <<>> /\ reported' = 0         \* lg_reset_context
     /\ offset' = 0
     /\ opened' = Append(opened, p)

\* search(inputs): the next path of the directory being walked or of the list.
NextPath ==
  /\ pc = "paths"
  /\ IF below # <<>>
     THEN /\ below' = Tail(below)
          /\ UNCHANGED <<paths, stdinUsed>>
          /\ IF disk[Head(below)].kind = "dir"
             THEN UNCHANGED <<pc, path, hinfo, reader, fed, reported, offset, opened>>
             ELSE OpenFile(Head(below))
     ELSE IF paths = <<>>
     THEN /\ pc' = "lists"
          /\ UNCHANGED <<paths, below, stdinUsed, path, hinfo, reader, fed, reported, offset, opened>>
     ELSE LET p == Head(paths) IN
          /\ paths' = Tail(paths)
          /\ stdinUsed' = (stdinUsed \/ p = Stdin)
          /\ below' = IF opts.recursive /\ disk[p].kind = "dir" THEN disk[p].below ELSE <<>>
          /\ IF StdinAgain(p) \/ disk[p].kind = "dir"
             THEN UNCHANGED <<pc, path, hinfo, reader, fed, reported, offset, opened>>
             ELSE OpenFile(p)
  /\ UNCHANGED <<raw, disk, lists, inputsLeft, job, blk, searched, numHits, bytesSearched, out>>

-----------------------------------------------------------------------------
\* Reader::read: a FileReader swaps its buffers and has Next filled on another
\* thread; a mapping has its answer at once.
FileReaderReadUnswapped ==       \* faulty, for the sensitivity checks
  /\ job' = [state |-> "running", slot |-> next, base |-> 0, len |-> 0]
  /\ UNCHANGED <<cur, next, slots, pos>>

FileReaderRead ==
  /\ cur' = next /\ next' = cur
  /\ job' = [state |-> "running", slot |-> next', base |-> 0, len |-> 0]
  /\ UNCHANGED <<slots, pos>>

MappedReadAll ==                 \* faulty, for the sensitivity checks
  /\ job' = [state |-> "done", slot |-> Mapped, base |-> pos, len |-> Len(Bytes) - pos]
  /\ pos' = Len(Bytes)
  /\ UNCHANGED <<slots, cur, next>>

MappedRead ==
  LET left == Len(Bytes) - pos
      len == IF BlockSize < left THEN BlockSize ELSE left
  IN /\ job' = [state |-> "done", slot |-> Mapped, base |-> pos, len |-> len]
     /\ pos' = pos + len
     /\ UNCHANGED <<slots, cur, next>>

StartRead == IF UsesMapping(path) THEN MappedRead ELSE FileReaderRead

\* fread on the reader's thread, byte by byte until the buffer is full or the
\* file ends.
ReadByte ==
  /\ job.state = "running"
  /\ job.len < BlockSize /\ pos < Len(Bytes)
  /\ slots' = [slots EXCEPT ![job.slot][job.len + 1] = pos]
  /\ job' = [job EXCEPT !.len = @ + 1]
  /\ pos' = pos + 1
  /\ UNCHANGED <<raw, disk, pc, walk, path, cur, next, blk, offset, searched, hinfo,
                 fed, reported, numHits, bytesSearched, out, opened>>

EndReadWhenFull ==               \* faulty, for the sensitivity checks
  /\ job.state = "running"
  /\ \/ /\ job.len = BlockSize
        /\ job' = [job EXCEPT !.state = "done"]
     \/ /\ path \in Faulty
        /\ job' = [job EXCEPT !.state = "error"]
  /\ UNCHANGED <<raw, disk, pc, walk, path, reader, blk, offset, searched, hinfo,
                 fed, reported, numHits, bytesSearched, out, opened>>

EndRead ==
  /\ job.state = "running"
  /\ \/ /\ job.len = BlockSize \/ pos = Len(Bytes)
        /\ job' = [job EXCEPT !.state = "done"]
     \/ /\ path \in Faulty
        /\ job' = [job EXCEPT !.state = "error"]
  /\ UNCHANGED <<raw, disk, pc, walk, path, reader, blk, offset, searched, hinfo,
                 fed, reported, numHits, bytesSearched, out, opened>>

-----------------------------------------------------------------------------
\* searchFile: the first block is asked for and waited for; then, as long as the
\* block has bytes, the next one is asked for before this one is searched.
FirstRead ==
  /\ pc = "first"
  /\ StartRead
  /\ pc' = "wait"
  /\ UNCHANGED <<raw, disk, walk, path, blk, offset, searched, hinfo, fed, reported,
                 numHits, bytesSearched, out, opened>>

\* fut.get(): an error of the reader's thread is thrown here.
GetBlock ==
  /\ pc = "wait"
  /\ \/ /\ job.state = "done"
        /\ blk' = [slot |-> job.slot, base |-> job.base, len |-> job.len]
        /\ pc' = IF job.len > 0 THEN "prefetch" ELSE "last"
     \/ job.state = "error" /\ pc' = "failed" /\ UNCHANGED blk
  /\ job' = NoJob
  /\ UNCHANGED <<raw, disk, walk, path, reader, offset, searched, hinfo, fed, reported,
                 numHits, bytesSearched, out, opened>>

SetBuffer == hinfo' = [hinfo EXCEPT !.blk = blk, !.off = offset]

Prefetch ==
  /\ pc = "prefetch"
  /\ StartRead
  /\ SetBuffer
  /\ searched' = 0
  /\ pc' = "search"
  /\ UNCHANGED <<raw, disk, walk, path, blk, offset, fed, reported, numHits,
                 bytesSearched, out, opened>>

\* lg_search, one byte at a time.
SearchByte ==
  /\ pc = "search"
  /\ searched < blk.len
  /\ fed' = Append(fed, <<offset + searched, At(blk, searched)>>)
  /\ searched' = searched + 1
  /\ UNCHANGED <<raw, disk, pc, walk, path, reader, job, blk, offset, hinfo, reported,
                 numHits, bytesSearched, out, opened>>

EndSearchInPlace ==              \* faulty, for the sensitivity checks
  /\ pc = "search"
  /\ searched = blk.len
  /\ pc' = "wait"
  /\ UNCHANGED <<raw, disk, walk, path, reader, job, blk, offset, searched, hinfo, fed, reported,
                 numHits, bytesSearched, out, opened>>

EndSearch ==
  /\ pc = "search"
  /\ searched = blk.len
  /\ offset' = offset + blk.len
  /\ pc' = "wait"
  /\ UNCHANGED <<raw, disk, walk, path, reader, job, blk, searched, hinfo, fed, reported,
                 numHits, bytesSearched, out, opened>>

\* The bytes of the buffer a writer was given, and the one in front of it: the
\* previous byte of a mapping, anything before a buffer of a FileReader.
ByteOf(k) == IF k \in 0..Len(Bytes) - 1 THEN Bytes[k + 1] ELSE "?"
HitBuffer == [k \in 1..hinfo.blk.len |-> ByteOf(At(hinfo.blk, k - 1))]
ByteBefore ==
  IF hinfo.blk.slot # Mapped THEN {"?", CR}
  ELSE {ByteOf(hinfo.blk.base - 1)}

\* The callbacks: nullWriter counts; the others write a line with the hit, and
\* with the path and the context if the options ask for them.
WriteHit(hit) ==
  /\ numHits' = numHits + 1
  /\ IF Counts(opts)
     THEN UNCHANGED <<out, hinfo>>
     ELSE \E before \in ByteBefore :
          /\ out' = Append(out,
               [of |-> path,
                path |-> IF WritesPath(opts) THEN hinfo.path ELSE NoPath,
                hit |-> hit,
                separated |-> SeparatesGroups(opts) /\ ~hinfo.first,
                context |-> IF WritesContext(opts)
                            THEN LineContext(HitBuffer, before, hinfo.off, hit, opts)
                            ELSE hit,
                block |-> [begin |-> hinfo.off, end |-> hinfo.off + hinfo.blk.len]])
          /\ hinfo' = [hinfo EXCEPT !.first = @ /\ ~SeparatesGroups(opts)]

\* A hit is reported by the search of a later byte or by the close-out, in order.
ReportHit ==
  /\ pc \in {"search", "closeout"}
  /\ reported < Len(FileHits)
  /\ FileHits[reported + 1].end <= Len(fed)
  /\ reported' = reported + 1
  /\ WriteHit(FileHits[reported + 1])
  /\ UNCHANGED <<raw, disk, pc, walk, path, reader, job, blk, offset, searched, fed,
                 bytesSearched, opened>>

\* The block that is empty is searched too, then the context is closed out.
LastSearch ==
  /\ pc = "last"
  /\ SetBuffer
  /\ pc' = "closeout"
  /\ UNCHANGED <<raw, disk, walk, path, reader, job, blk, offset, searched, fed, reported,
                 numHits, bytesSearched, out, opened>>

\* Faulty, for the sensitivity checks: hits left unreported; the total overwritten.
CloseOutUnflushed ==
  /\ pc = "closeout"
  /\ offset' = offset + blk.len
  /\ bytesSearched' = bytesSearched + offset'
  /\ pc' = "paths"
  /\ UNCHANGED <<raw, disk, walk, path, reader, job, blk, searched, hinfo, fed, reported,
                 numHits, out, opened>>

CloseOutAssigning ==
  /\ pc = "closeout"
  /\ \A i \in reported + 1..Len(FileHits) : FileHits[i].end > Len(fed)
  /\ offset' = offset + blk.len
  /\ bytesSearched' = offset'
  /\ pc' = "paths"
  /\ UNCHANGED <<raw, disk, walk, path, reader, job, blk, searched, hinfo, fed, reported,
                 numHits, out, opened>>

CloseOut ==
  /\ pc = "closeout"
  /\ \A i \in reported + 1..Len(FileHits) : FileHits[i].end > Len(fed)
  /\ offset' = offset + blk.len
  /\ bytesSearched' = bytesSearched + offset'
  /\ pc' = "paths"
  /\ UNCHANGED <<raw, disk, walk, path, reader, job, blk, searched, hinfo, fed, reported,
                 numHits, out, opened>>

Ended == {"usage", "summary", "gaveUp", "failed"}

MainStep ==
  \/ ReadOptions \/ NextList \/ NextPath
  \/ FirstRead \/ GetBlock \/ Prefetch \/ SearchByte \/ EndSearch \/ ReportHit
  \/ LastSearch \/ CloseOut

ReaderStep == ReadByte \/ EndRead

Stopped == pc \in Ended /\ UNCHANGED vars

Next == MainStep \/ ReaderStep \/ Stopped

\* The reader's thread and the main thread are both scheduled by the system and
\* neither waits for anything but the other.
Spec == Init /\ [][Next]_vars /\ WF_vars(MainStep) /\ WF_vars(ReaderStep)

-----------------------------------------------------------------------------
Blocks == [slot : Slots \cup {Mapped}, base : Nat, len : 0..BlockSize]
Jobs == {NoJob} \cup
  [state : {"running", "done", "error"}, slot : Slots \cup {Mapped}, base : Nat, len : 0..BlockSize]

Hinfos == [path : DOMAIN disk \cup {NoPath}, blk : Blocks, off : Nat, first : BOOLEAN]

WalkTypes ==
  /\ raw \in Commands /\ disk \in Disks
  /\ pc \in Ended \cup {"options", "lists", "paths", "first", "wait", "prefetch",
                      "search", "last", "closeout"}
  /\ {lists, paths, below, opened} \subseteq Seq(DOMAIN disk)
  /\ inputsLeft \in BOOLEAN /\ stdinUsed \in BOOLEAN
  /\ path \in DOMAIN disk \cup {NoPath}

ReaderTypes ==
  /\ slots \in [Slots -> [1..BlockSize -> Nat \cup {Garbage}]]
  /\ cur \in Slots /\ next = 1 - cur
  /\ pos \in Nat
  /\ job \in Jobs

SearchTypes ==
  /\ blk \in Blocks /\ offset \in Nat /\ searched \in 0..BlockSize
  /\ fed \in Seq(Nat \X (Nat \cup {Garbage}))
  /\ hinfo \in Hinfos
  /\ reported \in Nat /\ numHits \in Nat /\ bytesSearched \in Nat

TypeOK == WalkTypes /\ ReaderTypes /\ SearchTypes

\* While a block is searched, the thread that fetches the next one never writes
\* into it: it holds the bytes at the block's offset (reader.cpp:40 swaps Cur and
\* Next before the thread starts; searchcontroller.cpp:36 starts it before the
\* search).
BlockIntact ==
  pc \in {"prefetch", "search"} =>
    \A k \in 0..blk.len - 1 : At(blk, k) = offset + k

\* The search context is given every byte of the file once, in order, at its own
\* offset (searchcontroller.cpp:33-55).
FedInOrder == \A i \in DOMAIN fed : fed[i] = <<i - 1, i - 1>>
=============================================================================
