----------------------------- MODULE SearchProofs -----------------------------
(***************************************************************************)
(* Proofs about the search controller and its readers: for every command   *)
(* line, disk, block size and interleaving of the two threads, the state   *)
(* is well typed, the block under search is not written to, the context is *)
(* given every byte of the file once and in order, and the files are       *)
(* opened in the order in which they are named, the standard input once;   *)
(* the hits of the files are written in order, each once, with the lines   *)
(* around them, and the totals are those of the files searched.            *)
(***************************************************************************)
EXTENDS SearchPromise, DataLemmas, FiniteSetTheorems

Busy == {"first", "wait", "prefetch", "search", "last", "closeout"}

\* From FirstRead to CloseOut there is a file, and it has bytes.
PathInv == pc \in Busy => path \in DOMAIN disk /\ disk[path].kind = "file"

\* b holds the bytes of the file from the given position on.
Holds(b, from) == \A k \in 0..b.len - 1 : At(b, k) = from + k

\* The slot that the thread started last fills, and the position it started at.
ReadSlot == IF UsesMapping(path) THEN Mapped ELSE next
ReadFrom == IF pc = "search" THEN offset + blk.len ELSE offset

\* There is a read under way while its answer is waited for and while the block
\* before is searched; it fills Next, from where that block ends, and is done only
\* when Next is full or the file has ended.
JobInv ==
  /\ job # NoJob <=> pc \in {"wait", "search"}
  /\ job # NoJob =>
       /\ job.slot = ReadSlot
       /\ Holds(job, ReadFrom)
       /\ pos = ReadFrom + job.len
       /\ pos <= Len(Bytes)
       /\ UsesMapping(path) => job.state = "done"
       /\ job.state = "done" => job.len = BlockSize \/ pos = Len(Bytes)

\* The block got by searchFile is in Next until the next read swaps the buffers, and
\* in Cur then; an empty one comes at the end of the file only.
BlockInv ==
  /\ pc = "first" => offset = 0 /\ pos = 0
  /\ pc \in {"prefetch", "search"} => Holds(blk, offset)
  /\ pc = "prefetch" => blk.slot = ReadSlot /\ pos = offset + blk.len /\ pos <= Len(Bytes)
  /\ pc = "search" => /\ blk.slot = IF UsesMapping(path) THEN Mapped ELSE cur
                      /\ searched <= blk.len
  /\ pc \in {"last", "closeout"} => blk.len = 0 /\ offset = Len(Bytes)

\* The context has been given what lies before the offset, and of the block under
\* search what has been searched.
FedInv ==
  /\ FedInOrder
  /\ pc \in Busy => Len(fed) = IF pc = "search" THEN offset + searched ELSE offset

Inv == TypeOK /\ PathInv /\ JobInv /\ BlockInv /\ FedInv

-----------------------------------------------------------------------------
\* A file that is searched has a content, and the options of its command line do
\* not change.
LEMMA FileFacts ==
  ASSUME TypeOK, PathInv, pc \in Busy
  PROVE  Bytes \in Contents /\ Len(Bytes) \in Nat
<1>1. Bytes \in Contents
  BY DisksAssumption DEF TypeOK, WalkTypes, PathInv, Bytes
<1> QED
  BY <1>1, ContentsAssumption, LenProperties

\* What depends on the command line and the file alone.
LEMMA SameFile ==
  ASSUME UNCHANGED <<raw, disk, path>>
  PROVE  opts' = opts /\ Bytes' = Bytes /\ UsesMapping(path)' = UsesMapping(path)
BY DEF opts, Bytes, UsesMapping

\* The future of no read, and what a read's future may be.
LEMMA NoJobType == NoJob \in Jobs
BY DEF Jobs

\* A buffer has room for a byte.
LEMMA BlockSizeType == BlockSize \in Nat /\ BlockSize >= 1
BY BlockSizeAssumption

-----------------------------------------------------------------------------
\* The initial state: nothing has been named, opened or read.
LEMMA InitInv == Init => Inv
<1> SUFFICES ASSUME Init PROVE Inv
  OBVIOUS
<1>1. WalkTypes
  <2>1. <<>> \in Seq(DOMAIN disk)
    BY EmptySeq
  <2> QED
    BY <2>1 DEF Init, WalkTypes
<1>2. ReaderTypes
  <2>1. job \in Jobs
    BY NoJobType DEF Init
  <2>2. slots \in [Slots -> [1..BlockSize -> Nat \cup {Garbage}]]
    BY DEF Init
  <2> QED
    BY <2>1, <2>2 DEF Init, ReaderTypes, Slots
<1>3. SearchTypes
  <2>1. NoBlock \in Blocks /\ 0 \in 0..BlockSize
    BY BlockSizeType DEF NoBlock, Blocks
  <2>2. hinfo \in Hinfos
    BY <2>1 DEF Init, Hinfos
  <2>3. <<>> \in Seq(Nat \X (Nat \cup {Garbage}))
    BY EmptySeq
  <2> QED
    BY <2>1, <2>2, <2>3 DEF Init, SearchTypes
<1>4. PathInv /\ JobInv /\ BlockInv
  BY DEF Init, PathInv, JobInv, BlockInv, Busy
<1>5. FedInv
  BY EmptySeq DEF Init, FedInv, FedInOrder, Busy
<1> QED
  BY <1>1, <1>2, <1>3, <1>4, <1>5 DEF Inv, TypeOK

-----------------------------------------------------------------------------
\* What an action that is not of the reader or of searchFile leaves alone.
Quiet == UNCHANGED <<raw, disk, slots, cur, next, pos, job, blk, offset, searched, hinfo, fed>>

\* Outside a file, and while none is opened, only the walk has to be looked at.
LEMMA QuietInv ==
  ASSUME Inv, Quiet, pc \notin Busy, pc' \notin Busy, WalkTypes', reported' = reported,
         numHits' = numHits, bytesSearched' = bytesSearched
  PROVE  Inv'
<1>1. ReaderTypes' /\ SearchTypes'
  BY DEF Inv, TypeOK, Quiet, ReaderTypes, SearchTypes, Hinfos
<1>2. PathInv' /\ JobInv' /\ BlockInv'
  BY DEF Inv, Quiet, PathInv, JobInv, BlockInv, Busy
<1>3. FedInv'
  BY DEF Inv, Quiet, FedInv, FedInOrder
<1> QED
  BY <1>1, <1>2, <1>3 DEF Inv, TypeOK

\* The command line is read: a search goes on with its lists and inputs.
LEMMA ReadOptionsInv == Inv /\ ReadOptions => Inv'
<1> SUFFICES ASSUME Inv, ReadOptions PROVE Inv'
  OBVIOUS
<1>1. opts.lists \in Seq(DOMAIN disk)
  BY CommandsAssumption DEF Inv, TypeOK, WalkTypes, opts, ParseOpts
<1>2. WalkTypes'
  BY <1>1 DEF Inv, TypeOK, WalkTypes, ReadOptions, Ended
<1>3. pc \notin Busy /\ pc' \notin Busy
  BY DEF ReadOptions, Busy
<1> QED
  BY <1>2, <1>3, QuietInv DEF ReadOptions, Quiet, reader, walk

\* The next list, or the inputs of the command line, or the summary.
LEMMA NextListInv == Inv /\ NextList => Inv'
<1> SUFFICES ASSUME Inv, NextList PROVE Inv'
  OBVIOUS
<1>1. opts.inputs \in Seq(DOMAIN disk)
  BY CommandsAssumption DEF Inv, TypeOK, WalkTypes, opts, ParseOpts
<1>2. lists # <<>> => /\ Tail(lists) \in Seq(DOMAIN disk)
                      /\ Head(lists) \in DOMAIN disk
  BY HeadTailProperties DEF Inv, TypeOK, WalkTypes
<1>3. lists # <<>> => LinesOf(Head(lists)) \in Seq(DOMAIN disk)
  BY <1>2, DisksAssumption, EmptySeq DEF Inv, TypeOK, WalkTypes, LinesOf
<1>4. WalkTypes'
  <2>1. CASE lists # <<>>
    BY <1>2, <1>3, <2>1 DEF Inv, TypeOK, WalkTypes, NextList, Ended
  <2>2. CASE lists = <<>>
    BY <1>1, <2>2 DEF Inv, TypeOK, WalkTypes, NextList, Ended
  <2> QED
    BY <2>1, <2>2
<1>5. pc \notin Busy /\ pc' \notin Busy
  BY DEF NextList, Busy
<1> QED
  BY <1>4, <1>5, QuietInv DEF NextList, Quiet, reader

\* A file that is opened has a reader, a context and an offset that start anew.
LEMMA OpenFileInv ==
  ASSUME Inv, pc = "paths", NEW p \in DOMAIN disk, OpenFile(p),
         paths' \in Seq(DOMAIN disk), below' \in Seq(DOMAIN disk), stdinUsed' \in BOOLEAN,
         UNCHANGED <<raw, disk, lists, inputsLeft, job, blk, searched, numHits,
                     bytesSearched, out>>
  PROVE  Inv'
<1>1. CASE pc' = "failed" /\ UNCHANGED <<path, hinfo, reader, fed, reported, offset, opened>>
  <2>1. WalkTypes'
    BY <1>1 DEF Inv, TypeOK, WalkTypes, Ended
  <2> QED
    BY <1>1, <2>1, QuietInv DEF Quiet, reader, Busy
<1>2. CASE /\ disk[p].kind = "file" /\ pc' = "first" /\ path' = p
           /\ hinfo' = [hinfo EXCEPT !.path = p]
           /\ slots' = [s \in Slots |-> [i \in 1..BlockSize |-> Garbage]]
           /\ cur' = 0 /\ next' = 1 /\ pos' = 0 /\ fed' = <<>> /\ reported' = 0
           /\ offset' = 0 /\ opened' = Append(opened, p)
  <2>1. WalkTypes'
    <3>1. opened' \in Seq(DOMAIN disk)
      BY <1>2, AppendProperties DEF Inv, TypeOK, WalkTypes
    <3> QED
      BY <1>2, <3>1 DEF Inv, TypeOK, WalkTypes
  <2>2. ReaderTypes'
    <3>1. slots' \in [Slots -> [1..BlockSize -> Nat \cup {Garbage}]]
      BY <1>2
    <3> QED
      BY <1>2, <3>1 DEF Inv, TypeOK, ReaderTypes, Slots
  <2>3. SearchTypes'
    <3>1. hinfo' \in Hinfos'
      BY <1>2 DEF Inv, TypeOK, SearchTypes, Hinfos
    <3>2. <<>> \in Seq(Nat \X (Nat \cup {Garbage}))
      BY EmptySeq
    <3> QED
      BY <1>2, <3>1, <3>2 DEF Inv, TypeOK, SearchTypes
  <2>4. PathInv' /\ JobInv' /\ BlockInv'
    BY <1>2 DEF Inv, PathInv, JobInv, BlockInv
  <2>5. FedInv'
    BY <1>2, EmptySeq DEF FedInv, FedInOrder
  <2> QED
    BY <2>1, <2>2, <2>3, <2>4, <2>5 DEF Inv, TypeOK
<1> QED
  BY <1>1, <1>2 DEF OpenFile, Opens, reader

\* The next path of a directory or of the list: it is opened, walked or passed over.
LEMMA NextPathInv == Inv /\ NextPath => Inv'
<1> SUFFICES ASSUME Inv, NextPath PROVE Inv'
  OBVIOUS
<1>1. /\ below # <<>> => Tail(below) \in Seq(DOMAIN disk) /\ Head(below) \in DOMAIN disk
      /\ paths # <<>> => Tail(paths) \in Seq(DOMAIN disk) /\ Head(paths) \in DOMAIN disk
  BY HeadTailProperties DEF Inv, TypeOK, WalkTypes
<1>2. /\ pc = "paths" /\ {paths, below} \subseteq Seq(DOMAIN disk) /\ stdinUsed \in BOOLEAN
      /\ UNCHANGED <<raw, disk, lists, inputsLeft, job, blk, searched, numHits,
                     bytesSearched, out>>
  BY DEF NextPath, Inv, TypeOK, WalkTypes
<1>3. ASSUME pc' \in {"paths", "lists"}, UNCHANGED <<path, hinfo, reader, fed, reported, offset, opened>>,
             {paths', below'} \subseteq Seq(DOMAIN disk), stdinUsed' \in BOOLEAN
      PROVE  Inv'
  <2>1. WalkTypes'
    BY <1>2, <1>3 DEF Inv, TypeOK, WalkTypes
  <2>2. pc \notin Busy /\ pc' \notin Busy
    BY <1>2, <1>3 DEF Busy
  <2> QED
    BY <1>2, <1>3, <2>1, <2>2, QuietInv DEF Quiet, reader
<1>4. CASE below # <<>>
  <2>1. below' = Tail(below) /\ UNCHANGED <<paths, stdinUsed>>
    BY <1>4 DEF NextPath
  <2>2. CASE OpenFile(Head(below))
    BY <1>1, <1>2, <1>4, <2>1, <2>2, OpenFileInv
  <2>3. CASE UNCHANGED <<pc, path, hinfo, reader, fed, reported, offset, opened>>
    BY <1>1, <1>2, <1>3, <1>4, <2>1, <2>3
  <2> QED
    BY <1>4, <2>2, <2>3 DEF NextPath
<1>5. CASE below = <<>> /\ paths = <<>>
  BY <1>2, <1>3, <1>5 DEF NextPath
<1>6. CASE below = <<>> /\ paths # <<>>
  <2> DEFINE p == Head(paths)
  <2>1. /\ paths' = Tail(paths)
        /\ stdinUsed' = (stdinUsed \/ p = Stdin)
        /\ below' = IF opts.recursive /\ disk[p].kind = "dir" THEN disk[p].below ELSE <<>>
    BY <1>6 DEF NextPath
  <2>2. below' \in Seq(DOMAIN disk) /\ stdinUsed' \in BOOLEAN
    BY <1>1, <1>2, <1>6, <2>1, DisksAssumption, EmptySeq DEF Inv, TypeOK, WalkTypes
  <2>3. CASE OpenFile(p)
    BY <1>1, <1>2, <1>6, <2>1, <2>2, <2>3, OpenFileInv
  <2>4. CASE UNCHANGED <<pc, path, hinfo, reader, fed, reported, offset, opened>>
    BY <1>1, <1>2, <1>3, <1>6, <2>1, <2>2, <2>4
  <2> QED
    BY <1>6, <2>3, <2>4 DEF NextPath
<1> QED
  BY <1>4, <1>5, <1>6

-----------------------------------------------------------------------------
\* A read that is started (reader.cpp:29-45, :96-104): a mapping has its answer at
\* once; a FileReader's thread has filled nothing of the buffer that was Cur, and
\* the buffer that was Next is Cur.
LEMMA StartReadMeans ==
  ASSUME Inv, pc \in {"first", "prefetch"}, StartRead, UNCHANGED <<raw, disk, path>>,
         pos <= Len(Bytes)
  PROVE  /\ ReaderTypes' /\ slots' = slots /\ job' # NoJob
         /\ job'.slot = ReadSlot'
         /\ \A k \in 0..job'.len - 1 : At(job, k)' = pos + k
         /\ pos' = pos + job'.len /\ pos' <= Len(Bytes)
         /\ UsesMapping(path) => job'.state = "done"
         /\ job'.state = "done" => job'.len = BlockSize \/ pos' = Len(Bytes)
         /\ ~UsesMapping(path) => cur' = next
<1>1. Len(Bytes) \in Nat /\ BlockSize \in Nat /\ BlockSize >= 1 /\ pos \in Nat
  BY FileFacts, BlockSizeType DEF Inv, TypeOK, ReaderTypes, Busy
<1>2. UsesMapping(path)' = UsesMapping(path)
  BY SameFile
<1>3. CASE UsesMapping(path)
  <2> DEFINE left == Len(Bytes) - pos
             len == IF BlockSize < left THEN BlockSize ELSE left
  <2>1. /\ job' = [state |-> "done", slot |-> Mapped, base |-> pos, len |-> len]
        /\ pos' = pos + len /\ UNCHANGED <<slots, cur, next>>
    BY <1>3 DEF StartRead, MappedRead
  <2>2. len \in 0..BlockSize /\ pos + len <= Len(Bytes)
        /\ (len = BlockSize \/ pos + len = Len(Bytes))
    BY <1>1
  <2> HIDE DEF len
  <2>3. job' \in Jobs /\ job' # NoJob
    BY <1>1, <2>1, <2>2 DEF Jobs, NoJob
  <2>4. ReaderTypes'
    BY <1>1, <2>1, <2>2, <2>3 DEF Inv, TypeOK, ReaderTypes
  <2>5. \A k \in 0..len - 1 : At(job, k)' = pos + k
    BY <2>1 DEF At
  <2> QED
    BY <1>1, <1>2, <1>3, <2>1, <2>2, <2>3, <2>4, <2>5 DEF ReadSlot
<1>4. CASE ~UsesMapping(path)
  <2>1. /\ cur' = next /\ next' = cur /\ UNCHANGED <<slots, pos>>
        /\ job' = [state |-> "running", slot |-> next', base |-> 0, len |-> 0]
    BY <1>4 DEF StartRead, FileReaderRead
  <2>2. cur \in Slots /\ next = 1 - cur
    BY DEF Inv, TypeOK, ReaderTypes
  <2>3. job' \in Jobs /\ job' # NoJob
    BY <1>1, <2>1, <2>2 DEF Jobs, NoJob
  <2>4. ReaderTypes'
    BY <2>1, <2>2, <2>3 DEF Inv, TypeOK, ReaderTypes, Slots
  <2> QED
    BY <1>1, <1>2, <1>4, <2>1, <2>3, <2>4 DEF ReadSlot
<1> QED
  BY <1>3, <1>4

\* The first block is asked for.
LEMMA FirstReadInv == Inv /\ FirstRead => Inv'
<1> SUFFICES ASSUME Inv, FirstRead PROVE Inv'
  OBVIOUS
<1>1. /\ pc = "first" /\ pc' = "wait" /\ StartRead /\ offset = 0 /\ pos = 0
      /\ UNCHANGED <<raw, disk, walk, path, blk, offset, searched, hinfo, fed, reported,
                     numHits, bytesSearched, out, opened>>
  BY DEF FirstRead, Inv, BlockInv
<1>2. pos <= Len(Bytes) /\ Len(Bytes) \in Nat
  BY <1>1, FileFacts DEF Inv, Busy
<1>3. /\ ReaderTypes' /\ slots' = slots /\ job' # NoJob /\ job'.slot = ReadSlot'
      /\ \A k \in 0..job'.len - 1 : At(job, k)' = pos + k
      /\ pos' = pos + job'.len /\ pos' <= Len(Bytes)
      /\ UsesMapping(path) => job'.state = "done"
      /\ job'.state = "done" => job'.len = BlockSize \/ pos' = Len(Bytes)
  BY <1>1, <1>2, StartReadMeans
<1>4. opts' = opts /\ Bytes' = Bytes /\ UsesMapping(path)' = UsesMapping(path)
  BY <1>1, SameFile
<1>5. WalkTypes' /\ SearchTypes'
  BY <1>1 DEF Inv, TypeOK, WalkTypes, SearchTypes, Hinfos, walk
<1>6. PathInv' /\ BlockInv'
  BY <1>1 DEF Inv, PathInv, BlockInv, Busy
<1>7. JobInv'
  BY <1>1, <1>3, <1>4 DEF JobInv, ReadFrom, Holds
<1>8. FedInv'
  BY <1>1 DEF Inv, FedInv, FedInOrder, Busy
<1> QED
  BY <1>3, <1>5, <1>6, <1>7, <1>8 DEF Inv, TypeOK

\* searchFile takes the answer: what was read from the offset on is the block; with
\* no bytes it is the end of the file, for a buffer has room for one.
LEMMA GetBlockInv == Inv /\ GetBlock => Inv'
<1> SUFFICES ASSUME Inv, GetBlock PROVE Inv'
  OBVIOUS
<1>1. /\ pc = "wait" /\ job' = NoJob /\ job # NoJob
      /\ UNCHANGED <<raw, disk, walk, path, reader, offset, searched, hinfo, fed, reported,
                     numHits, bytesSearched, out, opened>>
  BY DEF GetBlock, Inv, JobInv
<1>2. opts' = opts /\ Bytes' = Bytes /\ UsesMapping(path)' = UsesMapping(path)
  BY <1>1, SameFile
<1>3. /\ job.slot = ReadSlot /\ Holds(job, offset) /\ pos = offset + job.len /\ pos <= Len(Bytes)
      /\ job.state = "done" => job.len = BlockSize \/ pos = Len(Bytes)
      /\ job \in Jobs /\ offset \in Nat
  BY <1>1 DEF Inv, JobInv, ReadFrom, TypeOK, ReaderTypes, SearchTypes
<1>4. job.len \in 0..BlockSize /\ [slot |-> job.slot, base |-> job.base, len |-> job.len] \in Blocks
  BY <1>1, <1>3 DEF Jobs, Blocks
<1>5. ReaderTypes'
  BY <1>1, NoJobType DEF Inv, TypeOK, ReaderTypes, reader
<1>6. FedInv'
  BY <1>1 DEF Inv, FedInv, FedInOrder, Busy, GetBlock
<1>7. CASE job.state = "done" /\ blk' = [slot |-> job.slot, base |-> job.base, len |-> job.len]
           /\ pc' = IF job.len > 0 THEN "prefetch" ELSE "last"
  <2>1. WalkTypes' /\ SearchTypes'
    BY <1>1, <1>4, <1>7 DEF Inv, TypeOK, WalkTypes, SearchTypes, Hinfos, walk
  <2>2. PathInv' /\ JobInv'
    BY <1>1, <1>7 DEF Inv, PathInv, JobInv, Busy
  <2>3. BlockInv'
    <3>1. Holds(blk, offset)'
      BY <1>1, <1>3, <1>7 DEF Holds, At, reader
    <3>2. pc' = "prefetch" => blk'.slot = ReadSlot' /\ pos' = offset' + blk'.len /\ pos' <= Len(Bytes')
      BY <1>1, <1>2, <1>3, <1>7 DEF ReadSlot, reader
    <3>3. pc' = "last" => blk'.len = 0 /\ offset' = Len(Bytes')
      BY <1>1, <1>2, <1>3, <1>4, <1>7, BlockSizeType
    <3> QED
      BY <1>7, <3>1, <3>2, <3>3 DEF BlockInv
  <2> QED
    BY <1>5, <1>6, <2>1, <2>2, <2>3 DEF Inv, TypeOK
<1>8. CASE pc' = "failed" /\ UNCHANGED blk
  <2>1. WalkTypes' /\ SearchTypes'
    BY <1>1, <1>8 DEF Inv, TypeOK, WalkTypes, SearchTypes, Hinfos, walk, Ended
  <2>2. PathInv' /\ JobInv' /\ BlockInv'
    BY <1>1, <1>8 DEF PathInv, JobInv, BlockInv, Busy
  <2> QED
    BY <1>5, <1>6, <2>1, <2>2 DEF Inv, TypeOK
<1> QED
  BY <1>7, <1>8 DEF GetBlock

\* The next block is asked for before this one is searched: the buffers are swapped,
\* so that this one is in Cur, where the thread does not write.
LEMMA PrefetchInv == Inv /\ Prefetch => Inv'
<1> SUFFICES ASSUME Inv, Prefetch PROVE Inv'
  OBVIOUS
<1>1. /\ pc = "prefetch" /\ pc' = "search" /\ StartRead /\ searched' = 0
      /\ hinfo' = [hinfo EXCEPT !.blk = blk, !.off = offset]
      /\ UNCHANGED <<raw, disk, walk, path, blk, offset, fed, reported, numHits,
                     bytesSearched, out, opened>>
  BY DEF Prefetch, SetBuffer
<1>2. /\ Holds(blk, offset) /\ blk.slot = ReadSlot /\ pos = offset + blk.len /\ pos <= Len(Bytes)
      /\ blk \in Blocks /\ offset \in Nat
  BY <1>1 DEF Inv, BlockInv, TypeOK, SearchTypes
<1>3. /\ ReaderTypes' /\ slots' = slots /\ job' # NoJob /\ job'.slot = ReadSlot'
      /\ \A k \in 0..job'.len - 1 : At(job, k)' = pos + k
      /\ pos' = pos + job'.len /\ pos' <= Len(Bytes)
      /\ UsesMapping(path) => job'.state = "done"
      /\ job'.state = "done" => job'.len = BlockSize \/ pos' = Len(Bytes)
      /\ ~UsesMapping(path) => cur' = next
  BY <1>1, <1>2, StartReadMeans
<1>4. opts' = opts /\ Bytes' = Bytes /\ UsesMapping(path)' = UsesMapping(path)
  BY <1>1, SameFile
<1>5. WalkTypes' /\ SearchTypes'
  <2>1. hinfo' \in Hinfos'
    BY <1>1, <1>2 DEF Inv, TypeOK, SearchTypes, Hinfos
  <2> QED
    BY <1>1, <2>1, BlockSizeType DEF Inv, TypeOK, WalkTypes, SearchTypes, walk
<1>6. PathInv'
  BY <1>1 DEF Inv, PathInv, Busy
<1>7. JobInv'
  BY <1>1, <1>2, <1>3, <1>4 DEF JobInv, ReadFrom, Holds
<1>8. BlockInv'
  <2>1. Holds(blk, offset)'
    BY <1>1, <1>2, <1>3 DEF Holds, At
  <2>2. blk'.slot = IF UsesMapping(path)' THEN Mapped ELSE cur'
    BY <1>1, <1>2, <1>3, <1>4 DEF ReadSlot
  <2> QED
    BY <1>1, <1>2, <2>1, <2>2 DEF BlockInv, Blocks
<1>9. FedInv'
  BY <1>1 DEF Inv, FedInv, FedInOrder, Busy, TypeOK, SearchTypes
<1> QED
  BY <1>3, <1>5, <1>6, <1>7, <1>8, <1>9 DEF Inv, TypeOK

\* The context is given the byte at its offset in the file.
LEMMA SearchByteInv == Inv /\ SearchByte => Inv'
<1> SUFFICES ASSUME Inv, SearchByte PROVE Inv'
  OBVIOUS
<1>1. /\ pc = "search" /\ pc' = pc /\ searched < blk.len /\ searched' = searched + 1
      /\ fed' = Append(fed, <<offset + searched, At(blk, searched)>>)
      /\ UNCHANGED <<raw, disk, walk, path, reader, job, blk, offset, hinfo, reported,
                     numHits, bytesSearched, out, opened>>
  BY DEF SearchByte
<1>2. /\ blk \in Blocks /\ offset \in Nat /\ searched \in Nat /\ blk.len \in 0..BlockSize
      /\ fed \in Seq(Nat \X (Nat \cup {Garbage})) /\ Len(fed) = offset + searched
  BY <1>1, BlockSizeType DEF Inv, TypeOK, SearchTypes, Blocks, FedInv, Busy
<1>3. At(blk, searched) = offset + searched
  BY <1>1, <1>2, BlockSizeType DEF Inv, BlockInv, Holds
<1>4. opts' = opts /\ Bytes' = Bytes /\ UsesMapping(path)' = UsesMapping(path)
  BY <1>1, SameFile
<1> DEFINE e == <<offset + searched, At(blk, searched)>>
<1>5. e = <<Len(fed), Len(fed)>> /\ e \in Nat \X (Nat \cup {Garbage})
  BY <1>2, <1>3
<1> HIDE DEF e
<1>6. /\ fed' \in Seq(Nat \X (Nat \cup {Garbage})) /\ Len(fed') = Len(fed) + 1
      /\ \A i \in 1..Len(fed) : fed'[i] = fed[i]
      /\ fed'[Len(fed) + 1] = e
  BY <1>1, <1>2, <1>5, AppendProperties DEF e
<1>7. TypeOK'
  <2>1. searched' \in 0..BlockSize
    BY <1>1, <1>2, BlockSizeType, SMTT(60)
  <2> QED
    BY <1>1, <1>6, <2>1 DEF Inv, TypeOK, WalkTypes, ReaderTypes, SearchTypes, Hinfos, walk, reader
<1>8. PathInv'
  BY <1>1 DEF Inv, PathInv
<1>9. JobInv'
  BY <1>1, <1>4 DEF Inv, JobInv, ReadSlot, ReadFrom, Holds, At, reader
<1>10. BlockInv'
  BY <1>1, <1>2, <1>4, BlockSizeType DEF Inv, BlockInv, Holds, At, reader
<1>11. FedInv'
  <2>1. DOMAIN fed = 1..Len(fed) /\ DOMAIN fed' = 1..Len(fed) + 1 /\ Len(fed) \in Nat
    BY <1>2, <1>6, LenProperties
  <2>2. \A i \in DOMAIN fed' : fed'[i] = <<i - 1, i - 1>>
    BY <1>5, <1>6, <2>1, SMTT(60) DEF Inv, FedInv, FedInOrder
  <2> QED
    BY <1>1, <1>2, <1>6, <2>2, SMTT(60) DEF FedInv, FedInOrder, Busy
<1> QED
  BY <1>7, <1>8, <1>9, <1>10, <1>11 DEF Inv

\* The block is searched: the offset moves to its end, where the read under way began.
LEMMA EndSearchInv == Inv /\ EndSearch => Inv'
<1> SUFFICES ASSUME Inv, EndSearch PROVE Inv'
  OBVIOUS
<1>1. /\ pc = "search" /\ pc' = "wait" /\ searched = blk.len /\ offset' = offset + blk.len
      /\ UNCHANGED <<raw, disk, walk, path, reader, job, blk, searched, hinfo, fed, reported,
                     numHits, bytesSearched, out, opened>>
  BY DEF EndSearch
<1>2. blk \in Blocks /\ offset \in Nat /\ blk.len \in Nat
  BY BlockSizeType DEF Inv, TypeOK, SearchTypes, Blocks
<1>3. opts' = opts /\ Bytes' = Bytes /\ UsesMapping(path)' = UsesMapping(path)
  BY <1>1, SameFile
<1>4. TypeOK'
  BY <1>1, <1>2, SMTT(60) DEF Inv, TypeOK, WalkTypes, ReaderTypes, SearchTypes, Hinfos, walk,
     reader
<1>5. PathInv'
  BY <1>1 DEF Inv, PathInv, Busy
<1>6. JobInv'
  BY <1>1, <1>3 DEF Inv, JobInv, ReadSlot, ReadFrom, Holds, At, reader
<1>7. BlockInv'
  BY <1>1 DEF BlockInv
<1>8. FedInv'
  BY <1>1, <1>2 DEF Inv, FedInv, FedInOrder, Busy
<1> QED
  BY <1>4, <1>5, <1>6, <1>7, <1>8 DEF Inv

\* A hit that is reported changes what has been written only.
LEMMA ReportHitInv == Inv /\ ReportHit => Inv'
<1> SUFFICES ASSUME Inv, ReportHit PROVE Inv'
  OBVIOUS
<1>1. /\ reported' = reported + 1 /\ numHits' = numHits + 1
      /\ hinfo' = hinfo \/ hinfo' = [hinfo EXCEPT !.first = @ /\ ~SeparatesGroups(opts)]
      /\ UNCHANGED <<raw, disk, pc, walk, path, reader, job, blk, offset, searched, fed,
                     bytesSearched, opened>>
  BY DEF ReportHit, WriteHit
<1>2. opts' = opts /\ Bytes' = Bytes /\ UsesMapping(path)' = UsesMapping(path)
  BY <1>1, SameFile
<1>3. hinfo' \in Hinfos'
  <2>1. hinfo \in Hinfos /\ Hinfos' = Hinfos
    BY <1>1 DEF Inv, TypeOK, SearchTypes, Hinfos
  <2>2. (hinfo.first /\ ~SeparatesGroups(opts)) \in BOOLEAN
    BY Zenon
  <2> QED
    BY <1>1, <2>1, <2>2 DEF Hinfos
<1>4. TypeOK'
  BY <1>1, <1>3, SMTT(60) DEF Inv, TypeOK, WalkTypes, ReaderTypes, SearchTypes, walk, reader
<1>5. PathInv'
  BY <1>1 DEF Inv, PathInv, Busy
<1>6. JobInv'
  BY <1>1, <1>2 DEF Inv, JobInv, ReadSlot, ReadFrom, Holds, At, reader
<1>7. BlockInv'
  BY <1>1, <1>2 DEF Inv, BlockInv, ReadSlot, Holds, At, reader
<1>8. FedInv'
  BY <1>1 DEF Inv, FedInv, FedInOrder, Busy
<1> QED
  BY <1>4, <1>5, <1>6, <1>7, <1>8 DEF Inv

\* The empty block is given to the writer, too.
LEMMA LastSearchInv == Inv /\ LastSearch => Inv'
<1> SUFFICES ASSUME Inv, LastSearch PROVE Inv'
  OBVIOUS
<1>1. /\ pc = "last" /\ pc' = "closeout" /\ hinfo' = [hinfo EXCEPT !.blk = blk, !.off = offset]
      /\ UNCHANGED <<raw, disk, walk, path, reader, job, blk, offset, searched, fed, reported,
                     numHits, bytesSearched, out, opened>>
  BY DEF LastSearch, SetBuffer
<1>2. opts' = opts /\ Bytes' = Bytes /\ UsesMapping(path)' = UsesMapping(path)
  BY <1>1, SameFile
<1>3. hinfo' \in Hinfos'
  BY <1>1 DEF Inv, TypeOK, SearchTypes, Hinfos
<1>4. TypeOK'
  BY <1>1, <1>3 DEF Inv, TypeOK, WalkTypes, ReaderTypes, SearchTypes, walk, reader
<1>5. PathInv' /\ JobInv'
  BY <1>1 DEF Inv, PathInv, JobInv, Busy
<1>6. BlockInv' /\ FedInv'
  BY <1>1, <1>2 DEF Inv, BlockInv, FedInv, FedInOrder, Busy
<1> QED
  BY <1>4, <1>5, <1>6 DEF Inv

\* The context is closed out and the bytes of the file are counted.
LEMMA CloseOutInv == Inv /\ CloseOut => Inv'
<1> SUFFICES ASSUME Inv, CloseOut PROVE Inv'
  OBVIOUS
<1>1. /\ pc = "closeout" /\ pc' = "paths" /\ offset' = offset + blk.len
      /\ bytesSearched' = bytesSearched + offset'
      /\ UNCHANGED <<raw, disk, walk, path, reader, job, blk, searched, hinfo, fed, reported,
                     numHits, out, opened>>
  BY DEF CloseOut
<1>2. offset' \in Nat /\ bytesSearched' \in Nat
  BY <1>1, BlockSizeType, SMTT(60) DEF Inv, TypeOK, SearchTypes, Blocks
<1>3. TypeOK'
  BY <1>1, <1>2 DEF Inv, TypeOK, WalkTypes, ReaderTypes, SearchTypes, Hinfos, walk, reader
<1>4. PathInv' /\ JobInv' /\ BlockInv' /\ FedInv'
  BY <1>1 DEF Inv, PathInv, JobInv, BlockInv, FedInv, FedInOrder, Busy
<1> QED
  BY <1>3, <1>4 DEF Inv

-----------------------------------------------------------------------------
\* A read that is running is a FileReader's, and it writes into Next.
LEMMA RunningMeans ==
  ASSUME Inv, job.state = "running"
  PROVE  /\ pc \in {"wait", "search"} /\ job # NoJob /\ job \in Jobs
         /\ ~UsesMapping(path) /\ job.slot = next /\ job.len \in 0..BlockSize
<1>1. job # NoJob
  BY DEF NoJob
<1> QED
  BY <1>1 DEF Inv, JobInv, ReadSlot, TypeOK, ReaderTypes, Jobs

\* The reader's thread reads a byte: the block under search is in the other buffer.
LEMMA ReadByteInv == Inv /\ ReadByte => Inv'
<1> SUFFICES ASSUME Inv, ReadByte PROVE Inv'
  OBVIOUS
<1>1. /\ job.len < BlockSize /\ pos < Len(Bytes) /\ job.state = "running"
      /\ slots' = [slots EXCEPT ![job.slot][job.len + 1] = pos]
      /\ job' = [job EXCEPT !.len = @ + 1] /\ pos' = pos + 1
      /\ UNCHANGED <<raw, disk, pc, walk, path, cur, next, blk, offset, searched, hinfo,
                     fed, reported, numHits, bytesSearched, out, opened>>
  BY DEF ReadByte
<1>2. /\ pc \in {"wait", "search"} /\ job # NoJob /\ job \in Jobs
      /\ ~UsesMapping(path) /\ job.slot = next /\ job.len \in 0..BlockSize
  BY <1>1, RunningMeans
<1>3. opts' = opts /\ Bytes' = Bytes /\ UsesMapping(path)' = UsesMapping(path)
  BY <1>1, SameFile
<1>4. /\ cur \in Slots /\ next = 1 - cur /\ next \in Slots /\ pos \in Nat
      /\ slots \in [Slots -> [1..BlockSize -> Nat \cup {Garbage}]]
  BY DEF Inv, TypeOK, ReaderTypes, Slots
<1>5. /\ Len(Bytes) \in Nat /\ BlockSize \in Nat /\ BlockSize >= 1
      /\ offset \in Nat /\ blk \in Blocks /\ blk.len \in 0..BlockSize
  BY <1>2, FileFacts, BlockSizeType DEF Inv, Busy, TypeOK, SearchTypes, Blocks
<1>6. /\ slots' \in [Slots -> [1..BlockSize -> Nat \cup {Garbage}]]
      /\ slots'[next][job.len + 1] = pos /\ slots'[cur] = slots[cur]
      /\ \A k \in 1..job.len : slots'[next][k] = slots[next][k]
  BY <1>1, <1>2, <1>4, <1>5, SMTT(60) DEF Slots
<1>7. /\ job' \in Jobs /\ job' # NoJob /\ job'.len = job.len + 1 /\ job'.slot = next
      /\ job'.state = "running"
  BY <1>1, <1>2, <1>5, SMTT(60) DEF Jobs, NoJob
<1>8. TypeOK'
  BY <1>1, <1>4, <1>6, <1>7, SMTT(60) DEF Inv, TypeOK, WalkTypes, ReaderTypes, SearchTypes,
     Hinfos, walk
<1>9. PathInv'
  BY <1>1 DEF Inv, PathInv
<1>10. JobInv'
  <2>1. Holds(job, ReadFrom) /\ pos = ReadFrom + job.len /\ ReadFrom \in Nat
    BY <1>2, <1>5 DEF Inv, JobInv, ReadFrom
  <2>2. ReadFrom' = ReadFrom
    BY <1>1 DEF ReadFrom
  <2>3. \A k \in 0..job.len : At(job, k)' = ReadFrom + k
    BY <1>1, <1>2, <1>4, <1>6, <1>7, <2>1, SMTT(60) DEF Holds, At, Mapped, Slots
  <2>4. Holds(job, ReadFrom)'
    BY <1>2, <1>7, <2>2, <2>3 DEF Holds
  <2>5. pos' = ReadFrom' + job'.len /\ pos' <= Len(Bytes')
    BY <1>1, <1>2, <1>3, <1>4, <1>5, <1>7, <2>1, <2>2, SMTT(60)
  <2>6. job'.slot = ReadSlot'
    BY <1>1, <1>2, <1>3, <1>7 DEF ReadSlot
  <2> QED
    BY <1>1, <1>2, <1>3, <1>7, <2>4, <2>5, <2>6 DEF JobInv
<1>11. BlockInv'
  <2>1. pc = "search" => Holds(blk, offset)'
    BY <1>1, <1>2, <1>6, ZenonT(60) DEF Inv, BlockInv, Holds, At
  <2> QED
    BY <1>1, <1>2, <1>3, <2>1 DEF Inv, BlockInv
<1>12. FedInv'
  BY <1>1 DEF Inv, FedInv, FedInOrder, Busy
<1> QED
  BY <1>8, <1>9, <1>10, <1>11, <1>12 DEF Inv

\* The read ends: the future is set.
LEMMA EndReadInv == Inv /\ EndRead => Inv'
<1> SUFFICES ASSUME Inv, EndRead PROVE Inv'
  OBVIOUS
<1>1. /\ job.state = "running"
      /\ \/ (job.len = BlockSize \/ pos = Len(Bytes)) /\ job' = [job EXCEPT !.state = "done"]
         \/ job' = [job EXCEPT !.state = "error"]
      /\ UNCHANGED <<raw, disk, pc, walk, path, reader, blk, offset, searched, hinfo,
                     fed, reported, numHits, bytesSearched, out, opened>>
  BY DEF EndRead
<1>2. /\ pc \in {"wait", "search"} /\ job # NoJob /\ job \in Jobs
      /\ ~UsesMapping(path) /\ job.slot = next /\ job.len \in 0..BlockSize
  BY <1>1, RunningMeans
<1>3. opts' = opts /\ Bytes' = Bytes /\ UsesMapping(path)' = UsesMapping(path)
  BY <1>1, SameFile
<1>4. /\ job' \in Jobs /\ job' # NoJob /\ job'.len = job.len /\ job'.slot = job.slot
      /\ job'.state = "done" => job.len = BlockSize \/ pos = Len(Bytes)
  BY <1>1, <1>2 DEF Jobs, NoJob
<1>5. TypeOK'
  BY <1>1, <1>4 DEF Inv, TypeOK, WalkTypes, ReaderTypes, SearchTypes, Hinfos, walk, reader
<1>6. PathInv'
  BY <1>1 DEF Inv, PathInv
<1>7. JobInv'
  BY <1>1, <1>2, <1>3, <1>4 DEF Inv, JobInv, ReadSlot, ReadFrom, Holds, At, reader, Slots, Mapped, TypeOK, ReaderTypes
<1>8. BlockInv'
  BY <1>1, <1>2, <1>3 DEF Inv, BlockInv, Holds, At, reader
<1>9. FedInv'
  BY <1>1 DEF Inv, FedInv, FedInOrder, Busy
<1> QED
  BY <1>5, <1>6, <1>7, <1>8, <1>9 DEF Inv

-----------------------------------------------------------------------------
\* Every step of the main thread, of the reader's thread, and a stop.
LEMMA NextInv == Inv /\ [Next]_vars => Inv'
<1> SUFFICES ASSUME Inv, [Next]_vars PROVE Inv'
  OBVIOUS
<1>1. CASE MainStep
  BY <1>1, ReadOptionsInv, NextListInv, NextPathInv, FirstReadInv, GetBlockInv, PrefetchInv,
     SearchByteInv, EndSearchInv, ReportHitInv, LastSearchInv, CloseOutInv DEF MainStep
<1>2. CASE ReaderStep
  BY <1>2, ReadByteInv, EndReadInv DEF ReaderStep
<1>3. CASE UNCHANGED vars
  <2>1. UNCHANGED <<raw, disk, pc, walk, path, slots, cur, next, pos, job, blk, offset,
                    searched, hinfo, fed, reported, numHits, bytesSearched, opened>>
    BY <1>3 DEF vars, reader
  <2>2. opts' = opts /\ Bytes' = Bytes /\ UsesMapping(path)' = UsesMapping(path)
    BY <2>1, SameFile
  <2>3. TypeOK' /\ PathInv'
    BY <2>1, SMTT(60) DEF Inv, TypeOK, WalkTypes, ReaderTypes, SearchTypes, Hinfos, walk,
       PathInv
  <2>4. JobInv' /\ BlockInv'
    BY <2>1, <2>2 DEF Inv, JobInv, BlockInv, ReadSlot, ReadFrom, Holds, At
  <2>5. FedInv'
    BY <2>1 DEF Inv, FedInv, FedInOrder, Busy
  <2> QED
    BY <2>3, <2>4, <2>5 DEF Inv
<1> QED
  BY <1>1, <1>2, <1>3 DEF Next, Stopped

\* The state is well typed, a block is where searchFile believes it to be, and the
\* read under way goes on where the block ends (searchcontroller.cpp:33-55,
\* reader.cpp:29-60).
THEOREM Invariance == Spec => []Inv
<1> QED
  BY InitInv, NextInv, PTL DEF Spec

\* Every variable of the controller, the readers and the writer has its type.
THEOREM TypeCorrect == Spec => []TypeOK
<1>1. Inv => TypeOK
  BY DEF Inv
<1> QED
  BY <1>1, Invariance, PTL

\* The block under search holds the bytes at its offset, however the reader's thread
\* is scheduled (reader.cpp:40).
THEOREM BlockIntactAlways == Spec => []BlockIntact
<1>1. Inv => BlockIntact
  BY DEF Inv, BlockInv, BlockIntact, Holds
<1> QED
  BY <1>1, Invariance, PTL

\* The context gets every byte of the file once, in order, at its own offset, for
\* every block size (searchcontroller.cpp:33-55).
THEOREM FedInOrderAlways == Spec => []FedInOrder
<1>1. Inv => FedInOrder
  BY DEF Inv, FedInv
<1> QED
  BY <1>1, Invariance, PTL

-----------------------------------------------------------------------------
(* The walk over lists, directories and paths: for every command line and  *)
(* disk, the files are opened in the order in which they are named, the    *)
(* standard input once.                                                    *)

\* The uses of the first i lists, and the files of a use.
ListUses == [i \in DOMAIN opts.lists |-> UsesOf(i)]
UseFiles == [k \in DOMAIN Uses |-> FilesOf(Uses, k)]
Only == [p \in DOMAIN disk |-> FileOnly(p)]

\* i lists have been begun; of the last of them, or of the inputs, what is left are
\* the uses that come after the u that are done.
ListsDone(i) ==
  /\ Len(opts.lists) = i + Len(lists) /\ \A k \in 1..Len(lists) : lists[k] = opts.lists[i + k]
  /\ ~inputsLeft => lists = <<>>

UsesDone(i, u) ==
  /\ u + Len(paths) = IF inputsLeft THEN Len(First(ListUses, i)) ELSE Len(Uses)
  /\ \A k \in 1..Len(paths) : Uses[u + k] = Use("input", paths[k])
  /\ stdinUsed <=> \E j \in 1..u : Uses[j].path = Stdin

\* The files opened, and those left of the directory that is walked, are those of the
\* uses that are done.
FilesDone(u) == opened \o FlattenEach(Only, below) = First(UseFiles, u)

WalkedTo(i, u) == ListsDone(i) /\ UsesDone(i, u) /\ FilesDone(u)

WalkInv ==
  /\ pc \in {"options", "usage"} =>
       opened = <<>> /\ paths = <<>> /\ below = <<>> /\ ~stdinUsed
  /\ pc \in Busy \cup {"lists", "paths", "summary"} =>
       \E i \in 0..Len(opts.lists), u \in 0..Len(Uses) : WalkedTo(i, u)
  /\ pc = "lists" => paths = <<>> /\ below = <<>>
  /\ pc = "summary" => paths = <<>> /\ below = <<>> /\ ~inputsLeft
  /\ pc \in {"gaveUp", "failed"} => StartsWith(Named, opened)

-----------------------------------------------------------------------------
UseRecords == [as : {"list", "input"}, path : DOMAIN disk]

\* The lists and the inputs of a command line, and the lines of a list, are paths that
\* the disk knows.
LEMMA PathsKnown ==
  ASSUME TypeOK
  PROVE  /\ opts.lists \in Seq(DOMAIN disk) /\ opts.inputs \in Seq(DOMAIN disk)
         /\ \A p \in DOMAIN disk : LinesOf(p) \in Seq(DOMAIN disk)
<1>1. opts.lists \in Seq(DOMAIN disk) /\ opts.inputs \in Seq(DOMAIN disk)
  BY CommandsAssumption DEF TypeOK, WalkTypes, opts, ParseOpts
<1>2. \A p \in DOMAIN disk : LinesOf(p) \in Seq(DOMAIN disk)
  BY DisksAssumption, EmptySeq DEF TypeOK, WalkTypes, LinesOf
<1> QED
  BY <1>1, <1>2

\* The uses that a list makes, if it is used: itself, then its lines.
LEMMA UsesOfMeans ==
  ASSUME TypeOK, NEW i \in 1..Len(opts.lists)
  PROVE  LET l == opts.lists[i]
         IN  /\ l \in DOMAIN disk /\ UsesOf(i) \in Seq(UseRecords)
             /\ ~ListUsed(i) => UsesOf(i) = <<>>
             /\ ListUsed(i) =>
                  /\ Len(UsesOf(i)) = 1 + Len(LinesOf(l))
                  /\ UsesOf(i)[1] = Use("list", l)
                  /\ \A k \in 1..Len(LinesOf(l)) : UsesOf(i)[1 + k] = Use("input", LinesOf(l)[k])
<1> DEFINE l == opts.lists[i]
           ls == LinesOf(l)
           m == [k \in DOMAIN ls |-> Use("input", ls[k])]
           h == <<Use("list", l)>>
<1>1. l \in DOMAIN disk
  BY PathsKnown, ElementOfSeq
<1>2. ls \in Seq(DOMAIN disk)
  BY <1>1, PathsKnown
<1>3. UsesOf(i) = IF ListUsed(i) THEN h \o m ELSE <<>>
  BY DEF UsesOf
<1>4. h \in Seq(UseRecords) /\ Len(h) = 1 /\ h[1] = Use("list", l)
  BY <1>1 DEF UseRecords, Use
<1> HIDE DEF l, ls
<1>5. Len(ls) \in Nat /\ DOMAIN ls = 1..Len(ls) /\ \A k \in 1..Len(ls) : ls[k] \in DOMAIN disk
  BY <1>2, LenProperties, ElementOfSeq
<1>6. m \in [1..Len(ls) -> UseRecords] /\ \A k \in 1..Len(ls) : m[k] = Use("input", ls[k])
  BY <1>5 DEF UseRecords, Use
<1> HIDE DEF h, m
<1>7. m \in Seq(UseRecords) /\ Len(m) = Len(ls)
  BY <1>5, <1>6, FunctionIsSeq
<1>8. /\ h \o m \in Seq(UseRecords) /\ Len(h \o m) = 1 + Len(ls)
      /\ \A k \in 1..1 + Len(ls) : (h \o m)[k] = IF k <= 1 THEN h[k] ELSE m[k - 1]
  <2>1. /\ h \o m \in Seq(UseRecords) /\ Len(h \o m) = Len(h) + Len(m)
        /\ \A k \in 1..Len(h) + Len(m) : (h \o m)[k] = IF k <= Len(h) THEN h[k] ELSE m[k - Len(h)]
    BY <1>4, <1>7, ConcatProperties
  <2> QED
    BY <2>1, <1>4, <1>7
<1>9. (h \o m)[1] = Use("list", l)
  BY <1>4, <1>5, <1>8
<1>10. ASSUME NEW k \in 1..Len(ls) PROVE (h \o m)[1 + k] = Use("input", ls[k])
  <2>1. 1 + k \in 1..1 + Len(ls) /\ ~(1 + k <= 1) /\ (1 + k) - 1 = k
    BY <1>5
  <2>2. (h \o m)[1 + k] = m[(1 + k) - 1]
    BY <1>8, <2>1
  <2> QED
    BY <1>6, <2>1, <2>2
<1>11. <<>> \in Seq(UseRecords)
  BY EmptySeq
<1> QED
  BY <1>1, <1>3, <1>8, <1>9, <1>10, <1>11 DEF l, ls

\* The uses of a command line: those of its lists, then its inputs.
LEMMA UsesMeans ==
  ASSUME TypeOK
  PROVE  /\ Uses \in Seq(UseRecords) /\ Len(opts.lists) \in Nat
         /\ AllSeqs(ListUses, UseRecords, Len(opts.lists))
         /\ First(ListUses, Len(opts.lists)) \in Seq(UseRecords)
         /\ Len(Uses) = Len(First(ListUses, Len(opts.lists))) + Len(opts.inputs)
         /\ StartsWith(Uses, First(ListUses, Len(opts.lists)))
         /\ \A k \in 1..Len(opts.inputs) :
              Uses[Len(First(ListUses, Len(opts.lists))) + k] = Use("input", opts.inputs[k])
<1> DEFINE n == Len(opts.lists)
           a == First(ListUses, n)
           ins == opts.inputs
           b == [k \in DOMAIN ins |-> Use("input", ins[k])]
<1>1. n \in Nat /\ DOMAIN opts.lists = 1..n /\ ins \in Seq(DOMAIN disk)
  BY PathsKnown, LenProperties
<1>2. AllSeqs(ListUses, UseRecords, n)
  BY <1>1, UsesOfMeans DEF AllSeqs, ListUses
<1>3. Uses = a \o b
  <2>1. [k \in 1..n |-> ListUses[k]] = [k \in DOMAIN opts.lists |-> UsesOf(k)]
    BY <1>1 DEF ListUses
  <2> QED
    BY <2>1 DEF Uses, First
<1> HIDE DEF n, ins
<1>4. Len(ins) \in Nat /\ DOMAIN ins = 1..Len(ins) /\ \A k \in 1..Len(ins) : ins[k] \in DOMAIN disk
  BY <1>1, LenProperties, ElementOfSeq
<1>5. b \in [1..Len(ins) -> UseRecords] /\ \A k \in 1..Len(ins) : b[k] = Use("input", ins[k])
  BY <1>4 DEF UseRecords, Use
<1>6. a \in Seq(UseRecords)
  BY <1>1, <1>2, FirstNext
<1> HIDE DEF a, b
<1>7. b \in Seq(UseRecords) /\ Len(b) = Len(ins)
  BY <1>4, <1>5, FunctionIsSeq
<1>8. /\ a \o b \in Seq(UseRecords) /\ Len(a \o b) = Len(a) + Len(ins) /\ Len(a) \in Nat
      /\ \A k \in 1..Len(a) + Len(ins) : (a \o b)[k] = IF k <= Len(a) THEN a[k] ELSE b[k - Len(a)]
      /\ StartsWith(a \o b, a)
  BY <1>6, <1>7, ConcatProperties, ConcatStartsWith, LenProperties, ZenonT(60)
<1>9. ASSUME NEW k \in 1..Len(ins) PROVE (a \o b)[Len(a) + k] = Use("input", ins[k])
  <2>1. Len(a) + k \in 1..Len(a) + Len(ins) /\ ~(Len(a) + k <= Len(a)) /\ (Len(a) + k) - Len(a) = k
    BY <1>4, <1>8
  <2>2. (a \o b)[Len(a) + k] = b[(Len(a) + k) - Len(a)]
    BY <1>8, <2>1
  <2> QED
    BY <1>5, <2>1, <2>2
<1> QED
  BY <1>1, <1>2, <1>3, <1>6, <1>8, <1>9 DEF n, a, ins

\* What the lists begun so far contribute to the uses, and what the next one adds.
LEMMA NextListUses ==
  ASSUME TypeOK, NEW i \in Nat, i < Len(opts.lists)
  PROVE  LET l == opts.lists[i + 1]
             n == Len(First(ListUses, i))
         IN  /\ n \in Nat /\ First(ListUses, i) \in Seq(UseRecords)
             /\ First(ListUses, i + 1) = First(ListUses, i) \o UsesOf(i + 1)
             /\ \A k \in 1..n : Uses[k] = First(ListUses, i)[k]
             /\ ~ListUsed(i + 1) => First(ListUses, i + 1) = First(ListUses, i)
             /\ ListUsed(i + 1) =>
                  /\ Len(First(ListUses, i + 1)) = n + 1 + Len(LinesOf(l))
                  /\ n + 1 + Len(LinesOf(l)) <= Len(Uses)
                  /\ Uses[n + 1] = Use("list", l)
                  /\ \A k \in 1..Len(LinesOf(l)) : Uses[n + 1 + k] = Use("input", LinesOf(l)[k])
<1> DEFINE l == opts.lists[i + 1]
           f == First(ListUses, i)
           g == First(ListUses, i + 1)
           e == UsesOf(i + 1)
           all == First(ListUses, Len(opts.lists))
<1>1. /\ Len(opts.lists) \in Nat /\ Uses \in Seq(UseRecords) /\ StartsWith(Uses, all)
      /\ AllSeqs(ListUses, UseRecords, Len(opts.lists)) /\ all \in Seq(UseRecords)
  BY UsesMeans
<1>2. /\ i + 1 \in 1..Len(opts.lists) /\ i + 1 \in 0..Len(opts.lists)
      /\ i \in 0..Len(opts.lists) /\ i + 1 \in Nat
  BY <1>1
<1>3. ListUses[i + 1] = e
  BY <1>2, PathsKnown, LenProperties DEF ListUses
<1>4. AllSeqs(ListUses, UseRecords, i) /\ AllSeqs(ListUses, UseRecords, i + 1)
  BY <1>1, <1>2 DEF AllSeqs
<1>5. /\ e \in Seq(UseRecords) /\ LinesOf(l) \in Seq(DOMAIN disk)
      /\ ~ListUsed(i + 1) => e = <<>>
      /\ ListUsed(i + 1) =>
           /\ Len(e) = 1 + Len(LinesOf(l)) /\ e[1] = Use("list", l)
           /\ \A k \in 1..Len(LinesOf(l)) : e[1 + k] = Use("input", LinesOf(l)[k])
  BY <1>2, UsesOfMeans, PathsKnown
<1>6. f \in Seq(UseRecords) /\ g \in Seq(UseRecords) /\ g = f \o e
  BY <1>2, <1>3, <1>4, <1>5, FirstNext, ZenonT(60)
<1>7. StartsWith(all, g) /\ StartsWith(all, f)
  BY <1>1, <1>2, FirstStartsWith
<1> HIDE DEF f, g, e, all, l
<1>8. StartsWith(Uses, g) /\ StartsWith(Uses, f)
  BY <1>1, <1>6, <1>7, StartsWithTrans
<1>9. f \o <<>> = f
  BY <1>6, ConcatEmptySeq
<1>10. PICK n \in Nat : n = Len(f)
  BY <1>6, LenProperties
<1>11. PICK m \in Nat : m = Len(LinesOf(l))
  BY <1>5, LenProperties
<1>12. \A k \in 1..n : Uses[k] = f[k]
  BY <1>8, <1>10 DEF StartsWith
<1>13. ASSUME ListUsed(i + 1)
       PROVE  /\ Len(g) = n + 1 + m /\ n + 1 + m <= Len(Uses)
              /\ Uses[n + 1] = Use("list", l)
              /\ \A k \in 1..m : Uses[n + 1 + k] = Use("input", LinesOf(l)[k])
  <2>1. Len(e) = 1 + m /\ e[1] = Use("list", l) /\ \A k \in 1..m : e[1 + k] = Use("input", LinesOf(l)[k])
    BY <1>5, <1>11, <1>13
  <2>2. Len(f \o e) = n + Len(e) /\ \A k \in 1..n + Len(e) : (f \o e)[k] = IF k <= n THEN f[k] ELSE e[k - n]
    BY <1>5, <1>6, <1>10, ConcatProperties
  <2>3. Len(g) = n + 1 + m
    BY <1>6, <2>1, <2>2
  <2>4. \A k \in 1..1 + m : g[n + k] = e[k]
    <3> SUFFICES ASSUME NEW k \in 1..1 + m PROVE g[n + k] = e[k]
      OBVIOUS
    <3>1. n + k \in 1..n + Len(e) /\ ~(n + k <= n) /\ (n + k) - n = k
      BY <2>1
    <3>2. (f \o e)[n + k] = e[(n + k) - n]
      BY <2>2, <3>1
    <3> QED
      BY <1>6, <3>1, <3>2
  <2>5. Len(g) <= Len(Uses) /\ \A k \in 1..n + 1 + m : Uses[k] = g[k]
    BY <1>8, <2>3 DEF StartsWith
  <2>6. Uses[n + 1] = Use("list", l)
    BY <2>1, <2>4, <2>5, SMTT(60)
  <2>7. ASSUME NEW k \in 1..m PROVE Uses[n + 1 + k] = Use("input", LinesOf(l)[k])
    <3>1. 1 + k \in 1..1 + m /\ n + 1 + k = n + (1 + k) /\ n + 1 + k \in 1..n + 1 + m
      OBVIOUS
    <3>2. Uses[n + 1 + k] = g[n + (1 + k)]
      BY <2>5, <3>1
    <3> QED
      BY <2>1, <2>4, <3>1, <3>2
  <2> QED
    BY <2>3, <2>5, <2>6, <2>7
<1> QED
  BY <1>5, <1>6, <1>9, <1>10, <1>11, <1>12, <1>13 DEF f, g, e, l

\* A use of the standard input among some uses, or among the first i lists.
HasStdin(uses) == \E j \in 1..Len(uses) : uses[j].path = Stdin
Mentions(l) == l = Stdin \/ Stdin \in Range(LinesOf(l))
Mentioned(i) == \E j \in 1..i : Mentions(opts.lists[j])

\* Uses put end to end use the standard input where one of the parts does.
LEMMA HasStdinConcat ==
  ASSUME NEW s \in Seq(UseRecords), NEW t \in Seq(UseRecords)
  PROVE  HasStdin(s \o t) <=> HasStdin(s) \/ HasStdin(t)
<1>1. PICK m \in Nat : m = Len(s)
  BY LenProperties
<1>2. PICK n \in Nat : n = Len(t)
  BY LenProperties
<1>3. Len(s \o t) = m + n /\ \A k \in 1..m + n : (s \o t)[k] = IF k <= m THEN s[k] ELSE t[k - m]
  BY <1>1, <1>2, ConcatProperties
<1> DEFINE c == s \o t
<1> HIDE DEF c
<1>4. Len(c) = m + n /\ \A k \in 1..m + n : c[k] = IF k <= m THEN s[k] ELSE t[k - m]
  BY <1>3 DEF c
<1>5. ASSUME HasStdin(c) PROVE HasStdin(s) \/ HasStdin(t)
  <2>1. PICK j \in 1..m + n : c[j].path = Stdin
    BY <1>4, <1>5 DEF HasStdin
  <2>2. CASE j <= m
    BY <1>1, <1>4, <2>1, <2>2 DEF HasStdin
  <2>3. CASE ~(j <= m)
    <3>1. j - m \in 1..n /\ t[j - m].path = Stdin
      BY <1>4, <2>1, <2>3
    <3> QED
      BY <1>2, <3>1 DEF HasStdin
  <2> QED
    BY <2>2, <2>3
<1>6. ASSUME HasStdin(s) PROVE HasStdin(c)
  BY <1>1, <1>4, <1>6 DEF HasStdin
<1>7. ASSUME HasStdin(t) PROVE HasStdin(c)
  <2>1. PICK j \in 1..n : t[j].path = Stdin
    BY <1>2, <1>7 DEF HasStdin
  <2>2. m + j \in 1..m + n /\ ~(m + j <= m) /\ (m + j) - m = j
    OBVIOUS
  <2>3. c[m + j] = t[(m + j) - m]
    BY <1>4, <2>2
  <2> QED
    BY <1>4, <2>1, <2>2, <2>3 DEF HasStdin
<1> QED
  BY <1>5, <1>6, <1>7 DEF c

\* The lists begun use the standard input if one of them is it or has it as a line:
\* what stdinUsed is asked when the next list is come to.
LEMMA StdinNamed ==
  ASSUME TypeOK, NEW i \in Nat, i <= Len(opts.lists)
  PROVE  HasStdin(First(ListUses, i)) <=> Mentioned(i)
<1> DEFINE T == {d \in Nat : d <= Len(opts.lists) => (HasStdin(First(ListUses, d)) <=> Mentioned(d))}
<1>0. Len(opts.lists) \in Nat /\ AllSeqs(ListUses, UseRecords, Len(opts.lists))
  BY UsesMeans
<1>1. 0 \in T
  <2>1. AllSeqs(ListUses, UseRecords, 0)
    BY DEF AllSeqs
  <2>2. First(ListUses, 0) = <<>>
    BY <2>1, FirstNext
  <2> QED
    BY <2>2 DEF HasStdin, Mentioned
<1>2. ASSUME NEW d \in T PROVE d + 1 \in T
  <2>0. d \in Nat /\ d + 1 \in Nat
    OBVIOUS
  <2> SUFFICES ASSUME d + 1 <= Len(opts.lists)
               PROVE  HasStdin(First(ListUses, d + 1)) <=> Mentioned(d + 1)
    BY <2>0, Zenon
  <2> DEFINE l == opts.lists[d + 1]
             e == UsesOf(d + 1)
             f == First(ListUses, d)
             g == First(ListUses, d + 1)
  <2>1. d < Len(opts.lists) /\ d <= Len(opts.lists) /\ d + 1 \in 1..Len(opts.lists)
    BY <1>0, <2>0
  <2>2. HasStdin(f) <=> Mentioned(d)
    BY <2>1
  <2>3. f \in Seq(UseRecords) /\ g = f \o e
    BY <2>0, <2>1, NextListUses
  <2>4. /\ e \in Seq(UseRecords) /\ LinesOf(l) \in Seq(DOMAIN disk)
        /\ ~ListUsed(d + 1) => e = <<>>
        /\ ListUsed(d + 1) =>
             /\ Len(e) = 1 + Len(LinesOf(l)) /\ e[1] = Use("list", l)
             /\ \A k \in 1..Len(LinesOf(l)) : e[1 + k] = Use("input", LinesOf(l)[k])
    BY <2>1, UsesOfMeans, PathsKnown
  <2>5. ListUsed(d + 1) <=> ~(l = Stdin /\ Mentioned(d))
    BY <2>0 DEF ListUsed, Mentioned, Mentions
  <2>6. Mentioned(d + 1) <=> Mentioned(d) \/ Mentions(l)
    BY <2>0 DEF Mentioned
  <2> HIDE DEF l, e, f, g
  <2>7. HasStdin(g) <=> HasStdin(f) \/ HasStdin(e)
    BY <2>3, <2>4, HasStdinConcat
  <2>8. ~ListUsed(d + 1) => ~HasStdin(e)
    BY <2>4 DEF HasStdin
  <2>9. ASSUME ListUsed(d + 1) PROVE HasStdin(e) <=> Mentions(l)
    <3>1. PICK m \in Nat : m = Len(LinesOf(l)) /\ DOMAIN LinesOf(l) = 1..m
      BY <2>4, LenProperties
    <3>2. /\ Len(e) = 1 + m /\ e[1].path = l
          /\ \A k \in 1..m : e[1 + k].path = LinesOf(l)[k]
      <4>1. /\ Len(e) = 1 + Len(LinesOf(l)) /\ e[1] = Use("list", l)
            /\ \A k \in 1..Len(LinesOf(l)) : e[1 + k] = Use("input", LinesOf(l)[k])
        BY <2>4, <2>9
      <4>2. Len(e) = 1 + m /\ e[1] = Use("list", l) /\ \A k \in 1..m : e[1 + k] = Use("input", LinesOf(l)[k])
        BY <3>1, <4>1
      <4>3. \A as, p : Use(as, p).path = p
        BY DEF Use
      <4> QED
        BY <4>2, <4>3
    <3>3. Stdin \in Range(LinesOf(l)) <=> \E k \in 1..m : LinesOf(l)[k] = Stdin
      BY <3>1 DEF Range
    <3>4. ASSUME HasStdin(e) PROVE Mentions(l)
      <4>1. PICK j \in 1..1 + m : e[j].path = Stdin
        BY <3>2, <3>4 DEF HasStdin
      <4>2. CASE j = 1
        BY <3>2, <4>1, <4>2 DEF Mentions
      <4>3. CASE j # 1
        <5>1. j - 1 \in 1..m /\ 1 + (j - 1) = j
          BY <4>3
        <5>2. LinesOf(l)[j - 1] = Stdin
          BY <3>2, <4>1, <5>1
        <5> QED
          BY <3>3, <5>1, <5>2 DEF Mentions
      <4> QED
        BY <4>2, <4>3
    <3>5. ASSUME l = Stdin PROVE HasStdin(e)
      BY <3>2, <3>5 DEF HasStdin
    <3>6. ASSUME Stdin \in Range(LinesOf(l)) PROVE HasStdin(e)
      <4>1. PICK k \in 1..m : LinesOf(l)[k] = Stdin
        BY <3>3, <3>6
      <4>2. 1 + k \in 1..1 + m /\ e[1 + k].path = Stdin
        BY <3>2, <4>1
      <4> QED
        BY <3>2, <4>2 DEF HasStdin
    <3> QED
      BY <3>4, <3>5, <3>6 DEF Mentions
  <2> QED
    BY <2>2, <2>5, <2>6, <2>7, <2>8, <2>9 DEF g, Mentions
<1>3. T \subseteq Nat
  OBVIOUS
<1> HIDE DEF T
<1>4. \A d \in Nat : d \in T
  BY <1>1, <1>2, <1>3, InductionOnNat
<1> QED
  BY <1>4 DEF T

\* The files of a use: those of the path it names, if it is an input and not the
\* standard input again.
LEMMA FilesMeans ==
  ASSUME TypeOK
  PROVE  /\ Only \in [DOMAIN disk -> Seq(DOMAIN disk)]
         /\ Len(Uses) \in Nat
         /\ AllSeqs(UseFiles, DOMAIN disk, Len(Uses))
         /\ Named = First(UseFiles, Len(Uses)) /\ Named \in Seq(DOMAIN disk)
         /\ \A p \in DOMAIN disk :
              FilesUnder(p) = IF disk[p].kind = "dir" /\ opts.recursive
                              THEN FlattenEach(Only, disk[p].below) ELSE Only[p]
<1> DEFINE D == DOMAIN disk
<1>1. ASSUME NEW p \in D PROVE FileOnly(p) \in Seq(D)
  <2>1. <<>> \in Seq(D) /\ <<p>> \in Seq(D)
    BY EmptySeq
  <2> HIDE DEF D
  <2> QED
    BY <2>1 DEF FileOnly
<1>2. Only \in [D -> Seq(D)] /\ \A p \in D : Only[p] = FileOnly(p)
  BY <1>1 DEF Only
<1>3. Len(Uses) \in Nat /\ Uses \in Seq(UseRecords) /\ DOMAIN Uses = 1..Len(Uses)
  BY UsesMeans, LenProperties
<1>4. \A p \in D : disk[p].kind = "dir" => disk[p].below \in Seq(D)
  BY DisksAssumption DEF TypeOK, WalkTypes
<1>5. ASSUME NEW p \in D, disk[p].kind = "dir"
      PROVE  [i \in DOMAIN disk[p].below |-> FileOnly(disk[p].below[i])]
             = [i \in DOMAIN disk[p].below |-> Only[disk[p].below[i]]]
  <2>1. disk[p].below \in Seq(D)
    BY <1>4, <1>5
  <2>2. \A i \in DOMAIN disk[p].below : disk[p].below[i] \in D
    BY <2>1, LenProperties, ElementOfSeq
  <2> QED
    BY <1>2, <2>2
<1>6. ASSUME NEW p \in D
      PROVE  FilesUnder(p) = IF disk[p].kind = "dir" /\ opts.recursive
                             THEN FlattenEach(Only, disk[p].below) ELSE Only[p]
  BY <1>2, <1>5 DEF FilesUnder, FlattenEach
<1>7. ASSUME NEW p \in D PROVE FilesUnder(p) \in Seq(D)
  <2>1. CASE disk[p].kind = "dir" /\ opts.recursive
    <3>1. disk[p].below \in Seq(D)
      BY <1>4, <2>1
    <3>2. FlattenEach(Only, disk[p].below) \in Seq(D)
      BY <1>2, <3>1, FlattenMap
    <3> QED
      BY <1>6, <2>1, <3>2
  <2>2. CASE ~(disk[p].kind = "dir" /\ opts.recursive)
    BY <1>1, <1>2, <1>6, <2>2
  <2> QED
    BY <2>1, <2>2
<1>8. \A k \in 1..Len(Uses) : Uses[k].path \in D
  <2>1. \A k \in 1..Len(Uses) : Uses[k] \in UseRecords
    BY <1>3, ElementOfSeq
  <2> QED
    BY <2>1 DEF UseRecords
<1>9. \A k \in 1..Len(Uses) : UseFiles[k] \in Seq(D)
  <2>1. <<>> \in Seq(D)
    BY EmptySeq
  <2> QED
    BY <1>3, <1>7, <1>8, <2>1 DEF UseFiles, FilesOf
<1>10. AllSeqs(UseFiles, D, Len(Uses))
  BY <1>9 DEF AllSeqs
<1>11. Named = First(UseFiles, Len(Uses))
  <2>1. [k \in 1..Len(Uses) |-> UseFiles[k]] = [k \in DOMAIN Uses |-> FilesOf(Uses, k)]
    BY <1>3 DEF UseFiles
  <2> QED
    BY <2>1 DEF Named, First
<1>12. First(UseFiles, Len(Uses)) \in Seq(D)
  BY <1>3, <1>10, FirstNext
<1> QED
  BY <1>2, <1>3, <1>6, <1>10, <1>11, <1>12

\* What the next use adds to the files of the uses done.
LEMMA NextUseFiles ==
  ASSUME TypeOK, NEW u \in Nat, u < Len(Uses)
  PROVE  LET p == Uses[u + 1].path
         IN  /\ p \in DOMAIN disk /\ First(UseFiles, u) \in Seq(DOMAIN disk)
             /\ Uses[u + 1].as = "list" => First(UseFiles, u + 1) = First(UseFiles, u)
             /\ Uses[u + 1].as = "input" =>
                  First(UseFiles, u + 1) =
                    IF p = Stdin /\ (\E j \in 1..u : Uses[j].path = Stdin)
                    THEN First(UseFiles, u) ELSE First(UseFiles, u) \o FilesUnder(p)
<1> DEFINE p == Uses[u + 1].path
           f == First(UseFiles, u)
<1>1. Len(Uses) \in Nat /\ AllSeqs(UseFiles, DOMAIN disk, Len(Uses))
  BY FilesMeans
<1>2. u + 1 \in 1..Len(Uses) /\ (u + 1) - 1 = u
  BY <1>1
<1>3. Uses \in Seq(UseRecords) /\ DOMAIN Uses = 1..Len(Uses)
  BY UsesMeans, LenProperties
<1>4. p \in DOMAIN disk
  <2>1. Uses[u + 1] \in UseRecords
    BY <1>2, <1>3, ElementOfSeq
  <2> QED
    BY <2>1 DEF UseRecords
<1>5. AllSeqs(UseFiles, DOMAIN disk, u)
  BY <1>1, <1>2 DEF AllSeqs
<1>6. UseFiles[u + 1] \in Seq(DOMAIN disk)
  BY <1>1, <1>2 DEF AllSeqs
<1>7. f \in Seq(DOMAIN disk) /\ First(UseFiles, u + 1) = f \o UseFiles[u + 1]
  BY <1>5, <1>6, FirstNext
<1>8. f \o <<>> = f
  BY <1>7, ConcatEmptySeq
<1>9. UseFiles[u + 1] = FilesOf(Uses, u + 1)
  BY <1>2, <1>3 DEF UseFiles
<1> HIDE DEF f
<1>10. Uses[u + 1].as = "list" => FilesOf(Uses, u + 1) = <<>>
  BY DEF FilesOf
<1>11. Uses[u + 1].as = "input" =>
         FilesOf(Uses, u + 1) = IF p = Stdin /\ (\E j \in 1..u : Uses[j].path = Stdin)
                                THEN <<>> ELSE FilesUnder(p)
  BY <1>2 DEF FilesOf
<1> QED
  BY <1>4, <1>7, <1>8, <1>9, <1>10, <1>11 DEF f

-----------------------------------------------------------------------------
\* The lists and inputs of a command line are all uses.
LEMMA ListUsesFit ==
  ASSUME TypeOK, NEW i \in 0..Len(opts.lists)
  PROVE  Len(First(ListUses, i)) \in Nat /\ Len(First(ListUses, i)) <= Len(Uses)
<1> DEFINE n == Len(opts.lists)
           f == First(ListUses, i)
           all == First(ListUses, n)
<1>1. /\ n \in Nat /\ Uses \in Seq(UseRecords) /\ StartsWith(Uses, all)
      /\ AllSeqs(ListUses, UseRecords, n) /\ all \in Seq(UseRecords)
  BY UsesMeans
<1>2. AllSeqs(ListUses, UseRecords, i)
  BY <1>1 DEF AllSeqs
<1>3. f \in Seq(UseRecords) /\ StartsWith(all, f)
  BY <1>1, <1>2, FirstNext, FirstStartsWith
<1> HIDE DEF f, all
<1>4. StartsWith(Uses, f)
  BY <1>1, <1>3, StartsWithTrans
<1> QED
  BY <1>3, <1>4, LenProperties DEF StartsWith, f

\* The files opened are the first of those named.
LEMMA WalkedSafely ==
  ASSUME TypeOK, NEW u \in 0..Len(Uses), FilesDone(u)
  PROVE  StartsWith(Named, opened)
<1> DEFINE f == First(UseFiles, u)
           rest == FlattenEach(Only, below)
<1>1. /\ Only \in [DOMAIN disk -> Seq(DOMAIN disk)] /\ Len(Uses) \in Nat
      /\ AllSeqs(UseFiles, DOMAIN disk, Len(Uses))
      /\ Named = First(UseFiles, Len(Uses)) /\ Named \in Seq(DOMAIN disk)
  BY FilesMeans
<1>2. opened \in Seq(DOMAIN disk) /\ below \in Seq(DOMAIN disk)
  BY DEF TypeOK, WalkTypes
<1>3. rest \in Seq(DOMAIN disk)
  BY <1>1, <1>2, FlattenMap
<1>4. opened \o rest = f
  BY DEF FilesDone
<1>5. StartsWith(Named, f)
  BY <1>1, FirstStartsWith
<1>6. AllSeqs(UseFiles, DOMAIN disk, u)
  BY <1>1 DEF AllSeqs
<1>7. f \in Seq(DOMAIN disk)
  BY <1>6, FirstNext
<1> HIDE DEF f, rest
<1>8. StartsWith(f, opened)
  BY <1>2, <1>3, <1>4, ConcatStartsWith
<1> QED
  BY <1>1, <1>2, <1>5, <1>7, <1>8, StartsWithTrans

\* What the command line names does not change.
LEMMA SameCommand ==
  ASSUME UNCHANGED <<raw, disk>>
  PROVE  /\ opts' = opts /\ Uses' = Uses /\ ListUses' = ListUses /\ UseFiles' = UseFiles
         /\ Only' = Only /\ Named' = Named
<1>1. opts' = opts
  BY DEF opts
<1>2. ListUses' = ListUses
  BY <1>1 DEF ListUses, UsesOf, ListUsed, LinesOf
<1>3. Uses' = Uses
  BY <1>1 DEF Uses, UsesOf, ListUsed, LinesOf
<1>4. Only' = Only
  BY DEF Only, FileOnly
<1>5. UseFiles' = UseFiles
  BY <1>1, <1>3 DEF UseFiles, FilesOf, FilesUnder, FileOnly
<1>6. Named' = Named
  BY <1>1, <1>3 DEF Named, FilesOf, FilesUnder, FileOnly
<1> QED
  BY <1>1, <1>2, <1>3, <1>4, <1>5, <1>6

\* Where there is a walk.
Walking == Busy \cup {"lists", "paths", "summary"}

\* A step that is not of the walk leaves it where it is, or ends it.
LEMMA StaysPut ==
  ASSUME TypeOK, WalkInv, UNCHANGED <<raw, disk, walk, opened>>,
         pc \in Walking, pc \notin {"lists", "summary"},
         pc' \in Busy \cup {"paths", "failed"}
  PROVE  WalkInv'
<1>1. PICK i \in 0..Len(opts.lists), u \in 0..Len(Uses) : WalkedTo(i, u)
  BY DEF WalkInv, Walking
<1>2. /\ opts' = opts /\ Uses' = Uses /\ ListUses' = ListUses /\ UseFiles' = UseFiles
      /\ Only' = Only /\ Named' = Named
  BY SameCommand
<1>3. StartsWith(Named, opened)
  BY <1>1, WalkedSafely DEF WalkedTo
<1>4. WalkedTo(i, u)'
  BY <1>1, <1>2 DEF WalkedTo, ListsDone, UsesDone, FilesDone, walk
<1>5. \E i2 \in (0..Len(opts.lists))', u2 \in (0..Len(Uses))' : WalkedTo(i2, u2)'
  BY <1>2, <1>4
<1> QED
  BY <1>2, <1>3, <1>5 DEF WalkInv, Busy

\* A walk that has got further, and has not been broken off.
LEMMA GotFurther ==
  ASSUME UNCHANGED <<raw, disk>>, NEW i \in 0..Len(opts.lists), NEW u \in 0..Len(Uses),
         ListsDone(i)', UsesDone(i, u)', FilesDone(u)', pc' \in Walking,
         pc' = "lists" => paths' = <<>> /\ below' = <<>>,
         pc' = "summary" => paths' = <<>> /\ below' = <<>> /\ ~inputsLeft'
  PROVE  WalkInv'
<1>1. /\ opts' = opts /\ Uses' = Uses
  BY SameCommand
<1>2. WalkedTo(i, u)'
  BY DEF WalkedTo
<1>3. \E i2 \in (0..Len(opts.lists))', u2 \in (0..Len(Uses))' : WalkedTo(i2, u2)'
  BY <1>1, <1>2
<1> QED
  BY <1>3 DEF WalkInv, Walking, Busy

\* The walk begins before the first list.
LEMMA ReadOptionsWalk ==
  ASSUME TypeOK, WalkInv, ReadOptions
  PROVE  WalkInv'
<1>1. opened = <<>> /\ paths = <<>> /\ below = <<>> /\ ~stdinUsed
  BY DEF WalkInv, ReadOptions
<1>2. CASE Rejected(raw)
  BY <1>1, <1>2 DEF WalkInv, ReadOptions, Busy
<1>3. CASE ~Rejected(raw)
  <2>1. /\ pc' = "lists" /\ lists' = opts.lists /\ inputsLeft' = TRUE
        /\ UNCHANGED <<raw, disk, paths, below, stdinUsed, opened>>
    BY <1>3 DEF ReadOptions
  <2>2. /\ opts' = opts /\ Uses' = Uses /\ ListUses' = ListUses /\ UseFiles' = UseFiles
        /\ Only' = Only
    BY <2>1, SameCommand
  <2>3. AllSeqs(ListUses, UseRecords, 0) /\ AllSeqs(UseFiles, DOMAIN disk, 0)
    BY DEF AllSeqs
  <2>4. First(ListUses, 0) = <<>> /\ First(UseFiles, 0) = <<>>
    BY <2>3, FirstNext
  <2>5. Len(opts.lists) \in Nat /\ Len(Uses) \in Nat
    BY UsesMeans, FilesMeans
  <2>6. ListsDone(0)'
    BY <2>1, <2>2, <2>5 DEF ListsDone
  <2>7. UsesDone(0, 0)'
    BY <1>1, <2>1, <2>2, <2>4 DEF UsesDone
  <2>8. FilesDone(0)'
    <3>1. <<>> \in Seq(DOMAIN disk) /\ Only \in [DOMAIN disk -> Seq(DOMAIN disk)]
      BY FilesMeans, EmptySeq
    <3>2. FlattenEach(Only, <<>>) = <<>>
      BY FlattenNone
    <3>3. <<>> \o <<>> = <<>>
      BY <3>1, ConcatEmptySeq
    <3> QED
      BY <1>1, <2>1, <2>2, <2>4, <3>2, <3>3 DEF FilesDone
  <2>9. 0 \in 0..Len(opts.lists) /\ 0 \in 0..Len(Uses)
    BY <2>5
  <2>10. pc' \in Walking /\ paths' = <<>> /\ below' = <<>> /\ pc' # "summary"
    BY <1>1, <2>1 DEF Walking
  <2> QED
    BY <2>1, <2>6, <2>7, <2>8, <2>9, <2>10, GotFurther
<1> QED
  BY <1>2, <1>3

\* A list is passed over when it is the standard input again, or its lines come next;
\* after the lists come the inputs, and after the inputs there is nothing left.
LEMMA NextListWalk ==
  ASSUME TypeOK, WalkInv, NextList
  PROVE  WalkInv'
<1>1. /\ pc = "lists" /\ paths = <<>> /\ below = <<>>
      /\ UNCHANGED <<raw, disk, below, opened>>
  BY DEF NextList, WalkInv
<1>2. PICK i \in 0..Len(opts.lists), u \in 0..Len(Uses) : WalkedTo(i, u)
  BY <1>1 DEF WalkInv
<1>3. ListsDone(i) /\ UsesDone(i, u) /\ FilesDone(u)
  BY <1>2 DEF WalkedTo
<1>4. /\ opts' = opts /\ Uses' = Uses /\ ListUses' = ListUses /\ UseFiles' = UseFiles
      /\ Only' = Only /\ Named' = Named
  BY <1>1, SameCommand
<1>5. /\ Len(opts.lists) \in Nat /\ Len(Uses) \in Nat /\ Uses \in Seq(UseRecords)
      /\ i \in Nat /\ u \in Nat
  BY UsesMeans, FilesMeans
<1>6. FilesDone(u)'
  BY <1>1, <1>3, <1>4 DEF FilesDone
<1>7. lists \in Seq(DOMAIN disk) /\ Len(lists) \in Nat
  BY LenProperties DEF TypeOK, WalkTypes
<1>8. u = IF inputsLeft THEN Len(First(ListUses, i)) ELSE Len(Uses)
  BY <1>1, <1>3, <1>5 DEF UsesDone
<1>9. CASE lists # <<>>
  <2> DEFINE l == Head(lists)
             ls == LinesOf(l)
  <2>1. /\ Len(lists) >= 1 /\ l = lists[1] /\ Len(Tail(lists)) = Len(lists) - 1
        /\ \A k \in 1..Len(lists) - 1 : Tail(lists)[k] = lists[k + 1]
    BY <1>7, <1>9, HeadTailProperties, EmptySeq
  <2>2. /\ i + 1 \in 0..Len(opts.lists) /\ i < Len(opts.lists) /\ l = opts.lists[i + 1]
        /\ inputsLeft /\ u = Len(First(ListUses, i))
    BY <1>3, <1>5, <1>7, <1>8, <1>9, <2>1 DEF ListsDone
  <2>3. lists' = Tail(lists) /\ inputsLeft' = inputsLeft
    BY <1>9 DEF NextList
  <2>4. ListsDone(i + 1)'
    <3>1. Len(opts.lists) = i + 1 + Len(Tail(lists))
      <4>1. Len(opts.lists) = i + Len(lists)
        BY <1>3 DEF ListsDone
      <4> DEFINE n == Len(lists)
                 m == Len(Tail(lists))
      <4>2. Len(opts.lists) = i + n /\ m = n - 1 /\ n \in Nat
        BY <1>7, <2>1, <4>1
      <4> HIDE DEF n, m
      <4>3. Len(opts.lists) = i + 1 + m
        BY <1>5, <4>2
      <4> QED
        BY <4>3 DEF m
    <3>2. ASSUME NEW k \in 1..Len(Tail(lists)) PROVE Tail(lists)[k] = opts.lists[i + 1 + k]
      <4>1. k \in 1..Len(lists) - 1 /\ k + 1 \in 1..Len(lists) /\ i + (k + 1) = i + 1 + k
        BY <1>5, <1>7, <2>1
      <4>2. Tail(lists)[k] = lists[k + 1] /\ lists[k + 1] = opts.lists[i + (k + 1)]
        BY <1>3, <2>1, <4>1 DEF ListsDone
      <4> QED
        BY <4>1, <4>2
    <3> QED
      BY <1>4, <2>2, <2>3, <3>1, <3>2 DEF ListsDone
  <2>5. /\ First(ListUses, i) \in Seq(UseRecords)
        /\ \A k \in 1..u : Uses[k] = First(ListUses, i)[k]
        /\ ~ListUsed(i + 1) => First(ListUses, i + 1) = First(ListUses, i)
        /\ ListUsed(i + 1) =>
             /\ Len(First(ListUses, i + 1)) = u + 1 + Len(ls)
             /\ u + 1 + Len(ls) <= Len(Uses)
             /\ Uses[u + 1] = Use("list", l)
             /\ \A k \in 1..Len(ls) : Uses[u + 1 + k] = Use("input", ls[k])
    <3> DEFINE n == Len(First(ListUses, i))
    <3>1. /\ First(ListUses, i) \in Seq(UseRecords)
          /\ \A k \in 1..n : Uses[k] = First(ListUses, i)[k]
          /\ ~ListUsed(i + 1) => First(ListUses, i + 1) = First(ListUses, i)
          /\ ListUsed(i + 1) =>
               /\ Len(First(ListUses, i + 1)) = n + 1 + Len(LinesOf(opts.lists[i + 1]))
               /\ n + 1 + Len(LinesOf(opts.lists[i + 1])) <= Len(Uses)
               /\ Uses[n + 1] = Use("list", opts.lists[i + 1])
               /\ \A k \in 1..Len(LinesOf(opts.lists[i + 1])) :
                    Uses[n + 1 + k] = Use("input", LinesOf(opts.lists[i + 1])[k])
      BY <1>5, <2>2, NextListUses
    <3>2. u = n /\ l = opts.lists[i + 1]
      BY <2>2
    <3> HIDE DEF n, l
    <3> QED
      BY <3>1, <3>2
  <2>6. ListUsed(i + 1) <=> ~StdinAgain(l)
    <3>1. stdinUsed <=> \E j \in 1..u : Uses[j].path = Stdin
      BY <1>3 DEF UsesDone
    <3>2. stdinUsed <=> HasStdin(First(ListUses, i))
      BY <2>2, <2>5, <3>1 DEF HasStdin
    <3>3. HasStdin(First(ListUses, i)) <=> Mentioned(i)
      BY <1>5, StdinNamed
    <3>4. ListUsed(i + 1) <=> ~(l = Stdin /\ Mentioned(i))
      BY <1>5, <2>2, SMTT(60) DEF ListUsed, Mentioned, Mentions
    <3> QED
      BY <3>2, <3>3, <3>4 DEF StdinAgain
  <2>7. CASE StdinAgain(l)
    <3>1. UNCHANGED <<pc, paths, stdinUsed>>
      BY <1>9, <2>7 DEF NextList
    <3>2. First(ListUses, i + 1) = First(ListUses, i)
      BY <2>5, <2>6, <2>7
    <3>3. UsesDone(i + 1, u)'
      BY <1>3, <1>4, <2>3, <3>1, <3>2 DEF UsesDone
    <3> QED
      BY <1>1, <1>6, <2>2, <2>4, <3>1, <3>3, GotFurther DEF Walking
  <2>8. CASE ~StdinAgain(l) /\ disk[l].kind = "absent"
    <3>1. pc' = "gaveUp"
      BY <1>9, <2>8 DEF NextList
    <3>2. StartsWith(Named, opened)
      BY <1>3, WalkedSafely
    <3> QED
      BY <1>1, <1>4, <3>1, <3>2 DEF WalkInv, Busy
  <2>9. CASE ~StdinAgain(l) /\ disk[l].kind # "absent"
    <3>1. pc' = "paths" /\ paths' = ls /\ stdinUsed' = (stdinUsed \/ l = Stdin)
      BY <1>9, <2>9 DEF NextList
    <3>2. ListUsed(i + 1)
      BY <2>6, <2>9
    <3>3. l \in DOMAIN disk /\ ls \in Seq(DOMAIN disk)
      BY <1>5, <2>2, PathsKnown, ElementOfSeq
    <3> HIDE DEF l, ls
    <3>4. PICK n \in Nat : n = Len(ls)
      BY <3>3, LenProperties
    <3>5. /\ Len(First(ListUses, i + 1)) = u + 1 + n /\ u + 1 + n <= Len(Uses)
          /\ Uses[u + 1] = Use("list", l)
          /\ \A k \in 1..n : Uses[u + 1 + k] = Use("input", ls[k])
      BY <2>5, <3>2, <3>4
    <3>6. Uses[u + 1].path = l /\ Uses[u + 1].as = "list"
      BY <3>5 DEF Use
    <3>7. stdinUsed' <=> \E j \in 1..u + 1 : Uses[j].path = Stdin
      <4>1. stdinUsed <=> \E j \in 1..u : Uses[j].path = Stdin
        BY <1>3 DEF UsesDone
      <4> QED
        BY <1>5, <3>1, <3>6, <4>1, 1..u + 1 = 1..u \cup {u + 1}
    <3>8. UsesDone(i + 1, u + 1)'
      BY <1>4, <2>2, <2>3, <3>1, <3>4, <3>5, <3>7 DEF UsesDone
    <3>9. FilesDone(u + 1)'
      <4>1. u < Len(Uses)
        BY <1>5, <3>4, <3>5
      <4>2. First(UseFiles, u + 1) = First(UseFiles, u)
        BY <1>5, <3>6, <4>1, NextUseFiles
      <4> QED
        BY <1>1, <1>3, <1>4, <4>2 DEF FilesDone
    <3>10. u + 1 \in 0..Len(Uses)
      BY <1>5, <3>4, <3>5
    <3> QED
      BY <1>1, <2>2, <2>4, <3>1, <3>8, <3>9, <3>10, GotFurther DEF Walking
  <2> QED
    BY <2>7, <2>8, <2>9
<1>10. CASE lists = <<>> /\ inputsLeft
  <2>1. /\ pc' = "paths" /\ inputsLeft' = FALSE /\ paths' = opts.inputs
        /\ UNCHANGED <<lists, stdinUsed>>
    BY <1>10 DEF NextList
  <2>2. i = Len(opts.lists)
    BY <1>3, <1>5, <1>10 DEF ListsDone
  <2>3. /\ Len(Uses) = u + Len(opts.inputs)
        /\ \A k \in 1..Len(opts.inputs) : Uses[u + k] = Use("input", opts.inputs[k])
    BY <1>8, <1>10, <2>2, UsesMeans
  <2>4. ListsDone(i)'
    BY <1>3, <1>4, <1>10, <2>1 DEF ListsDone
  <2>5. UsesDone(i, u)'
    BY <1>3, <1>4, <2>1, <2>3 DEF UsesDone
  <2> QED
    BY <1>1, <1>6, <2>1, <2>4, <2>5, GotFurther DEF Walking
<1>11. CASE lists = <<>> /\ ~inputsLeft
  <2>1. pc' = "summary" /\ UNCHANGED <<lists, inputsLeft, paths, stdinUsed>>
    BY <1>11 DEF NextList
  <2>2. ListsDone(i)' /\ UsesDone(i, u)'
    BY <1>3, <1>4, <2>1 DEF ListsDone, UsesDone
  <2> QED
    BY <1>1, <1>6, <1>11, <2>1, <2>2, GotFurther DEF Walking
<1> QED
  BY <1>9, <1>10, <1>11 DEF TypeOK, WalkTypes

\* What OpenFile does to the walk: the file is searched, or the search is broken off.
LEMMA OpenFileWalk ==
  ASSUME NEW p, OpenFile(p)
  PROVE  \/ /\ pc' = "failed" /\ opened' = opened
         \/ /\ pc' = "first" /\ opened' = Append(opened, p) /\ disk[p].kind = "file"
BY DEF OpenFile, Opens

\* What is below a path: the path itself if it is a file, and nothing otherwise.
LEMMA OnlyMeans ==
  ASSUME NEW p \in DOMAIN disk
  PROVE  Only[p] = IF disk[p].kind = "file" THEN <<p>> ELSE <<>>
BY DEF Only, FileOnly

\* Appending is concatenating a sequence of one.
LEMMA AppendOne ==
  ASSUME NEW S, NEW s \in Seq(S), NEW e \in S
  PROVE  <<e>> \in Seq(S) /\ s \o <<e>> = Append(s, e)
OBVIOUS

\* In a directory: a directory in it is passed over, a file in it is opened.
LEMMA BelowWalk ==
  ASSUME TypeOK, WalkInv, NextPath, below # <<>>
  PROVE  WalkInv'
<1> DEFINE p == Head(below)
           D == DOMAIN disk
           rest == FlattenEach(Only, Tail(below))
<1>1. /\ pc = "paths" /\ below' = Tail(below)
      /\ UNCHANGED <<raw, disk, lists, inputsLeft, paths, stdinUsed>>
  BY DEF NextPath
<1>2. PICK i \in 0..Len(opts.lists), u \in 0..Len(Uses) : WalkedTo(i, u)
  BY <1>1 DEF WalkInv
<1>3. ListsDone(i) /\ UsesDone(i, u) /\ FilesDone(u)
  BY <1>2 DEF WalkedTo
<1>4. /\ opts' = opts /\ Uses' = Uses /\ ListUses' = ListUses /\ UseFiles' = UseFiles
      /\ Only' = Only /\ Named' = Named
  BY <1>1, SameCommand
<1>5. ListsDone(i)' /\ UsesDone(i, u)'
  BY <1>1, <1>3, <1>4 DEF ListsDone, UsesDone
<1>6. Only \in [D -> Seq(D)] /\ below \in Seq(D) /\ opened \in Seq(D)
  BY FilesMeans DEF TypeOK, WalkTypes
<1>7. /\ p \in D /\ Tail(below) \in Seq(D)
      /\ FlattenEach(Only, below) = Only[p] \o rest
  <2> HIDE DEF D
  <2> QED
    BY <1>6, FlattenEachHead, ZenonT(60)
<1>8. rest \in Seq(D)
  <2> DEFINE t == Tail(below)
  <2>1. t \in Seq(D)
    BY <1>7
  <2> HIDE DEF D, t
  <2>2. FlattenEach(Only, t) \in Seq(D)
    BY <1>6, <2>1, FlattenMap
  <2> QED
    BY <2>2 DEF t
<1>9. Only[p] = IF disk[p].kind = "file" THEN <<p>> ELSE <<>>
  BY <1>7, OnlyMeans
<1>10. opened \o (Only[p] \o rest) = First(UseFiles, u)
  BY <1>3, <1>7 DEF FilesDone
<1>11. FlattenEach(Only, below)' = rest
  BY <1>1, <1>4
<1>12. StartsWith(Named, opened)
  BY <1>3, WalkedSafely
<1> HIDE DEF p, D, rest
<1>13. CASE disk[p].kind = "dir"
  <2>1. UNCHANGED <<pc, opened>>
    BY <1>13 DEF NextPath, p
  <2>2. Only[p] \o rest = rest
    BY <1>8, <1>9, <1>13, ConcatEmptySeq
  <2>3. FilesDone(u)'
    BY <1>4, <1>10, <1>11, <2>1, <2>2 DEF FilesDone
  <2> QED
    BY <1>1, <1>5, <2>1, <2>3, GotFurther DEF Walking
<1>14. CASE disk[p].kind # "dir"
  <2>1. OpenFile(p)
    BY <1>14 DEF NextPath, p
  <2>2. CASE pc' = "failed" /\ opened' = opened
    BY <1>4, <1>12, <2>2 DEF WalkInv, Busy
  <2>3. CASE pc' = "first" /\ opened' = Append(opened, p) /\ disk[p].kind = "file"
    <3>1. Only[p] = <<p>> /\ <<p>> \in Seq(D) /\ opened \o <<p>> = Append(opened, p)
      BY <1>6, <1>7, <1>9, <2>3, AppendOne
    <3>2. opened \o (<<p>> \o rest) = (opened \o <<p>>) \o rest
      <4> DEFINE x == opened
                 y == <<p>>
                 z == rest
      <4>1. x \in Seq(D) /\ y \in Seq(D) /\ z \in Seq(D)
        BY <1>6, <1>8, <3>1
      <4> HIDE DEF x, y, z
      <4>2. (x \o y) \o z = x \o (y \o z)
        BY <4>1, ConcatAssociative, SMTT(60)
      <4> QED
        BY <4>2 DEF x, y, z
    <3>3. FilesDone(u)'
      BY <1>4, <1>10, <1>11, <2>3, <3>1, <3>2 DEF FilesDone
    <3> QED
      BY <1>1, <1>5, <2>3, <3>3, GotFurther DEF Walking, Busy
  <2> QED
    BY <2>1, <2>2, <2>3, OpenFileWalk
<1> QED
  BY <1>13, <1>14

\* The next path of a list or of the inputs is a use: one that is the standard input
\* again is passed over, a directory is walked or passed over, a file is opened.
LEMMA PathWalk ==
  ASSUME TypeOK, WalkInv, NextPath, below = <<>>, paths # <<>>
  PROVE  WalkInv'
<1> DEFINE p == Head(paths)
           D == DOMAIN disk
           ahead == Tail(paths)
<1>1. /\ pc = "paths" /\ paths' = ahead /\ UNCHANGED <<raw, disk, lists, inputsLeft>>
      /\ stdinUsed' = (stdinUsed \/ p = Stdin)
      /\ below' = IF opts.recursive /\ disk[p].kind = "dir" THEN disk[p].below ELSE <<>>
  BY DEF NextPath
<1>2. PICK i \in 0..Len(opts.lists), u \in 0..Len(Uses) : WalkedTo(i, u)
  BY <1>1 DEF WalkInv
<1>3. ListsDone(i) /\ UsesDone(i, u) /\ FilesDone(u)
  BY <1>2 DEF WalkedTo
<1>4. /\ opts' = opts /\ Uses' = Uses /\ ListUses' = ListUses /\ UseFiles' = UseFiles
      /\ Only' = Only /\ Named' = Named
  BY <1>1, SameCommand
<1>5. ListsDone(i)'
  BY <1>1, <1>3, <1>4 DEF ListsDone
<1>6. PICK n \in Nat : n = Len(paths)
  BY LenProperties DEF TypeOK, WalkTypes
<1>7. /\ n >= 1 /\ p = paths[1] /\ Len(ahead) = n - 1 /\ ahead \in Seq(D) /\ p \in D
      /\ \A k \in 1..n - 1 : ahead[k] = paths[k + 1]
  BY <1>6, HeadTailProperties, EmptySeq DEF TypeOK, WalkTypes
<1>8. /\ Len(Uses) \in Nat /\ u \in Nat /\ Len(First(ListUses, i)) \in Nat
      /\ Len(First(ListUses, i)) <= Len(Uses)
  BY ListUsesFit, FilesMeans
<1>9. /\ u + n = IF inputsLeft THEN Len(First(ListUses, i)) ELSE Len(Uses)
      /\ \A k \in 1..n : Uses[u + k] = Use("input", paths[k])
      /\ stdinUsed <=> \E j \in 1..u : Uses[j].path = Stdin
  BY <1>3, <1>6 DEF UsesDone
<1>10. u < Len(Uses) /\ u + 1 \in 0..Len(Uses) /\ Uses[u + 1] = Use("input", p)
  BY <1>7, <1>8, <1>9, SMTT(60)
<1>11. Uses[u + 1].path = p /\ Uses[u + 1].as = "input"
  BY <1>10 DEF Use
<1> HIDE DEF p, ahead
<1> DEFINE f == First(UseFiles, u)
<1>12. UsesDone(i, u + 1)'
  <2>1. stdinUsed' <=> \E j \in 1..u + 1 : Uses[j].path = Stdin
    BY <1>1, <1>8, <1>9, <1>11, 1..u + 1 = 1..u \cup {u + 1}
  <2>2. u + 1 + Len(ahead) = IF inputsLeft THEN Len(First(ListUses, i)) ELSE Len(Uses)
    <3>1. u + 1 + Len(ahead) = u + n
      BY <1>7, <1>8
    <3> QED
      BY <1>9, <3>1
  <2>3. ASSUME NEW k \in 1..Len(ahead) PROVE Uses[u + 1 + k] = Use("input", ahead[k])
    <3>1. k \in 1..n - 1 /\ k + 1 \in 1..n /\ u + (k + 1) = u + 1 + k
      BY <1>7, <1>8
    <3>2. Uses[u + (k + 1)] = Use("input", paths[k + 1]) /\ ahead[k] = paths[k + 1]
      BY <1>7, <1>9, <3>1
    <3> QED
      BY <3>1, <3>2
  <2> QED
    BY <1>1, <1>4, <2>1, <2>2, <2>3 DEF UsesDone
<1>13. /\ f \in Seq(D)
       /\ First(UseFiles, u + 1) =
            IF p = Stdin /\ (\E j \in 1..u : Uses[j].path = Stdin) THEN f ELSE f \o FilesUnder(p)
  BY <1>8, <1>10, <1>11, NextUseFiles
<1>14. First(UseFiles, u + 1) = IF StdinAgain(p) THEN f ELSE f \o FilesUnder(p)
  BY <1>9, <1>13 DEF StdinAgain
<1>15. opened = f /\ opened \in Seq(D) /\ opened \o <<>> = opened
  <2>1. opened \in Seq(D) /\ opened \o <<>> = opened
    BY ConcatEmptySeq DEF TypeOK, WalkTypes
  <2>2. FlattenEach(Only, below) = <<>>
    BY FlattenNone
  <2>3. opened \o FlattenEach(Only, below) = f
    BY <1>3 DEF FilesDone
  <2> QED
    BY <2>1, <2>2, <2>3
<1>16. FilesUnder(p) = IF disk[p].kind = "dir" /\ opts.recursive
                       THEN FlattenEach(Only, disk[p].below) ELSE Only[p]
  BY <1>7, FilesMeans
<1>17. Only[p] = IF disk[p].kind = "file" THEN <<p>> ELSE <<>>
  BY <1>7, OnlyMeans
<1>18. StartsWith(Named, opened)
  BY <1>3, WalkedSafely
<1>19. below' = <<>> => FlattenEach(Only', below') = <<>>
  BY FlattenNone
<1> HIDE DEF f, D
<1>20. CASE StdinAgain(p)
  <2>1. disk \in Disks /\ disk[p].kind = "file"
    BY <1>7, <1>20, DisksAssumption DEF TypeOK, WalkTypes, StdinAgain, D
  <2>2. UNCHANGED <<pc, opened>>
    BY <1>20 DEF NextPath, p
  <2>3. below' = <<>>
    BY <1>1, <2>1
  <2>4. FilesDone(u + 1)'
    BY <1>4, <1>14, <1>15, <1>19, <1>20, <2>2, <2>3 DEF FilesDone
  <2> QED
    BY <1>1, <1>5, <1>10, <1>12, <2>2, <2>4, GotFurther DEF Walking
<1>21. CASE ~StdinAgain(p) /\ disk[p].kind = "dir"
  <2>1. UNCHANGED <<pc, opened>>
    BY <1>21 DEF NextPath, p
  <2>2. FlattenEach(Only', below') = FilesUnder(p)
    BY <1>1, <1>4, <1>16, <1>17, <1>19, <1>21
  <2>3. FilesDone(u + 1)'
    BY <1>4, <1>14, <1>15, <1>21, <2>1, <2>2 DEF FilesDone
  <2> QED
    BY <1>1, <1>5, <1>10, <1>12, <2>1, <2>3, GotFurther DEF Walking
<1>22. CASE ~StdinAgain(p) /\ disk[p].kind # "dir"
  <2>1. OpenFile(p) /\ below' = <<>>
    BY <1>22 DEF NextPath, p
  <2>2. CASE pc' = "failed" /\ opened' = opened
    BY <1>4, <1>18, <2>2 DEF WalkInv, Busy
  <2>3. CASE pc' = "first" /\ opened' = Append(opened, p) /\ disk[p].kind = "file"
    <3>1. Append(opened, p) \in Seq(D) /\ opened \o <<p>> = Append(opened, p)
      BY <1>7, <1>15, AppendOne
    <3>2. Append(opened, p) \o <<>> = Append(opened, p)
      BY <3>1, ConcatEmptySeq
    <3>3. First(UseFiles, u + 1) = Append(opened, p)
      BY <1>14, <1>15, <1>16, <1>17, <1>22, <2>3, <3>1
    <3>4. FilesDone(u + 1)'
      BY <1>4, <1>19, <2>1, <2>3, <3>2, <3>3 DEF FilesDone
    <3> QED
      BY <1>1, <1>5, <1>10, <1>12, <2>3, <3>4, GotFurther DEF Walking, Busy
  <2> QED
    BY <2>1, <2>2, <2>3, OpenFileWalk
<1> QED
  BY <1>20, <1>21, <1>22

\* After the last path of a list, the next list.
LEMMA NextPathWalk ==
  ASSUME TypeOK, WalkInv, NextPath
  PROVE  WalkInv'
<1>1. CASE below = <<>> /\ paths = <<>>
  <2>1. pc = "paths" /\ pc' = "lists" /\ UNCHANGED <<raw, disk, walk, opened>>
    BY <1>1 DEF NextPath, walk
  <2>2. PICK i \in 0..Len(opts.lists), u \in 0..Len(Uses) : WalkedTo(i, u)
    BY <2>1 DEF WalkInv
  <2>3. /\ opts' = opts /\ Uses' = Uses /\ ListUses' = ListUses /\ UseFiles' = UseFiles
        /\ Only' = Only
    BY <2>1, SameCommand
  <2>4. ListsDone(i)' /\ UsesDone(i, u)' /\ FilesDone(u)'
    BY <2>1, <2>2, <2>3 DEF WalkedTo, ListsDone, UsesDone, FilesDone, walk
  <2> QED
    BY <1>1, <2>1, <2>4, GotFurther DEF Walking, walk
<1> QED
  BY <1>1, BelowWalk, PathWalk

\* No step disturbs the walk.
LEMMA NextWalk ==
  ASSUME TypeOK, WalkInv, [Next]_vars
  PROVE  WalkInv'
<1>1. CASE ReadOptions
  BY <1>1, ReadOptionsWalk
<1>2. CASE NextList
  BY <1>2, NextListWalk
<1>3. CASE NextPath
  BY <1>3, NextPathWalk
<1>4. CASE FirstRead
  BY <1>4, StaysPut DEF FirstRead, Walking, Busy
<1>5. CASE GetBlock
  BY <1>5, StaysPut DEF GetBlock, Walking, Busy
<1>6. CASE Prefetch
  BY <1>6, StaysPut DEF Prefetch, Walking, Busy
<1>7. CASE SearchByte
  BY <1>7, StaysPut DEF SearchByte, Walking, Busy
<1>8. CASE EndSearch
  BY <1>8, StaysPut DEF EndSearch, Walking, Busy
<1>9. CASE ReportHit
  BY <1>9, StaysPut DEF ReportHit, Walking, Busy
<1>10. CASE LastSearch
  BY <1>10, StaysPut DEF LastSearch, Walking, Busy
<1>11. CASE CloseOut
  BY <1>11, StaysPut DEF CloseOut, Walking, Busy
<1>12. ASSUME UNCHANGED <<raw, disk, pc, walk, opened>> PROVE WalkInv'
  <2>1. /\ opts' = opts /\ Uses' = Uses /\ ListUses' = ListUses /\ UseFiles' = UseFiles
        /\ Only' = Only /\ Named' = Named
    BY <1>12, SameCommand
  <2> QED
    BY <1>12, <2>1, ZenonT(60) DEF WalkInv, WalkedTo, ListsDone, UsesDone, FilesDone, walk
<1>13. CASE ReaderStep
  BY <1>12, <1>13 DEF ReaderStep, ReadByte, EndRead
<1>14. CASE UNCHANGED vars
  BY <1>12, <1>14 DEF vars
<1> QED
  BY <1>1, <1>2, <1>3, <1>4, <1>5, <1>6, <1>7, <1>8, <1>9, <1>10, <1>11, <1>13, <1>14
  DEF Next, MainStep, Stopped

\* Files are opened in the order in which the command line names them, and a search
\* that reaches its summary has opened them all: main.cpp's search() loses no list,
\* path or entry of a directory, and reads the standard input once.
THEOREM OpenedInOrderAlways == Spec => []OpenedInOrder
<1>1. Init => WalkInv
  BY DEF Init, WalkInv, Busy
<1>2. Inv /\ WalkInv /\ [Next]_vars => WalkInv'
  BY NextWalk DEF Inv
<1>3. Inv /\ WalkInv => OpenedInOrder
  <2> SUFFICES ASSUME Inv, WalkInv PROVE OpenedInOrder
    OBVIOUS
  <2>1. TypeOK
    BY DEF Inv
  <2>2. opened \in Seq(DOMAIN disk) /\ Named \in Seq(DOMAIN disk)
    BY <2>1, FilesMeans DEF TypeOK, WalkTypes
  <2>3. StartsWith(Named, opened)
    <3>1. CASE pc \in Walking
      <4>1. PICK i \in 0..Len(opts.lists), u \in 0..Len(Uses) : WalkedTo(i, u)
        BY <3>1 DEF WalkInv, Walking
      <4> QED
        BY <2>1, <4>1, WalkedSafely DEF WalkedTo
    <3>2. CASE pc \in {"options", "usage"}
      BY <2>2, <3>2, LenProperties, Len(<<>>) = 0 DEF WalkInv, StartsWith
    <3>3. CASE pc \in {"gaveUp", "failed"}
      BY <3>3 DEF WalkInv
    <3> QED
      BY <2>1, <3>1, <3>2, <3>3 DEF TypeOK, WalkTypes, Walking, Busy, Ended
  <2>4. IsPrefix(opened, Named)
    BY <2>2, <2>3, StartsWithIsPrefix
  <2>5. ASSUME pc = "summary" PROVE opened = Named
    <3>1. PICK i \in 0..Len(opts.lists), u \in 0..Len(Uses) : WalkedTo(i, u)
      BY <2>5 DEF WalkInv
    <3>2. paths = <<>> /\ below = <<>> /\ ~inputsLeft
      BY <2>5 DEF WalkInv
    <3>3. u = Len(Uses)
      <4>1. u + Len(paths) = Len(Uses)
        BY <3>1, <3>2 DEF WalkedTo, UsesDone
      <4> QED
        BY <3>2, <4>1, Len(<<>>) = 0
    <3>4. opened \o FlattenEach(Only, below) = Named
      BY <2>1, <3>1, <3>3, FilesMeans DEF WalkedTo, FilesDone
    <3>5. FlattenEach(Only, below) = <<>> /\ opened \o <<>> = opened
      BY <2>2, <3>2, FlattenNone, ConcatEmptySeq
    <3> QED
      BY <3>4, <3>5
  <2> QED
    BY <2>4, <2>5 DEF OpenedInOrder
<1> QED
  BY <1>1, <1>2, <1>3, Invariance, PTL DEF Spec
-----------------------------------------------------------------------------
(* What the searches for line ends around a hit find (hitwriter.cpp): for  *)
(* every buffer, hit in it and number of lines, the context that is        *)
(* written is made of whole lines, as many as were asked for and no more.  *)

\* The line ends of a part of a buffer, counted.
Ends(b, from, to) == Cardinality(LineEnds(b, from, to))

\* There are finitely many, a natural number of them, and none in an empty part.
LEMMA EndsType ==
  ASSUME NEW b, NEW from \in Int, NEW to \in Int
  PROVE  /\ IsFiniteSet(LineEnds(b, from, to)) /\ Ends(b, from, to) \in Nat
         /\ to <= from => Ends(b, from, to) = 0
<1>1. IsFiniteSet(from..to - 1) /\ LineEnds(b, from, to) \subseteq from..to - 1
  BY FS_Interval DEF LineEnds
<1>2. IsFiniteSet(LineEnds(b, from, to))
  BY <1>1, FS_Subset
<1>3. to <= from => LineEnds(b, from, to) = {}
  BY DEF LineEnds
<1> QED
  BY <1>2, <1>3, FS_CardinalityType, FS_EmptySet DEF Ends

\* A part is counted piece by piece.
LEMMA EndsSplit ==
  ASSUME NEW b, NEW from \in Int, NEW mid \in Int, NEW to \in Int, from <= mid, mid <= to
  PROVE  Ends(b, from, to) = Ends(b, from, mid) + Ends(b, mid, to)
<1> DEFINE X == LineEnds(b, from, mid)
           Y == LineEnds(b, mid, to)
<1>1. X \cup Y = LineEnds(b, from, to) /\ X \cap Y = {}
  BY DEF LineEnds
<1>2. IsFiniteSet(X) /\ IsFiniteSet(Y) /\ Cardinality(X) \in Nat /\ Cardinality(Y) \in Nat
  BY EndsType DEF Ends
<1>5. /\ Ends(b, from, mid) = Cardinality(X) /\ Ends(b, mid, to) = Cardinality(Y)
      /\ Ends(b, from, to) = Cardinality(X \cup Y)
  BY <1>1 DEF Ends
<1> HIDE DEF X, Y
<1>3. Cardinality(X \cup Y) = Cardinality(X) + Cardinality(Y) - Cardinality(X \cap Y)
  BY <1>2, FS_Union
<1>4. Cardinality(X \cap Y) = 0
  BY <1>1, FS_EmptySet
<1> QED
  BY <1>2, <1>3, <1>4, <1>5

\* One byte has one line end or none.
LEMMA EndsOne ==
  ASSUME NEW b, NEW p \in Int
  PROVE  Ends(b, p, p + 1) = IF b[p + 1] = NL THEN 1 ELSE 0
<1>1. LineEnds(b, p, p + 1) = IF b[p + 1] = NL THEN {p} ELSE {}
  <2>1. p..(p + 1) - 1 = {p}
    OBVIOUS
  <2> QED
    BY <2>1 DEF LineEnds
<1> QED
  BY <1>1, FS_Singleton, FS_EmptySet DEF Ends

\* The number of the line of a position grows by one past a line end, and never falls.
LEMMA EndsNext ==
  ASSUME NEW b, NEW from \in Int, NEW p \in Int, from <= p
  PROVE  Ends(b, from, p + 1) = Ends(b, from, p) + IF b[p + 1] = NL THEN 1 ELSE 0
<1>1. Ends(b, from, p + 1) = Ends(b, from, p) + Ends(b, p, p + 1)
  BY EndsSplit
<1> QED
  BY <1>1, EndsOne, EndsType

\* Further along in a buffer there are no fewer line ends behind.
LEMMA EndsMonotonic ==
  ASSUME NEW b, NEW from \in Int, NEW p \in Int, NEW q \in Int, from <= p, p <= q
  PROVE  Ends(b, from, p) <= Ends(b, from, q)
<1>1. Ends(b, from, q) = Ends(b, from, p) + Ends(b, p, q)
  BY EndsSplit
<1>2. Ends(b, from, p) \in Nat /\ Ends(b, p, q) \in Nat
  BY EndsType
<1> QED
  BY <1>1, <1>2

\* b holds n bytes of c, from an offset on.
Shifted(b, c, off, n) == \A k \in 0..n - 1 : b[k + 1] = c[off + k + 1]

\* Parts of two buffers that hold the same bytes have as many line ends.
LEMMA EndsShifted ==
  ASSUME NEW b, NEW c, NEW off \in Int, NEW n \in Nat, Shifted(b, c, off, n),
         NEW x \in 0..n, NEW y \in x..n
  PROVE  Ends(b, x, y) = Ends(c, off + x, off + y)
<1> DEFINE T == {k \in Nat : x + k <= n => Ends(b, x, x + k) = Ends(c, off + x, off + x + k)}
<1>1. 0 \in T
  BY EndsType
<1>2. ASSUME NEW k \in T PROVE k + 1 \in T
  <2> SUFFICES ASSUME x + k + 1 <= n
               PROVE  Ends(b, x, x + k + 1) = Ends(c, off + x, off + x + k + 1)
    OBVIOUS
  <2>1. Ends(b, x, x + k) = Ends(c, off + x, off + x + k)
    OBVIOUS
  <2>2. b[x + k + 1] = c[off + (x + k) + 1] /\ off + (x + k) + 1 = off + x + k + 1
    BY DEF Shifted
  <2>3. /\ Ends(b, x, (x + k) + 1) = Ends(b, x, x + k) + IF b[(x + k) + 1] = NL THEN 1 ELSE 0
        /\ Ends(c, off + x, (off + x + k) + 1)
             = Ends(c, off + x, off + x + k) + IF c[(off + x + k) + 1] = NL THEN 1 ELSE 0
    BY EndsNext
  <2> QED
    BY <2>1, <2>2, <2>3
<1>3. T \subseteq Nat
  OBVIOUS
<1> HIDE DEF T
<1>4. \A k \in Nat : k \in T
  BY <1>1, <1>2, <1>3, InductionOnNat
<1>5. y - x \in T
  BY <1>4
<1> QED
  BY <1>5 DEF T

-----------------------------------------------------------------------------
\* Among more than n line ends to the left of a position there is one with n between.
LEMMA LeadingEnd ==
  ASSUME NEW b, NEW h \in Nat, NEW n \in Nat, Ends(b, 0, h) > n
  PROVE  \E p \in LineEnds(b, 0, h) : Ends(b, p + 1, h) = n
<1> DEFINE T == {m \in Nat : m <= h /\ Ends(b, m, h) <= n}
<1>1. h \in T
  BY EndsType
<1>2. PICK m \in T : \A k \in T : m <= k
  BY <1>1, LeastNatural
<1>3. m # 0
  <2>1. Ends(b, m, h) <= n
    BY <1>2
  <2> QED
    BY <2>1, EndsType
<1> DEFINE p == m - 1
<1>4. p \in Nat /\ p < h /\ p + 1 = m /\ p \notin T
  BY <1>2, <1>3
<1>5. Ends(b, p, h) > n /\ Ends(b, p + 1, h) <= n
  BY <1>2, <1>4, EndsType
<1>6. Ends(b, p, h) = Ends(b, p, p + 1) + Ends(b, p + 1, h)
  BY <1>4, EndsSplit
<1>7. Ends(b, p, p + 1) = IF b[p + 1] = NL THEN 1 ELSE 0
  BY <1>4, EndsOne
<1>8. Ends(b, p + 1, h) \in Nat
  BY <1>4, EndsType
<1>9. b[p + 1] = NL /\ Ends(b, p + 1, h) = n
  BY <1>5, <1>6, <1>7, <1>8
<1>10. p \in LineEnds(b, 0, h)
  BY <1>4, <1>9 DEF LineEnds
<1> QED
  BY <1>9, <1>10

\* The same to the right.
LEMMA TrailingEnd ==
  ASSUME NEW b, NEW from \in Nat, NEW to \in Nat, NEW n \in Nat, Ends(b, from, to) > n
  PROVE  \E p \in LineEnds(b, from, to) : Ends(b, from, p) = n
<1> DEFINE T == {m \in Nat : from <= m /\ m <= to /\ Ends(b, from, m) > n}
<1>0. from <= to
  BY EndsType
<1>1. to \in T
  BY <1>0
<1>2. PICK m \in T : \A k \in T : m <= k
  BY <1>1, LeastNatural
<1>3. m # from
  BY <1>2, EndsType
<1> DEFINE p == m - 1
<1>4. p \in Nat /\ from <= p /\ p < to /\ p + 1 = m /\ p \notin T
  BY <1>2, <1>3
<1>5. Ends(b, from, p) <= n /\ Ends(b, from, p + 1) > n
  BY <1>2, <1>4, EndsType
<1>6. Ends(b, from, p + 1) = Ends(b, from, p) + IF b[p + 1] = NL THEN 1 ELSE 0
  BY <1>4, EndsNext
<1>7. Ends(b, from, p) \in Nat
  BY <1>4, EndsType
<1>8. b[p + 1] = NL /\ Ends(b, from, p) = n
  BY <1>5, <1>6, <1>7
<1>9. p \in LineEnds(b, from, to)
  BY <1>4, <1>8 DEF LineEnds
<1> QED
  BY <1>8, <1>9

\* find_leading_context: what it returns is the start of a line or of the buffer, and
\* a position is at or after it just if no more than n lines are between it and the
\* line of the hit (hitwriter.cpp:83-95).
LEMMA LeadingContext ==
  ASSUME NEW b, NEW h \in Nat, NEW n \in Nat
  PROVE  LET begin == FindLeadingContext(b, h, n)
         IN  /\ begin \in 0..h
             /\ \A q \in Nat : begin <= q <=> Ends(b, 0, q) >= Ends(b, 0, h) - n
<1> DEFINE nls == LineEnds(b, 0, h)
           begin == FindLeadingContext(b, h, n)
<1>1. CASE Ends(b, 0, h) <= n
  <2>1. begin = 0
    BY <1>1 DEF FindLeadingContext, Ends
  <2>2. \A q \in Nat : Ends(b, 0, q) \in Nat
    BY EndsType
  <2>3. Ends(b, 0, h) \in Nat
    BY EndsType
  <2> QED
    BY <1>1, <2>1, <2>2, <2>3
<1>2. CASE ~(Ends(b, 0, h) <= n)
  <2> DEFINE p == CHOOSE x \in nls : Cardinality({q \in nls : q > x}) = n
  <2>1. \A x \in nls : {q \in nls : q > x} = LineEnds(b, x + 1, h)
    BY DEF LineEnds
  <2>2. \E x \in nls : Ends(b, x + 1, h) = n
    BY <1>2, LeadingEnd, EndsType
  <2>3. p \in nls /\ Ends(b, p + 1, h) = n
    BY <2>1, <2>2 DEF Ends
  <2>4. begin = 1 + p
    BY <1>2 DEF FindLeadingContext, Ends
  <2> HIDE DEF p, begin
  <2>5. p \in 0..h - 1 /\ b[p + 1] = NL
    BY <2>3 DEF LineEnds
  <2>6. /\ Ends(b, 0, h) = Ends(b, 0, p + 1) + n
        /\ Ends(b, 0, p + 1) = Ends(b, 0, p) + 1
        /\ Ends(b, 0, p) \in Nat
    BY <2>3, <2>5, EndsSplit, EndsNext, EndsType
  <2>7. ASSUME NEW q \in Nat PROVE begin <= q <=> Ends(b, 0, q) >= Ends(b, 0, h) - n
    <3>1. CASE p + 1 <= q
      <4>1. Ends(b, 0, p + 1) <= Ends(b, 0, q)
        BY <2>5, <3>1, EndsMonotonic
      <4> QED
        BY <2>4, <2>5, <2>6, <3>1, <4>1, EndsType
    <3>2. CASE q <= p
      <4>1. Ends(b, 0, q) <= Ends(b, 0, p)
        BY <2>5, <3>2, EndsMonotonic
      <4> QED
        BY <2>4, <2>5, <2>6, <3>2, <4>1, EndsType
    <3> QED
      BY <2>5, <3>1, <3>2
  <2> QED
    BY <2>4, <2>5, <2>7 DEF begin
<1> QED
  BY <1>1, <1>2, EndsType

\* The line of the byte after a position is a natural number, and one more past a line end.
LEMMA LineNext ==
  ASSUME NEW b, NEW q \in Nat
  PROVE  /\ Ends(b, 0, q) \in Nat /\ Ends(b, 0, q + 1) \in Nat
         /\ Ends(b, 0, q + 1) = Ends(b, 0, q) + IF b[q + 1] = NL THEN 1 ELSE 0
<1>1. Ends(b, 0, q) \in Nat /\ Ends(b, 0, q + 1) \in Nat
  BY EndsType
<1>2. Ends(b, 0, q + 1) = Ends(b, 0, q) + IF b[q + 1] = NL THEN 1 ELSE 0
  BY EndsNext
<1> QED
  BY <1>1, <1>2

\* find_trailing_context: what it returns is after the hit and in the buffer, and a
\* position is before it just if no more than n lines are between it and the line of
\* the hit, the end of the last line apart: the line end itself, and a CR in front of
\* it (hitwriter.cpp:97-116).
LastEnd(b, p) == b[p + 1] = NL \/ (b[p + 1] = CR /\ p + 1 < Len(b) /\ b[p + 2] = NL)

\* The two bounds of find_trailing_context, for every buffer, hit and number of lines.
LEMMA TrailingContext ==
  ASSUME NEW b, NEW len \in Nat, len = Len(b), NEW before, NEW h \in Nat \ {0}, h <= len, NEW n \in Nat
  PROVE  LET end == FindTrailingContext(b, before, h, n)
             bottom == Ends(b, 0, h) + n
         IN  /\ end \in 0..len /\ end >= h - 1
             /\ \A q \in 0..len - 1 :
                  q < end <=> Ends(b, 0, q) <= bottom /\ ~(Ends(b, 0, q) = bottom /\ LastEnd(b, q))
<1> DEFINE nls == LineEnds(b, h, len)
           end == FindTrailingContext(b, before, h, n)
           bottom == Ends(b, 0, h) + n
<1>n. NL # CR
  BY DEF NL, CR
<1>0. /\ bottom \in Nat /\ Ends(b, 0, h) <= bottom /\ Ends(b, h, len) \in Nat
      /\ Ends(b, 0, len) = Ends(b, 0, h) + Ends(b, h, len)
  BY EndsType, EndsSplit
<1>1. CASE Ends(b, h, len) <= n
  <2>1. end = len
    BY <1>1 DEF FindTrailingContext, Ends
  <2>2. ASSUME NEW q \in 0..len - 1
        PROVE  Ends(b, 0, q) <= bottom /\ ~(Ends(b, 0, q) = bottom /\ LastEnd(b, q))
    <3>0. q \in Nat /\ q + 1 \in Nat
      OBVIOUS
    <3>1. /\ Ends(b, 0, q) \in Nat /\ Ends(b, 0, q + 1) \in Nat
          /\ Ends(b, 0, q + 1) = Ends(b, 0, q) + IF b[q + 1] = NL THEN 1 ELSE 0
      BY <3>0, LineNext
    <3>2. Ends(b, 0, q + 1) <= Ends(b, 0, len) /\ Ends(b, 0, len) <= bottom
      <4>1. 0 <= q + 1 /\ q + 1 <= len
        OBVIOUS
      <4>2. Ends(b, 0, q + 1) <= Ends(b, 0, len)
        BY <3>0, <4>1, EndsMonotonic
      <4>3. Ends(b, 0, h) \in Nat
        BY EndsType
      <4> QED
        BY <1>0, <1>1, <4>2, <4>3
    <3>3. CASE q + 1 < len
      <4>1. /\ Ends(b, 0, (q + 1) + 1) \in Nat
            /\ Ends(b, 0, (q + 1) + 1) = Ends(b, 0, q + 1) + IF b[(q + 1) + 1] = NL THEN 1 ELSE 0
        BY <3>0, LineNext
      <4>2. Ends(b, 0, (q + 1) + 1) <= Ends(b, 0, len)
        BY <3>3, EndsMonotonic
      <4>3. (q + 1) + 1 = q + 2
        OBVIOUS
      <4>4. LastEnd(b, q) => b[q + 1] = NL \/ b[(q + 1) + 1] = NL
        BY <4>3 DEF LastEnd
      <4>5. Ends(b, 0, len) \in Nat
        BY EndsType
      <4> QED
        BY <1>0, <3>1, <3>2, <4>1, <4>2, <4>4, <4>5, SMTT(60)
    <3>4. CASE ~(q + 1 < len)
      BY <1>0, <3>1, <3>2, <3>4 DEF LastEnd
    <3> QED
      BY <3>3, <3>4
  <2> QED
    BY <2>1, <2>2
<1>2. CASE ~(Ends(b, h, len) <= n)
  <2> DEFINE p == CHOOSE x \in nls : Cardinality({q \in nls : q < x}) = n
  <2>1. \A x \in nls : {q \in nls : q < x} = LineEnds(b, h, x)
    BY DEF LineEnds
  <2>2. \E x \in nls : Ends(b, h, x) = n
    BY <1>0, <1>2, TrailingEnd
  <2>3. p \in nls /\ Ends(b, h, p) = n
    BY <2>1, <2>2 DEF Ends
  <2>5. p \in h..len - 1 /\ b[p + 1] = NL
    BY <2>3 DEF LineEnds
  <2>4. end = IF b[p] = CR THEN p - 1 ELSE p
    <3>1. p # len /\ p # 0
      <4> HIDE DEF p
      <4> QED
        BY <2>5
    <3>2. end = LET prev == IF p = 0 THEN before ELSE b[p]
                IN  IF p # len /\ prev = CR THEN p - 1 ELSE p
      BY <1>2 DEF FindTrailingContext, Ends
    <3> HIDE DEF p, end
    <3> QED
      BY <3>1, <3>2
  <2> HIDE DEF p, end
  <2>6. Ends(b, 0, p) = bottom /\ Ends(b, 0, p + 1) = bottom + 1 /\ Ends(b, 0, p) = Ends(b, 0, p - 1) + IF b[p] = NL THEN 1 ELSE 0
    <3>1. Ends(b, 0, p) = bottom
      BY <2>3, <2>5, EndsSplit
    <3>2. Ends(b, 0, p + 1) = Ends(b, 0, p) + IF b[p + 1] = NL THEN 1 ELSE 0
      BY <2>5, EndsNext
    <3>3. Ends(b, 0, (p - 1) + 1) = Ends(b, 0, p - 1) + IF b[(p - 1) + 1] = NL THEN 1 ELSE 0
      BY <2>5, EndsNext, SMTT(60)
    <3> QED
      BY <2>5, <3>1, <3>2, <3>3
  <2>7. ASSUME NEW q \in 0..len - 1
        PROVE  q < end <=> Ends(b, 0, q) <= bottom /\ ~(Ends(b, 0, q) = bottom /\ LastEnd(b, q))
    <3>q. q \in Nat /\ q + 1 \in Nat
      OBVIOUS
    <3>0. /\ Ends(b, 0, q) \in Nat /\ Ends(b, 0, q + 1) \in Nat
          /\ Ends(b, 0, q + 1) = Ends(b, 0, q) + IF b[q + 1] = NL THEN 1 ELSE 0
      BY <3>q, LineNext
    <3>1. CASE q > p
      <4>1. Ends(b, 0, p + 1) <= Ends(b, 0, q)
        BY <2>5, <3>1, EndsMonotonic
      <4> QED
        BY <1>0, <2>4, <2>5, <2>6, <3>0, <3>1, <4>1, SMTT(60)
    <3>2. CASE q = p
      BY <1>0, <2>4, <2>5, <2>6, <3>2, <1>n DEF LastEnd
    <3>3. CASE q < p - 1
      <4>1. Ends(b, 0, q + 1) <= Ends(b, 0, p) /\ Ends(b, 0, (q + 1) + 1) <= Ends(b, 0, p)
        BY <2>5, <3>3, EndsMonotonic
      <4>2. Ends(b, 0, (q + 1) + 1) = Ends(b, 0, q + 1) + IF b[(q + 1) + 1] = NL THEN 1 ELSE 0
        BY EndsNext, SMTT(60)
      <4>3. q + 2 = (q + 1) + 1
        OBVIOUS
      <4> QED
        BY <1>0, <2>4, <2>5, <2>6, <3>0, <3>3, <4>1, <4>2, <4>3, <1>n, SMTT(60) DEF LastEnd
    <3>4. CASE q = p - 1
      <4>1. q + 1 = p /\ q + 2 = p + 1
        BY <2>5, <3>4
      <4> QED
        BY <1>0, <2>4, <2>5, <2>6, <3>0, <3>4, <4>1, <1>n, SMTT(60) DEF LastEnd
    <3> QED
      BY <2>5, <3>1, <3>2, <3>3, <3>4
  <2> QED
    BY <2>4, <2>5, <2>7 DEF end
<1> QED
  BY <1>1, <1>2

\* p is on a line near enough to the hit's, and is not the end of the last one.
Near(c, from, to, s, e, n, m, p) ==
  /\ Ends(c, from, s) - n <= Ends(c, from, p)
  /\ Ends(c, from, p) <= Ends(c, from, e) + m
  /\ ~(Ends(c, from, p) = Ends(c, from, e) + m
       /\ (c[p + 1] = NL \/ (c[p + 1] = CR /\ p + 1 < to /\ c[p + 2] = NL)))

\* The context that is written, in the positions of the file (hitwriter.cpp:133-151).
LEMMA ContextOfHit ==
  ASSUME NEW b, NEW c, NEW off \in Nat, NEW len \in Nat, len = Len(b), Shifted(b, c, off, len),
         NEW before, NEW s \in Nat, NEW e \in Nat, off <= s, s < e, e <= off + len,
         NEW n \in Nat, NEW m \in Nat
  PROVE  LET begin == off + FindLeadingContext(b, s - off, n)
             end == off + FindTrailingContext(b, before, e - off, m)
         IN  /\ begin \in Nat /\ end \in Nat /\ off <= begin /\ end <= off + len
             /\ \A p \in off..off + len - 1 :
                  begin <= p /\ p < end <=> Near(c, off, off + len, s, e, n, m, p)
<1> DEFINE h0 == s - off
           h1 == e - off
           lead == FindLeadingContext(b, h0, n)
           trail == FindTrailingContext(b, before, h1, m)
<1>1. h0 \in Nat /\ h1 \in Nat \ {0} /\ h1 <= len /\ off + h0 = s /\ off + h1 = e /\ h0 <= len
  OBVIOUS
<1>2. \A x \in 0..len : Ends(b, 0, x) = Ends(c, off, off + x)
  <2>1. \A x \in 0..len : Ends(b, 0, x) = Ends(c, off + 0, off + x)
    BY EndsShifted
  <2>2. off + 0 = off
    OBVIOUS
  <2> QED
    BY <2>1, <2>2
<1> HIDE DEF h0, h1
<1>3. Ends(b, 0, h0) = Ends(c, off, s) /\ Ends(b, 0, h1) = Ends(c, off, e)
  <2>1. h0 \in 0..len /\ h1 \in 0..len
    BY <1>1
  <2>2. Ends(b, 0, h0) = Ends(c, off, off + h0) /\ Ends(b, 0, h1) = Ends(c, off, off + h1)
    BY <1>2, <2>1
  <2> QED
    BY <1>1, <2>2
<1>4. /\ lead \in 0..h0
      /\ \A q \in Nat : lead <= q <=> Ends(b, 0, q) >= Ends(b, 0, h0) - n
  BY <1>1, LeadingContext
<1>5. /\ trail \in 0..len
      /\ \A q \in 0..len - 1 :
           q < trail <=> /\ Ends(b, 0, q) <= Ends(b, 0, h1) + m
                         /\ ~(Ends(b, 0, q) = Ends(b, 0, h1) + m /\ LastEnd(b, q))
  BY <1>1, TrailingContext
<1> HIDE DEF lead, trail
<1>6. ASSUME NEW p \in off..off + len - 1
      PROVE  off + lead <= p /\ p < off + trail <=> Near(c, off, off + len, s, e, n, m, p)
  <2> DEFINE q == p - off
  <2>1. q \in Nat /\ q \in 0..len - 1 /\ q \in 0..len /\ off + q = p
    OBVIOUS
  <2>2. b[q + 1] = c[p + 1] /\ (q + 1 < len <=> p + 1 < off + len)
        /\ (q + 1 < len => b[q + 2] = c[p + 2])
    <3>1. b[q + 1] = c[off + q + 1] /\ off + q + 1 = p + 1
      BY <2>1 DEF Shifted
    <3>2. q + 1 < len => b[(q + 1) + 1] = c[off + (q + 1) + 1]
      <4>1. q + 1 < len => q + 1 \in 0..len - 1
        BY <2>1
      <4> HIDE DEF q
      <4> QED
        BY <4>1 DEF Shifted
    <3>3. (q + 1) + 1 = q + 2 /\ off + (q + 1) + 1 = p + 2
      OBVIOUS
    <3>4. q + 1 < len <=> p + 1 < off + len
      OBVIOUS
    <3> HIDE DEF q
    <3> QED
      BY <3>1, <3>2, <3>3, <3>4
  <2>3. (off + lead <= p <=> lead <= q) /\ (p < off + trail <=> q < trail)
    BY <1>1, <1>4, <1>5
  <2> HIDE DEF q
  <2>4. Ends(b, 0, q) = Ends(c, off, p)
    BY <1>2, <2>1
  <2>5. LastEnd(b, q) <=> c[p + 1] = NL \/ (c[p + 1] = CR /\ p + 1 < off + len /\ c[p + 2] = NL)
    BY <2>2 DEF LastEnd
  <2>6. /\ lead <= q <=> Ends(c, off, p) >= Ends(c, off, s) - n
        /\ q < trail <=> /\ Ends(c, off, p) <= Ends(c, off, e) + m
                         /\ ~(Ends(c, off, p) = Ends(c, off, e) + m /\ LastEnd(b, q))
    BY <1>3, <1>4, <1>5, <2>1, <2>4
  <2>7. Ends(c, off, p) \in Nat /\ Ends(c, off, s) \in Nat
    BY EndsType
  <2> QED
    BY <2>3, <2>5, <2>6, <2>7 DEF Near
<1>7. off + lead \in Nat /\ off + trail \in Nat /\ off <= off + lead /\ off + trail <= off + len
  BY <1>1, <1>4, <1>5
<1> QED
  BY <1>6, <1>7 DEF lead, trail, h0, h1

\* It is the text around the hit.
LEMMA LinesAround ==
  ASSUME NEW b, NEW c, NEW off \in Nat, NEW len \in Nat, len = Len(b), Shifted(b, c, off, len),
         NEW before, NEW s \in Nat, NEW e \in Nat, off <= s, s < e, e <= off + len,
         NEW n \in Nat, NEW m \in Nat
  PROVE  LET begin == off + FindLeadingContext(b, s - off, n)
             end == off + FindTrailingContext(b, before, e - off, m)
             text == TextAround(c, off, off + len, s, e, n, m)
         IN  /\ \A p \in begin..end - 1 : p \in text
             /\ \A p \in text : p \in begin..end - 1
<1> DEFINE begin == off + FindLeadingContext(b, s - off, n)
           end == off + FindTrailingContext(b, before, e - off, m)
           no(p) == Ends(c, off, p)
           bottom == no(e) + m
           top == no(s) - n
           lines == {p \in off..off + len - 1 : top <= no(p) /\ no(p) <= bottom}
           isEnd(p) == /\ no(p) = bottom
                       /\ c[p + 1] = NL \/ (c[p + 1] = CR /\ p + 1 \in lines /\ c[p + 2] = NL)
           endsLine(p) == c[p + 1] = NL \/ (c[p + 1] = CR /\ p + 1 < off + len /\ c[p + 2] = NL)
           text == {p \in lines : ~isEnd(p)}
<1>1. TextAround(c, off, off + len, s, e, n, m) = text
  BY DEF TextAround, LineNo, Ends, LineEnds
<1>2. /\ begin \in Nat /\ end \in Nat /\ off <= begin /\ end <= off + len
      /\ \A p \in off..off + len - 1 :
           begin <= p /\ p < end <=>
             top <= no(p) /\ no(p) <= bottom /\ ~(no(p) = bottom /\ endsLine(p))
  <2>1. /\ begin \in Nat /\ end \in Nat /\ off <= begin /\ end <= off + len
        /\ \A p \in off..off + len - 1 :
             begin <= p /\ p < end <=> Near(c, off, off + len, s, e, n, m, p)
    BY ContextOfHit, ZenonT(60)
  <2> HIDE DEF begin, end
  <2> QED
    BY <2>1 DEF Near
<1> HIDE DEF begin, end
<1>3. top <= bottom /\ top \in Int /\ bottom \in Nat
  <2>1. no(s) <= no(e)
    BY EndsMonotonic
  <2>2. no(s) \in Nat /\ no(e) \in Nat
    BY EndsType
  <2> QED
    BY <2>1, <2>2, SMTT(60)
<1>4. ASSUME NEW p \in off..off + len - 1, no(p) = bottom
      PROVE  isEnd(p) <=> endsLine(p)
  <2>1. CASE c[p + 1] = CR /\ p + 1 < off + len
    <3>1. no(p + 1) = no(p) + IF c[p + 1] = NL THEN 1 ELSE 0
      BY EndsNext
    <3>2. c[p + 1] # NL
      BY <2>1 DEF NL, CR
    <3>3. no(p + 1) = bottom
      BY <1>3, <1>4, <3>1, <3>2
    <3>4. p + 1 \in off..off + len - 1
      BY <2>1
    <3>5. p + 1 \in lines
      BY <1>3, <3>3, <3>4
    <3> HIDE DEF lines, no
    <3> QED
      BY <1>4, <2>1, <3>5
  <2>2. CASE ~(c[p + 1] = CR /\ p + 1 < off + len)
    <3>1. p + 1 \in lines => p + 1 < off + len
      OBVIOUS
    <3> HIDE DEF lines, no
    <3> QED
      BY <1>4, <2>2, <3>1
  <2> QED
    BY <2>1, <2>2
<1>5. ASSUME NEW p \in off..off + len - 1
      PROVE  p \in text <=> begin <= p /\ p < end
  <2>1. p \in text <=> top <= no(p) /\ no(p) <= bottom /\ ~isEnd(p)
    OBVIOUS
  <2>2. isEnd(p) <=> no(p) = bottom /\ endsLine(p)
    <3> HIDE DEF lines
    <3> QED
      BY <1>4
  <2> HIDE DEF text, no, top, bottom, isEnd, endsLine
  <2> QED
    BY <1>2, <2>1, <2>2
<1>6. \A p \in text : p \in off..off + len - 1
  OBVIOUS
<1> HIDE DEF text
<1>7. \A p \in begin..end - 1 : p \in text
  <2> SUFFICES ASSUME NEW p \in begin..end - 1 PROVE p \in text
    OBVIOUS
  <2>1. p \in off..off + len - 1 /\ begin <= p /\ p < end
    BY <1>2
  <2> QED
    BY <1>5, <2>1
<1>8. \A p \in text : p \in begin..end - 1
  BY <1>2, <1>5, <1>6
<1> QED
  BY <1>1, <1>7, <1>8 DEF begin, end

-----------------------------------------------------------------------------

Files == {p \in DOMAIN disk : disk[p].kind = "file"}

\* The file under search is the last that was opened, and the one the writer knows.
OpenedInv ==
  /\ opened \in Seq(Files)
  /\ pc \in Busy => /\ opened # <<>> /\ opened[Len(opened)] = path /\ hinfo.path = path
                    /\ reported \in 0..Len(FileHits)

\* While a block is searched, it and its offset are what the writer holds.
WriterInv ==
  /\ pc = "search" => hinfo.blk = blk /\ hinfo.off = offset
  /\ pc = "closeout" => hinfo.blk.len = 0

\* The hits counted are those of the files before, and those reported of this one;
\* a search that failed may have left some out.
HitsInv ==
  /\ pc \in Busy =>
       /\ numHits + (Len(FileHits) - reported) = Len(HitsOf(opened))
       /\ \A k \in 1..Len(FileHits) :
            HitsOf(opened)[Len(HitsOf(opened)) - Len(FileHits) + k] = <<path, FileHits[k]>>
  /\ pc = "failed" => numHits <= Len(HitsOf(opened))
  /\ pc \notin Busy \cup {"failed"} => numHits = Len(HitsOf(opened))

\* Line i is of hit i, and of the file that hit is in.
LineOfHit(o, i) ==
  /\ <<o.of, o.hit>> = HitsOf(opened)[i]
  /\ WritesPath(opts) => o.path = HitsOf(opened)[i][1]
  /\ o.separated <=> SeparatesGroups(opts) /\ i > 1

LinesInv ==
  ~Counts(opts) =>
    /\ IsSequence(out) /\ Len(out) = numHits
    /\ \A i \in 1..numHits : LineOfHit(out[i], i)
    /\ hinfo.first <=> ~SeparatesGroups(opts) \/ numHits = 0

\* The bytes of the file under search are not counted yet.
TotalsInv ==
  pc # "failed" =>
    bytesSearched + (IF pc \in Busy THEN Len(Bytes) ELSE 0) = Len(BytesOf(opened))

OutputInv == OpenedInv /\ WriterInv /\ HitsInv /\ LinesInv /\ TotalsInv

-----------------------------------------------------------------------------
\* The hits of one file, and those of files that are opened one after the other.
HitRecords == [start : Nat, end : Nat]

\* The hits of a file are pairs of it and its hits, in their order; those of one file
\* more come at the end.
LEMMA HitsOfMeans ==
  ASSUME TypeOK, NEW files \in Seq(Files)
  PROVE  /\ HitsOf(files) \in Seq(Files \X HitRecords)
         /\ files = <<>> => HitsOf(files) = <<>>
         /\ \A p \in Files :
              /\ HitsIn(p) \in Seq(Files \X HitRecords)
              /\ Len(HitsIn(p)) = Len(Hits[disk[p].bytes])
              /\ \A k \in 1..Len(HitsIn(p)) : HitsIn(p)[k] = <<p, Hits[disk[p].bytes][k]>>
              /\ HitsOf(Append(files, p)) = HitsOf(files) \o HitsIn(p)
<1> DEFINE F == [p \in Files |-> HitsIn(p)]
           X == Files \X HitRecords
<1>1. ASSUME NEW p \in Files
      PROVE  /\ HitsIn(p) \in Seq(X)
             /\ Len(HitsIn(p)) = Len(Hits[disk[p].bytes])
             /\ \A k \in 1..Len(HitsIn(p)) : HitsIn(p)[k] = <<p, Hits[disk[p].bytes][k]>>
  <2> DEFINE h == Hits[disk[p].bytes]
  <2>1. h \in Seq(HitRecords)
    <3>1. disk[p].bytes \in Contents
      BY DisksAssumption DEF TypeOK, WalkTypes, Files
    <3> QED
      BY <3>1, HitsAssumption DEF HitRecords
  <2>2. HitsIn(p) = [k \in DOMAIN h |-> <<p, h[k]>>]
    BY DEF HitsIn
  <2> HIDE DEF h
  <2>3. Len(h) \in Nat /\ DOMAIN h = 1..Len(h) /\ \A k \in 1..Len(h) : h[k] \in HitRecords
    BY <2>1, LenProperties, ElementOfSeq
  <2>4. HitsIn(p) \in [1..Len(h) -> X]
    BY <2>2, <2>3
  <2>5. HitsIn(p) \in Seq(X) /\ Len(HitsIn(p)) = Len(h)
    <3> HIDE DEF X
    <3> QED
      BY <2>3, <2>4, FunctionIsSeq
  <2> QED
    BY <2>2, <2>3, <2>5 DEF h
<1>2. F \in [Files -> Seq(X)]
  BY <1>1
<1>3. ASSUME NEW t \in Seq(Files) PROVE HitsOf(t) = FlattenEach(F, t)
  <2>1. \A i \in DOMAIN t : t[i] \in Files
    BY ElementOfSeq
  <2>2. [i \in DOMAIN t |-> F[t[i]]] = [i \in DOMAIN t |-> HitsIn(t[i])]
    BY <2>1
  <2> QED
    BY <2>2 DEF HitsOf, FlattenEach
<1>4. /\ FlattenEach(F, files) \in Seq(X)
      /\ files = <<>> => FlattenEach(F, files) = <<>>
      /\ \A p \in Files : FlattenEach(F, Append(files, p)) = FlattenEach(F, files) \o F[p]
  <2> HIDE DEF F, X
  <2> QED
    BY <1>2, FlattenMap, SMTT(60)
<1>5. \A p \in Files : F[p] = HitsIn(p) /\ Append(files, p) \in Seq(Files)
  BY AppendProperties
<1> HIDE DEF F
<1> QED
  BY <1>1, <1>3, <1>4, <1>5

\* Their bytes, in the same way.
LEMMA BytesOfMeans ==
  ASSUME TypeOK, NEW files \in Seq(Files)
  PROVE  /\ Len(BytesOf(files)) \in Nat
         /\ files = <<>> => Len(BytesOf(files)) = 0
         /\ \A p \in Files :
              Len(BytesOf(Append(files, p))) = Len(BytesOf(files)) + Len(disk[p].bytes)
<1> DEFINE F == [p \in Files |-> disk[p].bytes]
           S == UNION {{c[i] : i \in DOMAIN c} : c \in Contents}
<1>1. ASSUME NEW p \in Files PROVE disk[p].bytes \in Seq(S)
  <2> DEFINE c == disk[p].bytes
  <2>1. c \in Contents
    BY DisksAssumption DEF TypeOK, WalkTypes, Files
  <2> HIDE DEF c
  <2>2. c \in Seq({c[i] : i \in DOMAIN c}) /\ {c[i] : i \in DOMAIN c} \subseteq S
    BY <2>1, ContentsAssumption
  <2>3. c \in Seq(S)
    <3> HIDE DEF S
    <3> QED
      BY <2>2, SeqMonotonic
  <2> QED
    BY <2>3 DEF c
<1>2. F \in [Files -> Seq(S)]
  BY <1>1
<1>3. ASSUME NEW t \in Seq(Files) PROVE BytesOf(t) = FlattenEach(F, t)
  <2>1. \A i \in DOMAIN t : t[i] \in Files
    BY ElementOfSeq
  <2>2. [i \in DOMAIN t |-> F[t[i]]] = [i \in DOMAIN t |-> disk[t[i]].bytes]
    BY <2>1
  <2> QED
    BY <2>2 DEF BytesOf, FlattenEach
<1>4. /\ FlattenEach(F, files) \in Seq(S)
      /\ files = <<>> => FlattenEach(F, files) = <<>>
      /\ \A p \in Files : FlattenEach(F, Append(files, p)) = FlattenEach(F, files) \o F[p]
  <2> HIDE DEF F, S
  <2> QED
    BY <1>2, FlattenMap, SMTT(60)
<1>5. \A p \in Files : F[p] = disk[p].bytes /\ Append(files, p) \in Seq(Files)
  BY AppendProperties
<1> HIDE DEF F, S
<1>6. BytesOf(files) \in Seq(S) /\ (files = <<>> => BytesOf(files) = <<>>)
  BY <1>3, <1>4
<1>7. ASSUME NEW p \in Files
      PROVE  Len(BytesOf(Append(files, p))) = Len(BytesOf(files)) + Len(disk[p].bytes)
  <2>1. BytesOf(Append(files, p)) = BytesOf(files) \o disk[p].bytes
    BY <1>3, <1>4, <1>5
  <2> QED
    BY <1>1, <1>6, <2>1, ConcatProperties
<1> QED
  BY <1>6, <1>7, LenProperties, Len(<<>>) = 0

\* What depends on the disk, the file and the files opened alone.
LEMMA SameFiles ==
  /\ UNCHANGED disk => Files' = Files
  /\ UNCHANGED <<disk, opened>> =>
       HitsOf(opened)' = HitsOf(opened) /\ BytesOf(opened)' = BytesOf(opened)
  /\ UNCHANGED <<disk, path>> => FileHits' = FileHits /\ Bytes' = Bytes
BY DEF Files, HitsOf, HitsIn, BytesOf, FileHits, Bytes

\* The hits of the file under search, and the totals so far, are numbers.
LEMMA OutputTypes ==
  ASSUME Inv, OpenedInv
  PROVE  /\ Len(HitsOf(opened)) \in Nat /\ Len(BytesOf(opened)) \in Nat
         /\ numHits \in Nat /\ bytesSearched \in Nat /\ reported \in Nat
         /\ pc \in Busy => /\ path \in Files /\ Len(FileHits) \in Nat /\ Len(Bytes) \in Nat
                           /\ DOMAIN FileHits = 1..Len(FileHits)
<1>1. TypeOK /\ opened \in Seq(Files)
  BY DEF Inv, OpenedInv
<1>2. Len(HitsOf(opened)) \in Nat /\ Len(BytesOf(opened)) \in Nat
  BY <1>1, HitsOfMeans, BytesOfMeans, LenProperties
<1>3. ASSUME pc \in Busy
      PROVE  /\ path \in Files /\ Len(FileHits) \in Nat /\ Len(Bytes) \in Nat
             /\ DOMAIN FileHits = 1..Len(FileHits)
  <2>1. Bytes \in Contents /\ Len(Bytes) \in Nat /\ path \in Files
    BY <1>3, FileFacts DEF Inv, PathInv, Files
  <2>2. FileHits \in Seq(HitRecords)
    BY <2>1, HitsAssumption DEF FileHits, HitRecords
  <2> QED
    BY <2>1, <2>2, LenProperties
<1> QED
  BY <1>1, <1>2, <1>3 DEF TypeOK, SearchTypes

-----------------------------------------------------------------------------
\* Nothing is opened, counted or written at first.
LEMMA InitOutput == Init => OutputInv
<1> SUFFICES ASSUME Init PROVE OutputInv
  OBVIOUS
<1>1. TypeOK /\ <<>> \in Seq(Files)
  BY InitInv, EmptySeq DEF Inv
<1>2. Len(HitsOf(opened)) = 0 /\ Len(BytesOf(opened)) = 0
  BY <1>1, HitsOfMeans, BytesOfMeans, Len(<<>>) = 0 DEF Init
<1>3. OpenedInv /\ WriterInv /\ HitsInv /\ TotalsInv
  BY <1>1, <1>2 DEF Init, OpenedInv, WriterInv, HitsInv, TotalsInv, Busy
<1>4. LinesInv
  <2>1. IsSequence(<<>>) /\ Len(<<>>) = 0
    BY EmptySeq, SeqIsSequence
  <2> QED
    BY <2>1 DEF Init, LinesInv
<1> QED
  BY <1>3, <1>4 DEF OutputInv

\* What most actions leave alone.
OutputSame ==
  /\ UNCHANGED <<raw, disk, path, opened, reported, numHits, bytesSearched, out>>
  /\ hinfo'.path = hinfo.path /\ hinfo'.first = hinfo.first

\* Such an action neither leaves a file nor enters one, or it fails.
LEMMA OutputSameInv ==
  ASSUME Inv, OutputInv, OutputSame, WriterInv',
         \/ (pc' \in Busy <=> pc \in Busy) /\ (pc' = "failed" <=> pc = "failed")
         \/ pc' = "failed"
  PROVE  OutputInv'
<1>1. /\ HitsOf(opened)' = HitsOf(opened) /\ BytesOf(opened)' = BytesOf(opened)
      /\ Files' = Files /\ FileHits' = FileHits /\ Bytes' = Bytes /\ opts' = opts
  BY SameFiles, SameFile DEF OutputSame
<1>2. "failed" \notin Busy
  BY DEF Busy
<1>3. OpenedInv'
  BY <1>1, <1>2 DEF OutputInv, OpenedInv, OutputSame
<1>4. HitsInv'
  <2>1. numHits \in Nat /\ (pc \in Busy => Len(FileHits) \in Nat /\ reported \in 0..Len(FileHits))
        /\ Len(HitsOf(opened)) \in Nat
    BY OutputTypes DEF OutputInv, OpenedInv
  <2>2. numHits <= Len(HitsOf(opened))
    BY <2>1 DEF OutputInv, HitsInv
  <2> QED
    BY <1>1, <1>2, <2>2 DEF OutputInv, HitsInv, OutputSame
<1>5. LinesInv'
  BY <1>1 DEF OutputInv, LinesInv, OutputSame, LineOfHit
<1>6. TotalsInv'
  BY <1>1, <1>2 DEF OutputInv, TotalsInv, OutputSame
<1> QED
  BY <1>3, <1>4, <1>5, <1>6 DEF OutputInv

\* The walk, the reads and the blocks say nothing of hits.
LEMMA QuietOutput ==
  ASSUME Inv, OutputInv,
         \/ ReadOptions \/ NextList \/ FirstRead \/ GetBlock \/ Prefetch \/ SearchByte
         \/ EndSearch \/ LastSearch \/ ReadByte \/ EndRead
  PROVE  OutputInv'
<1>1. OutputSame
  <2>1. CASE \/ ReadOptions \/ NextList \/ FirstRead \/ GetBlock \/ SearchByte \/ EndSearch
             \/ ReadByte \/ EndRead
    BY <2>1 DEF ReadOptions, NextList, FirstRead, GetBlock, SearchByte, EndSearch, ReadByte,
                EndRead, OutputSame
  <2>2. CASE Prefetch \/ LastSearch
    <3>1. hinfo \in Hinfos
      BY DEF Inv, TypeOK, SearchTypes
    <3>2. hinfo' = [hinfo EXCEPT !.blk = blk, !.off = offset]
      BY <2>2 DEF Prefetch, LastSearch, SetBuffer
    <3>3. hinfo'.path = hinfo.path /\ hinfo'.first = hinfo.first
      BY <3>1, <3>2 DEF Hinfos
    <3> QED
      BY <2>2, <3>3 DEF Prefetch, LastSearch, OutputSame
  <2> QED
    BY <2>1, <2>2
<1>2. WriterInv'
  <2>1. CASE ReadOptions \/ NextList \/ FirstRead \/ GetBlock \/ EndSearch
    BY <2>1 DEF ReadOptions, NextList, FirstRead, GetBlock, EndSearch, WriterInv
  <2>2. CASE SearchByte \/ ReadByte \/ EndRead
    BY <2>2 DEF SearchByte, ReadByte, EndRead, OutputInv, WriterInv
  <2>3. CASE Prefetch \/ LastSearch
    <3>1. hinfo \in Hinfos
      BY DEF Inv, TypeOK, SearchTypes
    <3>2. hinfo' = [hinfo EXCEPT !.blk = blk, !.off = offset] /\ UNCHANGED <<blk, offset>>
      BY <2>3 DEF Prefetch, LastSearch, SetBuffer
    <3>3. hinfo'.blk = blk' /\ hinfo'.off = offset'
      BY <3>1, <3>2 DEF Hinfos
    <3>4. LastSearch => blk.len = 0
      BY DEF Inv, BlockInv, LastSearch
    <3>5. (Prefetch => pc' = "search") /\ (LastSearch => pc' = "closeout")
      BY DEF Prefetch, LastSearch
    <3> QED
      BY <2>3, <3>2, <3>3, <3>4, <3>5 DEF WriterInv
  <2> QED
    BY <2>1, <2>2, <2>3
<1>3. \/ (pc' \in Busy <=> pc \in Busy) /\ (pc' = "failed" <=> pc = "failed")
      \/ pc' = "failed"
  BY DEF ReadOptions, NextList, FirstRead, GetBlock, Prefetch, SearchByte, EndSearch,
         LastSearch, ReadByte, EndRead, Busy
<1> QED
  BY <1>1, <1>2, <1>3, OutputSameInv

\* A file that is opened brings its hits and its bytes, none of them counted yet.
LEMMA OpenFileOutput ==
  ASSUME Inv, OutputInv, pc = "paths", NEW p \in DOMAIN disk, OpenFile(p),
         UNCHANGED <<raw, disk, numHits, bytesSearched, out>>
  PROVE  OutputInv'
<1>1. CASE pc' = "failed" /\ UNCHANGED <<path, hinfo, reported, opened>>
  <2>1. WriterInv' /\ OutputSame
    BY <1>1 DEF WriterInv, OutputSame
  <2> QED
    BY <1>1, <2>1, OutputSameInv
<1>2. CASE /\ disk[p].kind = "file" /\ pc' = "first" /\ path' = p
           /\ hinfo' = [hinfo EXCEPT !.path = p] /\ reported' = 0 /\ opened' = Append(opened, p)
  <2> DEFINE old == HitsOf(opened)
             new == HitsIn(p)
  <2>1. p \in Files /\ opened \in Seq(Files) /\ TypeOK
    BY <1>2 DEF Files, OutputInv, OpenedInv, Inv
  <2>2. /\ old \in Seq(Files \X HitRecords) /\ new \in Seq(Files \X HitRecords)
        /\ HitsOf(opened') = old \o new
        /\ Len(new) = Len(Hits[disk[p].bytes])
        /\ \A k \in 1..Len(new) : new[k] = <<p, Hits[disk[p].bytes][k]>>
        /\ Len(BytesOf(opened)) \in Nat
        /\ Len(BytesOf(opened')) = Len(BytesOf(opened)) + Len(disk[p].bytes)
    BY <1>2, <2>1, HitsOfMeans, BytesOfMeans
  <2>3. /\ HitsOf(opened)' = HitsOf(opened') /\ BytesOf(opened)' = BytesOf(opened')
        /\ Files' = Files /\ opts' = opts
        /\ FileHits' = Hits[disk[p].bytes] /\ Bytes' = disk[p].bytes
    BY <1>2 DEF HitsOf, HitsIn, BytesOf, Files, opts, FileHits, Bytes
  <2>4. numHits = Len(old) /\ bytesSearched = Len(BytesOf(opened)) /\ bytesSearched \in Nat
    <3>1. bytesSearched + 0 = Len(BytesOf(opened)) /\ numHits = Len(old)
      BY DEF OutputInv, HitsInv, TotalsInv, Busy
    <3> QED
      BY <3>1, OutputTypes DEF OutputInv
  <2> HIDE DEF old, new
  <2>5. /\ Len(old) \in Nat /\ Len(new) \in Nat /\ Len(old \o new) = Len(old) + Len(new)
        /\ \A i \in 1..Len(old) : (old \o new)[i] = old[i]
        /\ \A k \in 1..Len(new) : (old \o new)[Len(old) + k] = new[k]
    <3>1. \A i \in 1..Len(old) + Len(new) :
            (old \o new)[i] = IF i <= Len(old) THEN old[i] ELSE new[i - Len(old)]
      BY <2>2, ConcatProperties, SMTT(60)
    <3>2. Len(old) \in Nat /\ Len(new) \in Nat /\ Len(old \o new) = Len(old) + Len(new)
      BY <2>2, LenProperties, ConcatProperties, ZenonT(60)
    <3>3. \A k \in 1..Len(new) : Len(old) + k \in 1..Len(old) + Len(new)
                                 /\ ~(Len(old) + k <= Len(old)) /\ (Len(old) + k) - Len(old) = k
      BY <3>2
    <3>4. \A k \in 1..Len(new) : (old \o new)[Len(old) + k] = new[k]
      BY <3>1, <3>3
    <3> QED
      BY <3>1, <3>2, <3>4
  <2>6. hinfo'.path = p /\ hinfo'.first = hinfo.first
    BY <1>2 DEF Inv, TypeOK, SearchTypes, Hinfos
  <2>7. OpenedInv' /\ WriterInv'
    <3>1. /\ opened' \in Seq(Files) /\ opened' # <<>> /\ opened'[Len(opened')] = p
      BY <1>2, <2>1, AppendProperties, Len(<<>>) = 0, SMTT(60)
    <3> QED
      BY <1>2, <2>2, <2>3, <2>5, <2>6, <3>1 DEF OpenedInv, WriterInv
  <2>8. HitsInv'
    <3>1. pc' \in Busy
      BY <1>2 DEF Busy
    <3>2. numHits' + (Len(FileHits') - reported') = Len(old \o new)
      BY <1>2, <2>2, <2>3, <2>4, <2>5
    <3>3. ASSUME NEW k \in 1..Len(new)
          PROVE  (old \o new)[Len(old \o new) - Len(new) + k] = <<p, Hits[disk[p].bytes][k]>>
      <4>1. Len(old \o new) - Len(new) + k = Len(old) + k
        BY <2>5
      <4> QED
        BY <2>2, <2>5, <4>1
    <3> QED
      BY <1>2, <2>2, <2>3, <3>1, <3>2, <3>3 DEF HitsInv, Busy
  <2>9. LinesInv'
    <3> SUFFICES ASSUME ~Counts(opts) PROVE LinesInv'
      BY <2>3 DEF LinesInv
    <3>1. \A i \in 1..numHits : LineOfHit(out[i], i)
      BY DEF OutputInv, LinesInv
    <3>2. ASSUME NEW i \in 1..numHits PROVE LineOfHit(out[i], i)'
      <4>1. HitsOf(opened)'[i] = HitsOf(opened)[i]
        BY <2>2, <2>3, <2>4, <2>5 DEF old
      <4> QED
        BY <2>3, <3>1, <4>1 DEF LineOfHit
    <3> QED
      BY <2>3, <2>6, <3>2 DEF OutputInv, LinesInv
  <2>10. TotalsInv'
    BY <1>2, <2>2, <2>3, <2>4 DEF TotalsInv, Busy
  <2> QED
    BY <2>7, <2>8, <2>9, <2>10 DEF OutputInv
<1> QED
  BY <1>1, <1>2 DEF OpenFile, Opens

\* The next path opens a file, or the walk goes on.
LEMMA NextPathOutput ==
  ASSUME Inv, OutputInv, NextPath
  PROVE  OutputInv'
<1>1. /\ pc = "paths"
      /\ UNCHANGED <<raw, disk, numHits, bytesSearched, out>>
  BY DEF NextPath
<1>2. /\ below # <<>> => Head(below) \in DOMAIN disk
      /\ paths # <<>> => Head(paths) \in DOMAIN disk
  BY HeadTailProperties DEF Inv, TypeOK, WalkTypes
<1>3. ASSUME pc' \in {"paths", "lists"}, UNCHANGED <<path, hinfo, reported, opened>>
      PROVE  OutputInv'
  <2>1. OutputSame /\ WriterInv' /\ pc \notin Busy /\ pc' \notin Busy
    BY <1>1, <1>3 DEF OutputSame, WriterInv, Busy
  <2> QED
    BY <1>1, <1>3, <2>1, OutputSameInv
<1>4. \/ below # <<>> /\ OpenFile(Head(below))
      \/ paths # <<>> /\ OpenFile(Head(paths))
      \/ pc' \in {"paths", "lists"} /\ UNCHANGED <<path, hinfo, reported, opened>>
  BY <1>1 DEF NextPath
<1> QED
  BY <1>1, <1>2, <1>3, <1>4, OpenFileOutput

\* A file that is closed has had its hits reported, and its bytes are counted.
LEMMA CloseOutOutput ==
  ASSUME Inv, OutputInv, CloseOut
  PROVE  OutputInv'
<1>1. /\ pc = "closeout" /\ pc' = "paths" /\ offset = Len(Bytes) /\ blk.len = 0
      /\ bytesSearched' = bytesSearched + (offset + blk.len)
      /\ \A i \in reported + 1..Len(FileHits) : FileHits[i].end > Len(fed)
      /\ UNCHANGED <<raw, disk, path, hinfo, reported, numHits, out, opened>>
  BY DEF CloseOut, Inv, BlockInv, walk
<1>2. /\ HitsOf(opened)' = HitsOf(opened) /\ BytesOf(opened)' = BytesOf(opened)
      /\ Files' = Files /\ opts' = opts
  BY <1>1, SameFiles, SameFile
<1>3. /\ pc \in Busy /\ pc' \notin Busy /\ pc' # "failed" /\ pc # "failed"
  BY <1>1 DEF Busy
<1>4. /\ Len(FileHits) \in Nat /\ Len(Bytes) \in Nat /\ bytesSearched \in Nat /\ numHits \in Nat
      /\ reported \in Nat /\ reported <= Len(FileHits) /\ DOMAIN FileHits = 1..Len(FileHits)
      /\ Len(HitsOf(opened)) \in Nat /\ Len(BytesOf(opened)) \in Nat
  BY <1>3, OutputTypes DEF OutputInv, OpenedInv
<1>5. ~(reported < Len(FileHits))
  <2> SUFFICES ASSUME reported < Len(FileHits) PROVE FALSE
    OBVIOUS
  <2>1. Len(fed) = Len(Bytes)
    BY <1>1, <1>3 DEF Inv, FedInv
  <2>2. reported + 1 \in 1..Len(FileHits) /\ FileHits[reported + 1].end > Len(Bytes)
    BY <1>1, <1>4, <2>1
  <2>3. Bytes \in Contents
    BY <1>3, FileFacts DEF Inv
  <2>4. FileHits[reported + 1].end <= Len(Bytes) /\ FileHits[reported + 1] \in HitRecords
    <3>1. Hits[Bytes] \in Seq(HitRecords) /\ \A i \in DOMAIN Hits[Bytes] : Hits[Bytes][i].end <= Len(Bytes)
      BY <2>3, HitsAssumption DEF HitRecords
    <3> QED
      BY <1>4, <2>2, <3>1, ElementOfSeq DEF FileHits
  <2> QED
    BY <1>4, <2>2, <2>4 DEF HitRecords
<1>6. OpenedInv' /\ WriterInv'
  BY <1>1, <1>2, <1>3 DEF OutputInv, OpenedInv, WriterInv
<1>7. HitsInv'
  BY <1>1, <1>2, <1>3, <1>4, <1>5, SMTT(60) DEF OutputInv, HitsInv
<1>8. LinesInv'
  BY <1>1, <1>2 DEF OutputInv, LinesInv, LineOfHit
<1>9. TotalsInv'
  BY <1>1, <1>2, <1>3, <1>4 DEF OutputInv, TotalsInv
<1> QED
  BY <1>6, <1>7, <1>8, <1>9 DEF OutputInv

\* The line that a hit is written in.
Line(hit, before) ==
  [of |-> path,
   path |-> IF WritesPath(opts) THEN hinfo.path ELSE NoPath,
   hit |-> hit,
   separated |-> SeparatesGroups(opts) /\ ~hinfo.first,
   context |-> IF WritesContext(opts)
               THEN LineContext(HitBuffer, before, hinfo.off, hit, opts)
               ELSE hit,
   block |-> [begin |-> hinfo.off, end |-> hinfo.off + hinfo.blk.len]]

\* A hit is reported: it is the next of those expected.
LEMMA ReportHitOutput ==
  ASSUME Inv, OutputInv, ReportHit
  PROVE  OutputInv'
<1> DEFINE hit == FileHits[reported + 1]
<1>1. /\ pc \in {"search", "closeout"} /\ pc' = pc /\ reported < Len(FileHits)
      /\ reported' = reported + 1 /\ numHits' = numHits + 1
      /\ UNCHANGED <<raw, disk, path, blk, offset, bytesSearched, opened>>
      /\ Counts(opts) => UNCHANGED <<out, hinfo>>
      /\ ~Counts(opts) =>
           \E before \in ByteBefore :
              /\ out' = Append(out, Line(hit, before))
              /\ hinfo' = [hinfo EXCEPT !.first = @ /\ ~SeparatesGroups(opts)]
  BY DEF ReportHit, WriteHit, Line, walk
<1>2. /\ HitsOf(opened)' = HitsOf(opened) /\ BytesOf(opened)' = BytesOf(opened)
      /\ Files' = Files /\ opts' = opts /\ FileHits' = FileHits /\ Bytes' = Bytes
  BY <1>1, SameFiles, SameFile
<1>3. pc \in Busy /\ pc' \in Busy /\ pc' # "failed" /\ hinfo \in Hinfos
  BY <1>1 DEF Busy, Inv, TypeOK, SearchTypes
<1>4. /\ Len(FileHits) \in Nat /\ numHits \in Nat /\ Len(HitsOf(opened)) \in Nat
      /\ reported \in Nat
  BY <1>3, OutputTypes DEF OutputInv
<1>5. /\ hinfo'.path = hinfo.path /\ hinfo'.blk = hinfo.blk /\ hinfo'.off = hinfo.off
      /\ ~Counts(opts) => (hinfo'.first <=> hinfo.first /\ ~SeparatesGroups(opts))
  BY <1>1, <1>3 DEF Hinfos
<1>6. OpenedInv' /\ WriterInv'
  BY <1>1, <1>2, <1>3, <1>4, <1>5 DEF OutputInv, OpenedInv, WriterInv
<1>7. HitsInv'
  BY <1>1, <1>2, <1>3, <1>4, SMTT(60) DEF OutputInv, HitsInv
<1>8. HitsOf(opened)[numHits + 1] = <<path, hit>>
  <2>1. reported + 1 \in 1..Len(FileHits)
    BY <1>1, <1>4
  <2>2. /\ numHits + (Len(FileHits) - reported) = Len(HitsOf(opened))
        /\ HitsOf(opened)[Len(HitsOf(opened)) - Len(FileHits) + (reported + 1)] = <<path, hit>>
    BY <1>3, <2>1 DEF OutputInv, HitsInv
  <2>3. Len(HitsOf(opened)) - Len(FileHits) + (reported + 1) = numHits + 1
    BY <1>4, <2>2, SMTT(60)
  <2> QED
    BY <2>2, <2>3
<1>9. LinesInv'
  <2> SUFFICES ASSUME ~Counts(opts) PROVE LinesInv'
    BY <1>2 DEF LinesInv
  <2>1. PICK before \in ByteBefore : out' = Append(out, Line(hit, before))
    BY <1>1
  <2> DEFINE new == Line(hit, before)
  <2>2. /\ IsSequence(out) /\ Len(out) = numHits
        /\ \A i \in 1..numHits : LineOfHit(out[i], i)
        /\ hinfo.first <=> ~SeparatesGroups(opts) \/ numHits = 0
    BY DEF OutputInv, LinesInv
  <2>3. /\ new.of = path /\ new.hit = hit
        /\ WritesPath(opts) => new.path = hinfo.path
        /\ new.separated <=> SeparatesGroups(opts) /\ ~hinfo.first
    BY DEF Line
  <2>4. hinfo.path = path
    BY <1>3 DEF OutputInv, OpenedInv
  <2> HIDE DEF new, hit
  <2>5. LineOfHit(new, numHits + 1)
    <3>1. ~hinfo.first <=> SeparatesGroups(opts) /\ numHits # 0
      BY <2>2
    <3>2. numHits + 1 > 1 <=> numHits # 0
      BY <1>4
    <3>3. new.separated <=> SeparatesGroups(opts) /\ numHits + 1 > 1
      BY <2>3, <3>1, <3>2
    <3> QED
      BY <1>8, <2>3, <2>4, <3>3 DEF LineOfHit
  <2>6. /\ IsSequence(out') /\ Len(out') = numHits + 1
        /\ \A i \in 1..numHits : out'[i] = out[i]
        /\ out'[numHits + 1] = new
    BY <2>1, <2>2, AppendSequence DEF new
  <2>7. ASSUME NEW i \in 1..numHits + 1 PROVE LineOfHit(out[i], i)'
    <3>1. LineOfHit(out'[i], i)
      BY <1>4, <2>2, <2>5, <2>6
    <3> QED
      BY <1>2, <3>1 DEF LineOfHit
  <2>8. hinfo'.first <=> ~SeparatesGroups(opts) \/ numHits + 1 = 0
    <3>1. numHits + 1 # 0
      BY <1>4
    <3> QED
      BY <1>5, <2>2, <3>1
  <2> QED
    BY <1>1, <1>2, <2>6, <2>7, <2>8 DEF LinesInv
<1>10. TotalsInv'
  BY <1>1, <1>2, <1>3 DEF OutputInv, TotalsInv
<1> QED
  BY <1>6, <1>7, <1>9, <1>10 DEF OutputInv

-----------------------------------------------------------------------------
\* While hits are reported, the writer's buffer holds the file's bytes from its offset
\* on: the block is intact.
LEMMA BufferShowsFile ==
  ASSUME Inv, OutputInv, pc = "search"
  PROVE  /\ hinfo.off \in Nat /\ hinfo.blk.len \in Nat /\ Len(HitBuffer) = hinfo.blk.len
         /\ hinfo.off + hinfo.blk.len <= Len(Bytes)
         /\ Shifted(HitBuffer, Bytes, hinfo.off, hinfo.blk.len)
<1>1. hinfo.blk = blk /\ hinfo.off = offset /\ pc \in Busy
  BY DEF OutputInv, WriterInv, Busy
<1>2. offset \in Nat /\ blk.len \in Nat /\ Len(Bytes) \in Nat
  BY <1>1, FileFacts DEF Inv, TypeOK, SearchTypes, Blocks
<1>3. offset + blk.len <= Len(Bytes)
  <2>1. job # NoJob
    BY DEF Inv, JobInv
  <2>2. job.len \in Nat
    BY <2>1 DEF Inv, TypeOK, ReaderTypes, Jobs
  <2>3. pos = (offset + blk.len) + job.len /\ pos <= Len(Bytes)
    BY <2>1 DEF Inv, JobInv, ReadFrom
  <2> QED
    BY <1>2, <2>2, <2>3
<1>4. \A k \in 0..blk.len - 1 : At(blk, k) = offset + k
  BY DEF Inv, BlockInv, Holds
<1>5. HitBuffer = [k \in 1..blk.len |-> ByteOf(At(blk, k - 1))]
  BY <1>1 DEF HitBuffer
<1>6. ASSUME NEW k \in 0..blk.len - 1 PROVE HitBuffer[k + 1] = Bytes[offset + k + 1]
  <2>1. k + 1 \in 1..blk.len /\ (k + 1) - 1 = k /\ offset + k \in 0..Len(Bytes) - 1
    BY <1>2, <1>3
  <2>2. HitBuffer[k + 1] = ByteOf(At(blk, k))
    BY <1>5, <2>1
  <2>3. ByteOf(offset + k) = Bytes[offset + k + 1]
    BY <2>1 DEF ByteOf
  <2> QED
    BY <1>4, <2>2, <2>3
<1>7. Len(HitBuffer) = blk.len
  <2> DEFINE S == {ByteOf(At(blk, k - 1)) : k \in 1..blk.len}
  <2>1. HitBuffer \in [1..blk.len -> S]
    BY <1>5
  <2> HIDE DEF S
  <2> QED
    BY <1>2, <2>1, FunctionIsSeq
<1> QED
  BY <1>1, <1>2, <1>3, <1>6, <1>7 DEF Shifted

\* The line of a hit that lies in the buffer shows the lines around it.
LEMMA LineHasItsContext ==
  ASSUME Inv, OutputInv, pc \in {"search", "closeout"}, reported < Len(FileHits),
         WritesContext(opts), NEW before
  PROVE  HasItsLines(Line(FileHits[reported + 1], before))
<1> DEFINE hit == FileHits[reported + 1]
           o == Line(hit, before)
           atLeast0(n) == IF n > 0 THEN n ELSE 0
<1>1. /\ o.of = path /\ o.hit = hit
      /\ o.block.begin = hinfo.off /\ o.block.end = hinfo.off + hinfo.blk.len
      /\ o.context = LineContext(HitBuffer, before, hinfo.off, hit, opts)
  BY DEF Line
<1>2. hit \in HitRecords /\ hit.start < hit.end /\ hit.end <= Len(Bytes)
      /\ Len(Bytes) < OffsetSize /\ Len(Bytes) \in Nat
  <2>1. pc \in Busy
    BY DEF Busy
  <2>2. Bytes \in Contents /\ Len(Bytes) \in Nat
    BY <2>1, FileFacts DEF Inv
  <2>3. reported + 1 \in DOMAIN FileHits
    BY <2>1, OutputTypes DEF OutputInv
  <2>4. Len(Bytes) < OffsetSize
    BY <2>2, ContentsAssumption
  <2>5. FileHits \in Seq(HitRecords)
        /\ \A i \in DOMAIN FileHits : /\ FileHits[i].start < FileHits[i].end
                                      /\ FileHits[i].end <= Len(Bytes)
    BY <2>2, HitsAssumption, SMTT(60) DEF HitRecords, FileHits
  <2>6. FileHits[reported + 1] \in HitRecords
    BY <2>3, <2>5, ElementOfSeq
  <2> QED
    BY <2>2, <2>3, <2>4, <2>5, <2>6
<1> SUFFICES ASSUME hit.start >= hinfo.off, hit.end <= hinfo.off + hinfo.blk.len
             PROVE  HasItsLines(o)
  BY <1>1 DEF HasItsLines
<1> HIDE DEF hit
<1>3. hinfo.off \in Nat /\ hinfo.blk.len \in Nat /\ hit.start \in Nat /\ hit.end \in Nat
  BY <1>2 DEF HitRecords, Inv, TypeOK, SearchTypes, Hinfos, Blocks
<1>4. opts.before \in Int /\ opts.after \in Int
  <2>1. raw \in Commands
    BY DEF Inv, TypeOK, WalkTypes
  <2>2. {raw.A, raw.B, raw.C} \subseteq Int
    BY <2>1, CommandsAssumption
  <2> QED
    BY <2>2 DEF opts, ParseOpts, BeforeContext, AfterContext
<1>5. pc = "search"
  <2>1. pc # "closeout"
    BY <1>2, <1>3 DEF OutputInv, WriterInv
  <2> QED
    BY <2>1
<1>6. PICK off \in Nat, len \in Nat, s \in Nat, e \in Nat, n \in Nat, m \in Nat :
        /\ off = hinfo.off /\ len = hinfo.blk.len /\ s = hit.start /\ e = hit.end
        /\ n = atLeast0(opts.before) /\ m = atLeast0(opts.after)
  <2>1. atLeast0(opts.before) \in Nat /\ atLeast0(opts.after) \in Nat
    BY <1>4
  <2> HIDE DEF atLeast0
  <2> QED
    BY <1>3, <2>1
<1>7. off <= s /\ s < e /\ e <= off + len /\ e <= Len(Bytes)
  BY <1>2, <1>6
<1>8. len = Len(HitBuffer) /\ Shifted(HitBuffer, Bytes, off, len)
  BY <1>5, <1>6, BufferShowsFile
<1>9. HitBegin(off, hit) = s - off /\ HitEnd(HitBuffer, off, hit) = e - off
  <2>1. (e - off) % OffsetSize = e - off
    <3>1. OffsetSize \in Nat \ {0} /\ e - off \in 0..OffsetSize - 1
      BY <1>2, <1>7, OffsetSizeAssumption
    <3> QED
      BY <3>1
  <2>2. HitEnd(HitBuffer, off, hit) = IF e - off < len THEN e - off ELSE len
    BY <1>6, <1>8, <2>1 DEF HitEnd
  <2>3. HitBegin(off, hit) = IF s < off THEN 0 ELSE s - off
    BY <1>6 DEF HitBegin
  <2> QED
    BY <1>7, <2>2, <2>3
<1> DEFINE begin == off + FindLeadingContext(HitBuffer, s - off, n)
           end == off + FindTrailingContext(HitBuffer, before, e - off, m)
           text == TextAround(Bytes, off, off + len, s, e, n, m)
<1>10. o.context = [begin |-> begin, end |-> end]
  BY <1>1, <1>6, <1>9 DEF LineContext
<1>11. (\A p \in begin..end - 1 : p \in text) /\ (\A p \in text : p \in begin..end - 1)
  BY <1>7, <1>8, LinesAround
<1>12. /\ o.context.begin = begin /\ o.context.end = end
       /\ text = TextAround(disk[o.of].bytes, o.block.begin, o.block.end, o.hit.start, o.hit.end,
                            atLeast0(opts.before), atLeast0(opts.after))
  <2> HIDE DEF o, begin, end, atLeast0
  <2> QED
    BY <1>1, <1>6, <1>10 DEF Bytes
<1> HIDE DEF o, begin, end, text
<1> QED
  BY <1>11, <1>12 DEF HasItsLines

\* The lines written before keep their context, and the next one has its own.
LEMMA ContextNext ==
  ASSUME Inv, OutputInv, ContextLines, Next
  PROVE  ContextLines'
<1> SUFFICES ASSUME WritesContext(opts)', ~Rejected(raw)'
             PROVE  \A i \in DOMAIN out' : HasItsLines(out[i])'
  BY DEF ContextLines
<1>1. UNCHANGED <<raw, disk>>
  BY DEF Next, MainStep, ReaderStep, Stopped, vars, ReadOptions, NextList, NextPath, FirstRead,
         GetBlock, Prefetch, SearchByte, EndSearch, ReportHit, LastSearch, CloseOut, ReadByte, EndRead
<1>2. opts' = opts /\ WritesContext(opts) /\ ~Rejected(raw) /\ ~Counts(opts)
  BY <1>1 DEF opts, WritesContext, Counts
<1>3. \A o : HasItsLines(o)' <=> HasItsLines(o)
  BY <1>1, <1>2 DEF HasItsLines
<1>4. \A i \in DOMAIN out : HasItsLines(out[i])
  BY <1>2 DEF ContextLines
<1>5. CASE ReportHit
  <2>1. PICK before \in ByteBefore : out' = Append(out, Line(FileHits[reported + 1], before))
    BY <1>2, <1>5 DEF ReportHit, WriteHit, Line
  <2> DEFINE new == Line(FileHits[reported + 1], before)
  <2>2. HasItsLines(new)
    BY <1>2, <1>5, LineHasItsContext DEF ReportHit
  <2>3. IsSequence(out)
    BY <1>2 DEF OutputInv, LinesInv
  <2> HIDE DEF new
  <2>4. /\ Len(out) \in Nat /\ DOMAIN out = 1..Len(out) /\ DOMAIN out' = 1..Len(out) + 1
        /\ \A i \in 1..Len(out) : out'[i] = out[i]
        /\ out'[Len(out) + 1] = new
    BY <2>1, <2>3, AppendSequence DEF new
  <2>5. ASSUME NEW i \in DOMAIN out' PROVE HasItsLines(out'[i])
    <3>1. i \in 1..Len(out) \/ i = Len(out) + 1
      BY <2>4
    <3> QED
      BY <1>4, <2>2, <2>4, <3>1
  <2> QED
    BY <1>3, <2>5
<1>6. CASE UNCHANGED out
  BY <1>3, <1>4, <1>6
<1> QED
  BY <1>5, <1>6 DEF Next, MainStep, ReaderStep, Stopped, vars, ReadOptions, NextList, NextPath,
     FirstRead, GetBlock, Prefetch, SearchByte, EndSearch, LastSearch, CloseOut, ReadByte, EndRead

-----------------------------------------------------------------------------
\* Every step of the main thread, of the reader's thread, and a stop.
LEMMA NextOutput == Inv /\ OutputInv /\ [Next]_vars => OutputInv'
<1> SUFFICES ASSUME Inv, OutputInv, [Next]_vars PROVE OutputInv'
  OBVIOUS
<1>1. CASE MainStep \/ ReaderStep
  BY <1>1, QuietOutput, NextPathOutput, ReportHitOutput, CloseOutOutput DEF MainStep, ReaderStep
<1>2. CASE UNCHANGED vars
  <2>1. OutputSame /\ WriterInv' /\ pc' = pc
    BY <1>2 DEF vars, OutputSame, OutputInv, WriterInv
  <2> QED
    BY <2>1, OutputSameInv
<1> QED
  BY <1>1, <1>2 DEF Next, Stopped

\* What is counted, and what is written, is of the hits of the files opened, in order.
THEOREM OutputInvariance == Spec => [](Inv /\ OutputInv)
<1>1. Init => Inv /\ OutputInv
  BY InitInv, InitOutput
<1>2. (Inv /\ OutputInv) /\ [Next]_vars => (Inv /\ OutputInv)'
  BY NextInv, NextOutput
<1> QED
  BY <1>1, <1>2, PTL DEF Spec

\* The lines written are the hits of the files in order, each once, under the path of
\* its file, and all the hits of a file are out before the next is opened
\* (hitwriter.cpp, main.cpp:322-371).
THEOREM OutputPromiseKept == Spec => []OutputPromise
<1>1. Inv /\ OutputInv => OutputPromise
  <2> SUFFICES ASSUME Inv, OutputInv PROVE OutputPromise
    OBVIOUS
  <2>1. numHits \in Nat /\ Len(HitsOf(opened)) \in Nat
    BY OutputTypes DEF OutputInv
  <2>2. numHits <= Len(HitsOf(opened))
    <3>1. pc \in Busy => Len(FileHits) \in Nat /\ reported \in 0..Len(FileHits)
      BY OutputTypes DEF OutputInv, OpenedInv
    <3> QED
      BY <2>1, <3>1 DEF OutputInv, HitsInv
  <2>3. Settled => numHits = Len(HitsOf(opened))
    BY DEF Settled, OutputInv, HitsInv, Busy
  <2>4. ASSUME ~Counts(opts)
        PROVE  /\ Len(out) = numHits
               /\ \A i \in DOMAIN out : LineOfHit(out[i], i)
    <3>1. IsSequence(out) /\ Len(out) = numHits
      BY <2>4 DEF OutputInv, LinesInv
    <3>2. DOMAIN out = 1..numHits
      BY <3>1, AppendSequence
    <3> QED
      BY <2>4, <3>1, <3>2 DEF OutputInv, LinesInv
  <2> QED
    BY <2>2, <2>3, <2>4 DEF OutputPromise, LineOfHit
<1> QED
  BY <1>1, OutputInvariance, PTL

\* A hit's context is the lines around it (hitwriter.cpp:83-151).
THEOREM ContextLinesAlways == Spec => []ContextLines
<1>1. Init => ContextLines
  BY DEF Init, ContextLines
<1>2. Inv /\ OutputInv /\ ContextLines /\ [Next]_vars => ContextLines'
  <2> SUFFICES ASSUME Inv, OutputInv, ContextLines, UNCHANGED vars PROVE ContextLines'
    BY ContextNext
  <2> QED
    BY DEF vars, ContextLines, HasItsLines, opts
<1> QED
  BY <1>1, <1>2, OutputInvariance, PTL DEF Spec

\* Between files, the bytes counted are those of the files (searchcontroller.cpp:60-64).
THEOREM TotalsAgreeAlways == Spec => []TotalsAgree
<1>1. Inv /\ OutputInv => TotalsAgree
  <2> SUFFICES ASSUME Inv, OutputInv, Settled PROVE bytesSearched = Len(BytesOf(opened))
    BY DEF TotalsAgree
  <2>1. bytesSearched + 0 = Len(BytesOf(opened))
    BY DEF Settled, OutputInv, TotalsInv, Busy
  <2> QED
    BY <2>1, OutputTypes DEF OutputInv
<1> QED
  BY <1>1, OutputInvariance, PTL
=============================================================================
