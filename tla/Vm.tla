---------------------------------- MODULE Vm ----------------------------------
(***************************************************************************)
(* The search context of lightgrep (src/src/lib/vm.cpp): a Pike-style      *)
(* virtual machine that runs one compiled program over a byte stream fed   *)
(* in buffers.  Every step of the machine is one action: the byte          *)
(* instruction of one thread, one epsilon instruction, the end of an       *)
(* epsilon sequence, the creation of threads, the end of a frame.          *)
(*                                                                         *)
(* The C++ recursion of FORK_OP is the stack "forks" of saved copies; the  *)
(* iterator t of the source is the index t into Active.  Offsets are       *)
(* absolute and the stream starts at 0, so text[k+1] is the byte at k.     *)
(***************************************************************************)
EXTENDS Integers, Sequences

CONSTANTS
  Programs,  \* the compiled programs a context may run, records (see Compiler.tla)
  Texts,     \* the byte streams a client may search
  HitFns,    \* the callbacks a client passes: TRUE a function, FALSE null
  Calls      \* the calls a client makes

None    == -1   \* Thread::NONE, 2^64-1: NONE + 1 wraps to 0 there, and is 0 here
NoLabel == -1   \* Thread::NOLABEL
Null    == -1   \* a null PC

VARIABLES
  prog,          \* the program of this context, fixed
  text,          \* the stream, fixed
  active, next, first,          \* Active, Next, First: sequences of threads
  checkLabels, liveNoLabel, live,
  matchEnds, matchEndsMax,
  curHitFn,
  call,          \* the API call in progress, or "idle"
  stage,         \* the loop of that call the machine is in
  t,             \* the iterator into active
  forks,         \* threads saved by FORK_OP, innermost first
  spawned,       \* this frame has created its threads, or creates none
  hadRealOps,    \* local of searchResolve
  cur, bufEnd,   \* offset of the current byte, and of the end of the buffer
  hits,          \* history: the hits given to the callback since the last reset
  returned,      \* the value the last search or searchResolve returned
  resolveFrom,   \* history: offset at which searchResolve took over, or None
  closed         \* history: the stream was closed since the last reset

threadVars == <<active, next, first>>
flagVars   == <<checkLabels, liveNoLabel, live>>
matchVars  == <<matchEnds, matchEndsMax>>
controlVars == <<call, stage, t, forks, spawned, hadRealOps>>
bufferVars == <<cur, bufEnd>>
clientVars == <<hits, returned, resolveFrom, closed>>
input      == <<prog, text>>
vars == <<input, threadVars, flagVars, matchVars, curHitFn, controlVars,
          bufferVars, clientVars>>

code == prog.code
Labels == 0..prog.maxLabel

\* Size of an instruction, in 4-byte words, with the operands of FORK and JUMP.
Size(in) == CASE in.op = "BIT_VECTOR" -> 9
              [] in.op \in {"FORK", "JUMP"} -> 2
              [] OTHER -> 1

ByteOps == {"BYTE", "EITHER", "RANGE", "BIT_VECTOR", "ANY", "JUMP_TABLE_RANGE"}
FallsThrough == {"BYTE", "EITHER", "RANGE", "BIT_VECTOR", "ANY", "FORK", "CHECK_HALT", "LABEL",
                 "MATCH"}

\* Where control may go from address x of program p.
Targets(p, x) ==
  LET in == p.code[x] IN
  {y \in {x + Size(in)} : in.op \in FallsThrough}
  \cup (IF in.op \in {"FORK", "JUMP"} THEN {in.target} ELSE {})
  \cup (IF in.op = "JUMP_TABLE_RANGE"
        THEN {in.table[y] : y \in in.first..in.last} \ {0} ELSE {})

\* What the compiler guarantees of a program.
WellFormed(p) ==
  /\ p.maxLabel \in Nat /\ p.maxCheck \in Nat /\ p.filterOff \in Nat
  /\ DOMAIN p.code \subseteq Nat
  /\ 0 \in DOMAIN p.code
  /\ p.guard \in DOMAIN p.code /\ p.code[p.guard].op = "HALT"
  /\ \A x \in DOMAIN p.code :
       /\ Targets(p, x) \subseteq DOMAIN p.code
       /\ p.code[x].op = "LABEL" => p.code[x].offset \in 0..p.maxLabel
       /\ p.code[x].op = "CHECK_HALT" => p.code[x].offset \in 1..p.maxCheck

ASSUME ProgramsAssumption == \A p \in Programs : WellFormed(p)
ASSUME InputAssumption == Texts \subseteq Seq(0..255) /\ HitFns \subseteq BOOLEAN

NewThread(pc, start) ==
  [pc |-> pc, label |-> NoLabel, start |-> start, end |-> None, lead |-> FALSE]

\* Faulty variants, for the sensitivity checks of README.md: CHECK_HALT does not
\* advance the thread; operands are not skipped.
AdvanceNotAtCheckHalt(th) ==
  [th EXCEPT !.pc = IF code[@].op = "CHECK_HALT" THEN @ ELSE @ + Size(code[@])]
AdvanceOneWord(th) == [th EXCEPT !.pc = @ + 1]

Advance(th) == [th EXCEPT !.pc = @ + Size(code[@])]
Dead(th)    == [th EXCEPT !.pc = Null]
-----------------------------------------------------------------------------
(* Byte instructions: _execute.                                            *)

\* The byte instructions that are not a jump table.
Consumes(in, b) ==
  \/ in.op = "BYTE"       /\ (b = in.byte) # in.negate
  \/ in.op = "EITHER"     /\ (b \in {in.first, in.last}) # in.negate
  \/ in.op = "RANGE"      /\ (b \in in.first..in.last) # in.negate
  \/ in.op = "BIT_VECTOR" /\ b \in in.bytes
  \/ in.op = "ANY"

TableEntry(in, b) == IF b \in in.first..in.last THEN in.table[b] ELSE 0

\* The threads th becomes on byte b: none if it dies.
ByteSuccessors(th, b) ==
  LET in == code[th.pc] IN
  CASE in.op = "FINISH"           -> {th}
    [] in.op = "JUMP_TABLE_RANGE" -> {[th EXCEPT !.pc = a] : a \in {TableEntry(in, b)} \ {0}}
    [] OTHER                      -> {u \in {Advance(th)} : Consumes(in, b)}
-----------------------------------------------------------------------------
\* Faulty variant: any label counts.
IsAnyLive(label) == liveNoLabel \/ live # {}

IsLive(label) == liveNoLabel \/ label \in live

\* _liveCheck: does something of higher priority stand before this thread?
LiveCheck(th) == IF th.label = NoLabel
                 THEN next # <<>> \/ th.start < matchEndsMax
                 ELSE IsLive(th.label)

\* Entry of _executeEpSequence: the thread overlaps an emitted match.
Overlaps(th) == th.label # NoLabel /\ th.start < matchEnds[th.label]

Hit(th) == [start |-> th.start, end |-> th.end + 1, label |-> th.label]

\* Faulty variant: MatchEnds takes the offset of the last byte for the end.
AcceptLastByte(th) ==
  /\ matchEnds' = [matchEnds EXCEPT ![th.label] = th.end]
  /\ hits' = IF curHitFn THEN Append(hits, Hit(th)) ELSE hits

\* A finished thread becomes a hit of its label.
Accept(th) ==
  /\ matchEnds' = [matchEnds EXCEPT ![th.label] = th.end + 1]
  /\ hits' = IF curHitFn THEN Append(hits, Hit(th)) ELSE hits
-----------------------------------------------------------------------------
(* The constructor: the epsilon sequence from the start of the program,    *)
(* whose survivors become First.                                           *)

Init ==
  /\ prog \in Programs
  /\ text \in Texts
  /\ active = <<NewThread(0, 0)>> /\ next = <<>> /\ first = <<>>
  /\ checkLabels = {} /\ liveNoLabel = FALSE /\ live = {}
  /\ matchEnds = [l \in Labels |-> 0] /\ matchEndsMax = 0
  /\ curHitFn = FALSE
  /\ call = "construct" /\ stage = "epsilon"
  /\ t = 1 /\ forks = <<>> /\ spawned = TRUE /\ hadRealOps = FALSE
  /\ cur = 0 /\ bufEnd = 0
  /\ hits = <<>> /\ returned = 0 /\ resolveFrom = None /\ closed = FALSE

ResetState ==
  /\ active' = <<>> /\ next' = <<>>
  /\ checkLabels' = {} /\ liveNoLabel' = FALSE /\ live' = {}
  /\ matchEnds' = [l \in Labels |-> 0] /\ matchEndsMax' = 0
  /\ curHitFn' = FALSE

\* (The source leaves the last survivor unmarked, which nothing can observe here.)
Constructed ==
  /\ call = "construct" /\ stage = "thread" /\ t > Len(active)
  /\ first' = next
  /\ ResetState
  /\ call' = "idle" /\ stage' = "frame" /\ t' = 1
  /\ UNCHANGED <<input, forks, spawned, hadRealOps, bufferVars, clientVars>>
-----------------------------------------------------------------------------
(* Calls of the API (lg_search, lg_search_resolve, lg_closeout_search,     *)
(* lg_starts_with, lg_reset_context).  Buffers are contiguous: a call gets *)
(* the bytes that follow those already given.                              *)

Begin(name, n, fn) ==
  /\ call = "idle" /\ ~closed
  /\ call' = name
  /\ curHitFn' = fn
  /\ cur + n <= Len(text)
  /\ bufEnd' = cur + n
  /\ UNCHANGED <<input, next, first, flagVars, matchVars, forks, spawned, cur,
                 hits, returned>>

Search(n, fn) ==
  /\ "search" \in Calls
  /\ Begin("search", n, fn)
  /\ resolveFrom = None
  /\ UNCHANGED <<active, stage, t, hadRealOps, resolveFrom, closed>>

SearchResolve(n, fn) ==
  /\ "searchResolve" \in Calls
  /\ Begin("searchResolve", n, fn)
  /\ hadRealOps' = TRUE
  /\ resolveFrom' = IF resolveFrom = None THEN cur ELSE resolveFrom
  /\ UNCHANGED <<active, stage, t, closed>>

\* Faulty variant: the window is taken at the start itself.
PassesFilterAtStart(o) == <<text[o + 1], text[o + 2]>> \in prog.filter

\* The window of two bytes that the filter looks at for a start at offset o.
PassesFilter(o) ==
  <<text[o + prog.filterOff + 1], text[o + prog.filterOff + 2]>> \in prog.filter

Fresh(start) == [k \in 1..Len(first) |-> NewThread(first[k].pc, start)]

\* A fresh context runs First over one buffer; the call closes out and resets
\* by itself, and does neither when the filter rejects the buffer.
StartsWith(n, fn) ==
  /\ "startsWith" \in Calls
  /\ cur = 0
  /\ closed' = TRUE
  /\ \/ /\ n = 1 \/ (prog.filterOff < n - 1 /\ PassesFilter(cur))
        /\ Begin("startsWith", n, fn)
        /\ active' = Fresh(cur)
     \/ /\ ~(n = 1 \/ (prog.filterOff < n - 1 /\ PassesFilter(cur)))
        /\ Begin("idle", n, fn)
        /\ UNCHANGED active
  /\ UNCHANGED <<stage, t, hadRealOps, resolveFrom>>

\* Without a callback closeOut returns at once.
CloseOut(fn) ==
  /\ "closeOut" \in Calls
  /\ Begin("closeOut", 0, fn)
  /\ closed' = TRUE
  /\ stage' = "closeOut"
  /\ t' = IF fn THEN 1 ELSE Len(active) + 1
  /\ UNCHANGED <<active, hadRealOps, resolveFrom>>

\* The client resets the context and starts the stream again.
Reset ==
  /\ "reset" \in Calls
  /\ call = "idle"
  /\ ResetState
  /\ cur' = 0 /\ bufEnd' = 0
  /\ hits' = <<>> /\ returned' = 0 /\ resolveFrom' = None /\ closed' = FALSE
  /\ UNCHANGED <<input, first, controlVars>>
-----------------------------------------------------------------------------
(* Frames: one byte of the buffer against every thread.                    *)

Running == call \in {"search", "searchResolve", "startsWith"}

MoreFrames ==
  /\ cur < bufEnd
  /\ call # "search" => active # <<>>
  /\ call = "searchResolve" => hadRealOps

BeginFrame ==
  /\ Running /\ stage = "frame" /\ MoreFrames
  /\ stage' = "thread" /\ t' = 1
  /\ spawned' = (call # "search")
  /\ hadRealOps' = FALSE
  /\ UNCHANGED <<input, threadVars, flagVars, matchVars, curHitFn, call, forks,
                 bufferVars, clientVars>>

\* _executeThread, up to the epsilon sequence.
ExecuteThread ==
  /\ Running /\ stage = "thread" /\ t <= Len(active)
  /\ hadRealOps' = (hadRealOps \/ code[active[t].pc].op \notin {"HALT", "FINISH"})
  /\ LET alive == {u \in ByteSuccessors(active[t], text[cur + 1]) : ~Overlaps(u)} IN
     \/ /\ alive = {}
        /\ t' = t + 1
        /\ UNCHANGED <<active, stage>>
     \/ /\ \E u \in alive : active' = [active EXCEPT ![t] = u]
        /\ stage' = "epsilon"
        /\ UNCHANGED t
  /\ UNCHANGED <<input, next, first, flagVars, matchVars, curHitFn, call, forks,
                 spawned, bufferVars, clientVars>>

\* _executeNewThreads, in search only.  The filter guards the offsets whose
\* window lies in the buffer.
SpawnThreads ==
  /\ Running /\ stage = "thread" /\ t > Len(active) /\ ~spawned
  /\ spawned' = TRUE
  /\ active' = IF cur < bufEnd - prog.filterOff - 1 => PassesFilter(cur)
               THEN active \o Fresh(cur)
               ELSE active
  /\ UNCHANGED <<input, next, first, flagVars, matchVars, curHitFn, call, stage, t,
                 forks, hadRealOps, bufferVars, clientVars>>

\* _cleanup, and on to the next byte.
Cleanup ==
  /\ Running /\ stage = "thread" /\ t > Len(active) /\ spawned
  /\ active' = next /\ next' = <<>>
  /\ checkLabels' = {} /\ liveNoLabel' = FALSE /\ live' = {}
  /\ stage' = "frame" /\ t' = 1
  /\ cur' = cur + 1
  /\ UNCHANGED <<input, first, matchVars, curHitFn, call, forks, spawned, hadRealOps,
                 bufEnd, clientVars>>

\* _startOfLeftmostLiveThread
LiveIndices == {k \in 1..Len(active) : code[active[k].pc].op \notin {"HALT", "FINISH"}}

\* Faulty variant: the last live thread bounds the others.
StartOfLastLiveThread ==
  IF LiveIndices = {} THEN cur
  ELSE active[CHOOSE k \in LiveIndices : \A j \in LiveIndices : k >= j].start

StartOfLeftmostLiveThread ==
  IF LiveIndices = {} THEN cur
  ELSE active[CHOOSE k \in LiveIndices : \A j \in LiveIndices : k <= j].start

\* search and searchResolve return; the client counts the whole buffer as given.
ReturnLeftmost ==
  /\ call \in {"search", "searchResolve"} /\ stage = "frame" /\ ~MoreFrames
  /\ returned' = StartOfLeftmostLiveThread
  /\ call' = "idle" /\ spawned' = TRUE /\ hadRealOps' = FALSE
  /\ cur' = bufEnd
  /\ UNCHANGED <<input, threadVars, flagVars, matchVars, curHitFn, stage, t, forks,
                 bufEnd, hits, resolveFrom, closed>>
-----------------------------------------------------------------------------
(* Epsilon instructions: _executeEpsilon.                                  *)

At(op) == stage = "epsilon" /\ code[active[t].pc].op = op
SetThread(u) == active' = [active EXCEPT ![t] = u]

EpsilonUnchanged == UNCHANGED <<input, first, curHitFn, call, t, spawned, hadRealOps,
                                bufferVars, returned, resolveFrom, closed>>

\* What follows the finishing thread and its match makes pointless.
Killed(k) ==
  /\ k > t
  /\ active[t].end = cur
  /\ active[k].label = active[t].label
  /\ active[t].lead \/ \A j \in t + 1 .. k : active[j].start = active[t].start

AfterKills == [k \in 1..Len(active) |->
                 IF Killed(k) THEN [active[k] EXCEPT !.pc = prog.guard] ELSE active[k]]

\* A live thread of higher priority may still take this match's place.
FinishWaits ==
  /\ At("FINISH") /\ IsLive(active[t].label)
  /\ active' = AfterKills
  /\ stage' = "settle"
  /\ UNCHANGED <<next, flagVars, matchVars, forks, hits>>
  /\ EpsilonUnchanged

FinishReports ==
  /\ At("FINISH") /\ ~IsLive(active[t].label)
  /\ LET th == active[t] IN
     /\ active' = [AfterKills EXCEPT ![t] = Dead(th)]
     /\ \/ /\ th.start >= matchEnds[th.label]
           /\ Accept(th)
           /\ matchEndsMax' = IF th.end + 1 > matchEndsMax THEN th.end + 1 ELSE matchEndsMax
        \/ /\ th.start < matchEnds[th.label]
           /\ UNCHANGED <<matchVars, hits>>
  /\ stage' = "settle"
  /\ UNCHANGED <<next, flagVars, forks>>
  /\ EpsilonUnchanged

\* The parent runs on, unless it overlaps a match already; the saved copy
\* takes its place in active when its sequence has ended.
Fork ==
  /\ At("FORK")
  /\ LET th == active[t] IN
     \/ /\ ~Overlaps(th)
        /\ forks' = <<th>> \o forks
        /\ SetThread(Advance(th))
     \/ /\ Overlaps(th)
        /\ SetThread([th EXCEPT !.pc = code[@].target])
        /\ UNCHANGED forks
  /\ UNCHANGED <<stage, next, flagVars, matchVars, hits>>
  /\ EpsilonUnchanged

Jump ==
  /\ At("JUMP")
  /\ SetThread([active[t] EXCEPT !.pc = code[@].target])
  /\ UNCHANGED <<stage, forks, next, flagVars, matchVars, hits>>
  /\ EpsilonUnchanged

\* Die where a thread of higher priority has been; lock the state when nothing
\* of higher priority could still fail and leave the match to a later thread.
CheckHalt ==
  /\ At("CHECK_HALT")
  /\ LET th == active[t]  c == code[th.pc].offset IN
     \/ /\ c \in checkLabels
        /\ SetThread(Dead(th))
        /\ stage' = "settle"
        /\ UNCHANGED checkLabels
     \/ /\ c \notin checkLabels
        /\ checkLabels' = IF LiveCheck(th) THEN checkLabels ELSE checkLabels \cup {c}
        /\ SetThread(Advance(th))
        /\ UNCHANGED stage
  /\ UNCHANGED <<forks, next, liveNoLabel, live, matchVars, hits>>
  /\ EpsilonUnchanged

Label ==
  /\ At("LABEL")
  /\ LET th == active[t]  label == code[th.pc].offset IN
     \/ /\ th.start >= matchEnds[label]
        /\ SetThread(Advance([th EXCEPT !.label = label]))
        /\ UNCHANGED stage
     \/ /\ th.start < matchEnds[label]
        /\ SetThread(Dead(th))
        /\ stage' = "settle"
  /\ UNCHANGED <<forks, next, flagVars, matchVars, hits>>
  /\ EpsilonUnchanged

\* Faulty variant: every match leads.
MatchLeads ==
  /\ At("MATCH")
  /\ SetThread(Advance([active[t] EXCEPT !.end = cur, !.lead = TRUE]))
  /\ UNCHANGED <<stage, forks, next, flagVars, matchVars, hits>>
  /\ EpsilonUnchanged

Match ==
  /\ At("MATCH")
  /\ SetThread(Advance([active[t] EXCEPT !.end = cur, !.lead = ~IsLive(active[t].label)]))
  /\ UNCHANGED <<stage, forks, next, flagVars, matchVars, hits>>
  /\ EpsilonUnchanged

\* A byte instruction ends the sequence, the thread waits for the next byte;
\* so does HALT, where it dies.
EndSequence ==
  /\ stage = "epsilon"
  /\ LET th == active[t] IN
     \/ code[th.pc].op \in ByteOps /\ UNCHANGED active
     \/ code[th.pc].op = "HALT" /\ SetThread(Dead(th))
  /\ stage' = "settle"
  /\ UNCHANGED <<forks, next, flagVars, matchVars, hits>>
  /\ EpsilonUnchanged

\* Faulty variants: a survivor goes before the others; one that has no label yet
\* is not marked.
SurviveInFront ==
  IF active[t].pc = Null THEN UNCHANGED <<next, liveNoLabel, live>>
  ELSE /\ next' = <<active[t]>> \o next
       /\ liveNoLabel' = (liveNoLabel \/ active[t].label = NoLabel)
       /\ live' = live \cup ({active[t].label} \ {NoLabel})
SurviveUnmarked ==
  IF active[t].pc = Null THEN UNCHANGED <<next, liveNoLabel, live>>
  ELSE /\ next' = Append(next, active[t])
       /\ live' = live \cup ({active[t].label} \ {NoLabel})
       /\ UNCHANGED liveNoLabel

\* The end of an epsilon sequence: a survivor goes to next and is marked live;
\* then the innermost saved copy takes its jump.
Survive ==
  IF active[t].pc = Null THEN UNCHANGED <<next, liveNoLabel, live>>
  ELSE /\ next' = Append(next, active[t])
       /\ liveNoLabel' = (liveNoLabel \/ active[t].label = NoLabel)
       /\ live' = live \cup ({active[t].label} \ {NoLabel})

Settle ==
  /\ stage = "settle"
  /\ Survive
  /\ \/ /\ forks = <<>>
        /\ stage' = "thread" /\ t' = t + 1
        /\ UNCHANGED <<active, forks>>
     \/ /\ forks # <<>>
        /\ SetThread([Head(forks) EXCEPT !.pc = code[@].target])
        /\ forks' = Tail(forks)
        /\ stage' = "epsilon"
        /\ UNCHANGED t
  /\ UNCHANGED <<input, first, checkLabels, matchVars, curHitFn, call, spawned,
                 hadRealOps, bufferVars, clientVars>>
-----------------------------------------------------------------------------
(* closeOut, and the end of startsWith.                                    *)

EndStartsWith ==
  /\ call = "startsWith" /\ stage = "frame" /\ ~MoreFrames
  /\ stage' = "closeOut"
  /\ t' = IF curHitFn THEN 1 ELSE Len(active) + 1
  /\ UNCHANGED <<input, threadVars, flagVars, matchVars, curHitFn, call, forks, spawned,
                 hadRealOps, bufferVars, clientVars>>

CloseThread ==
  /\ stage = "closeOut" /\ t <= Len(active)
  /\ LET th == active[t]
         pending == code[th.pc].op = "FINISH" /\ th.start >= matchEnds[th.label] IN
     IF pending THEN Accept(th) ELSE UNCHANGED <<matchEnds, hits>>
  /\ t' = t + 1
  /\ UNCHANGED <<input, threadVars, flagVars, matchEndsMax, curHitFn, call, stage, forks,
                 spawned, hadRealOps, bufferVars, returned, resolveFrom, closed>>

Closed ==
  /\ stage = "closeOut" /\ t > Len(active)
  /\ IF call = "startsWith" THEN ResetState
     ELSE UNCHANGED <<active, next, flagVars, matchVars, curHitFn>>
  /\ call' = "idle" /\ stage' = "frame" /\ t' = 1
  /\ UNCHANGED <<input, first, forks, spawned, hadRealOps, bufferVars, clientVars>>
-----------------------------------------------------------------------------
EpsilonStep == FinishWaits \/ FinishReports \/ Fork \/ Jump \/ CheckHalt \/ Label
               \/ Match \/ EndSequence

\* The steps of the machine itself: a call in progress runs on.
Step == Constructed \/ BeginFrame \/ ExecuteThread \/ SpawnThreads \/ Cleanup
        \/ ReturnLeftmost \/ EpsilonStep \/ Settle
        \/ EndStartsWith \/ CloseThread \/ Closed

ClientCall ==
  \/ \E n \in 0..Len(text), fn \in HitFns : Search(n, fn)
  \/ \E n \in 0..Len(text), fn \in HitFns : SearchResolve(n, fn)
  \/ \E n \in 1..Len(text), fn \in HitFns : StartsWith(n, fn)
  \/ \E fn \in HitFns : CloseOut(fn)
  \/ Reset

Next == Step \/ ClientCall

Spec == Init /\ [][Next]_vars /\ WF_vars(Step)
-----------------------------------------------------------------------------
(* Properties.                                                             *)

Thread == [pc: DOMAIN code \cup {Null}, label: Labels \cup {NoLabel}, start: Nat,
           end: Nat \cup {None}, lead: BOOLEAN]
RealThread == {u \in Thread : u.pc # Null}

StateTypes ==
  /\ checkLabels \subseteq 1..prog.maxCheck
  /\ live \subseteq Labels
  /\ matchEnds \in [Labels -> Nat] /\ matchEndsMax \in Nat
  /\ call \in {"construct", "idle", "search", "searchResolve", "startsWith", "closeOut"}
  /\ stage \in {"frame", "thread", "epsilon", "settle", "closeOut"}
  /\ cur \in Nat /\ bufEnd \in Nat /\ cur <= bufEnd /\ bufEnd <= Len(text)
  /\ hits \in Seq([start: Nat, end: Nat, label: Labels])
  /\ returned \in Nat /\ resolveFrom \in Nat \cup {None}

FlagTypes ==
  /\ liveNoLabel \in BOOLEAN /\ curHitFn \in BOOLEAN
  /\ spawned \in BOOLEAN /\ hadRealOps \in BOOLEAN /\ closed \in BOOLEAN

\* A dead thread stays in active before t, or at t while its sequence ends.
ThreadTypes ==
  /\ next \in Seq(RealThread) /\ first \in Seq(RealThread) /\ forks \in Seq(RealThread)
  /\ active \in Seq(Thread)
  /\ t \in 1..Len(active) + 1
  /\ stage \in {"epsilon", "settle"} => t <= Len(active)
  /\ \A k \in t..Len(active) : active[k].pc = Null => stage = "settle" /\ k = t

\* The types of the state, and that a thread yet to run has a place in the program.
TypeOK == FlagTypes /\ StateTypes /\ ThreadTypes

\* Every thread of this frame in order of priority: those that survived, the one
\* that runs, its saved copies, those yet to run.
InPriority ==
  CASE stage = "frame" \/ stage = "closeOut" -> active
    [] stage = "thread" -> next \o SubSeq(active, t, Len(active))
    [] OTHER -> next \o <<active[t]>> \o forks \o SubSeq(active, t + 1, Len(active))

\* The order of the threads is the order of their starts: FINISH_OP stops at the
\* first thread with another start, search takes the first live one as leftmost.
PriorityOrder ==
  LET s == InPriority IN \A i, j \in DOMAIN s : i < j => s[i].start <= s[j].start

\* Live and LiveNoLabel say which labels have a thread in Next, nothing older.
FlagsMatchNext ==
  /\ liveNoLabel <=> \E k \in DOMAIN next : next[k].label = NoLabel
  /\ live = {next[k].label : k \in DOMAIN next} \ {NoLabel}

Blocks(u, v) == u.label \in {NoLabel, v.label}

\* Between frames, a thread that has its match and has not reported it stands
\* behind one that still reads bytes and may take the match's place: no match is
\* held back for nothing, and the leftmost live thread bounds the waiting ones.
FinishedWaitForLive ==
  stage = "frame" =>
    \A k \in DOMAIN active : code[active[k].pc].op = "FINISH" =>
      \E j \in 1..k - 1 : Blocks(active[j], active[k]) /\ code[active[j].pc].op \in ByteOps

\* A lead thread, whose match ends every other thread of its label, has nothing
\* before it but what came from its own start.
LeadIsFirst ==
  stage = "frame" =>
    \A k \in DOMAIN active : active[k].lead =>
      \A j \in 1..k - 1 : Blocks(active[j], active[k]) => active[j].start = active[k].start

\* The hits of one label are in order and do not overlap, and MatchEnds remembers
\* the end of the last one; none is empty.
HitsDisjoint ==
  /\ \A k \in DOMAIN hits : hits[k].start < hits[k].end
  /\ \A j, k \in DOMAIN hits : j < k /\ hits[j].label = hits[k].label
                               => hits[j].end <= hits[k].start

\* The value search returns bounds what is still to come (api.h, lg_search): no
\* later hit of the stream starts before it.
ReturnBoundsLaterHits ==
  [][\A k \in DOMAIN hits' \ DOMAIN hits : hits'[k].start >= returned]_vars

\* Every call returns: no epsilon loop, and every frame comes to its end.
CallsReturn == call # "idle" ~> call = "idle"
=============================================================================
