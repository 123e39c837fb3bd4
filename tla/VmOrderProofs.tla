------------------------------ MODULE VmOrderProofs ------------------------------
(***************************************************************************)
(* Proofs about priorities in the search context: the order of threads is  *)
(* the order of their starts, the live flags describe Next, no match is    *)
(* held back without a thread that may take its place, and therefore the   *)
(* value that search returns bounds every later hit.                       *)
(***************************************************************************)
EXTENDS VmProofs

\* Flow(p).carried: the labels, or none, that a thread may have at an address.  What
\* labelGuardStates (nfaoptimizer.cpp:278-330) guarantees of a program: a label that a
\* thread has got stays, it comes before the match, and a thread may be killed with any.
LabelsFixed(p) ==
  LET carried == Flow(p).carried IN
  /\ 0..p.maxLabel \cup {NoLabel} \subseteq carried[p.guard]
  /\ \A x \in DOMAIN p.code :
       /\ x \in Flow(p).initial => NoLabel \in carried[x]
       /\ p.code[x].op = "LABEL" => carried[x] \subseteq {NoLabel, p.code[x].offset}
       /\ p.code[x].op = "MATCH" => x \in Flow(p).labelled
       /\ \A y \in Targets(p, x) :
            IF p.code[x].op = "LABEL" THEN p.code[x].offset \in carried[y]
            ELSE carried[x] \subseteq carried[y]

ASSUME LabelsAssumption == \A p \in Programs : LabelsFixed(p)

Sorted(s) == \A i, j \in 1..Len(s) : i < j => s[i].start <= s[j].start

Op(u) == code[u.pc].op

\* The threads of a frame from the runner on, all of them when the stream is closed.
Pending(k) == k >= t \/ stage = "closeOut"

\* The order, in the parts that a step changes on its own: the threads to run, the
\* survivors, these against those, and the saved copies, which are the runner's.
OrderInv ==
  /\ \A i, j \in 1..Len(active) : i < j /\ Pending(i) => active[i].start <= active[j].start
  /\ Sorted(next)
  /\ \A i \in 1..Len(next), k \in t..Len(active) : next[i].start <= active[k].start
  /\ stage \in {"epsilon", "settle"} => \A k \in 1..Len(forks) : forks[k].start = active[t].start
  /\ stage \in {"frame", "closeOut"} => next = <<>>

\* Threads at the end of their epsilon sequence: one that has finished stands behind
\* one that reads on and may take its place.
Settled(s) ==
  \A k \in 1..Len(s) :
    /\ Op(s[k]) \in ByteOps \cup {"FINISH"}
    /\ Op(s[k]) = "FINISH" => \E j \in 1..k - 1 : Blocks(s[j], s[k]) /\ Op(s[j]) \in ByteOps

WaitInv ==
  /\ Settled(next)
  /\ stage \in {"frame", "closeOut"} => Settled(active)
  /\ \A k \in 1..Len(first) : Op(first[k]) \in ByteOps
  /\ stage = "settle" /\ active[t].pc # Null =>
       \/ Op(active[t]) \in ByteOps
       \/ Op(active[t]) = "FINISH" /\ IsLive(active[t].label)

\* A label is one that the address allows, and a lead thread has one.
Carries(u) ==
  /\ u.label \in Flow(prog).carried[u.pc]
  /\ u.lead => u.label # NoLabel

\* v, behind u, leads only if u may not take the place of its match or is of its start.
Yields(u, v) == v.lead /\ Blocks(u, v) => u.start = v.start

\* Of any two threads of a frame the later yields to the earlier: the threads to run,
\* the survivors, the saved copies, and each of these against those behind it.
LeadInv ==
  /\ \A i, j \in 1..Len(active) : i < j /\ Pending(i) => Yields(active[i], active[j])
  /\ \A i, j \in 1..Len(next) : i < j => Yields(next[i], next[j])
  /\ \A i \in 1..Len(next), k \in t..Len(active) : Yields(next[i], active[k])
  /\ \A i \in 1..Len(next), k \in 1..Len(forks) : Yields(next[i], forks[k])
  /\ \A i \in 1..Len(forks), k \in t + 1..Len(active) : Yields(forks[i], active[k])

CarriesInv ==
  /\ \A k \in 1..Len(active) : Pending(k) /\ active[k].pc # Null => Carries(active[k])
  /\ \A k \in 1..Len(next) : Carries(next[k])
  /\ \A k \in 1..Len(forks) : Carries(forks[k])

\* No thread that may report later starts before the value last returned.
ReturnInv ==
  /\ returned <= cur
  /\ \A k \in 1..Len(active) : Pending(k) => active[k].start >= returned
  /\ \A k \in 1..Len(next) : next[k].start >= returned
-----------------------------------------------------------------------------
\* The types of the lists, for the provers.
LEMMA ListTypes ==
  ASSUME Inv
  PROVE  /\ active \in Seq(Thread) /\ next \in Seq(Thread) /\ forks \in Seq(Thread)
         /\ first \in Seq(Thread)
         /\ Len(active) \in Nat /\ Len(next) \in Nat /\ Len(forks) \in Nat /\ Len(first) \in Nat
         /\ t \in 1..Len(active) + 1
         /\ \A k \in 1..Len(active) : active[k] \in Thread /\ active[k].start \in Nat
         /\ \A k \in 1..Len(next) : next[k] \in Thread /\ next[k].start \in Nat /\ next[k].start <= cur
         /\ \A k \in 1..Len(forks) : forks[k] \in Thread /\ forks[k].start \in Nat
         /\ cur \in Nat /\ bufEnd \in Nat /\ cur <= bufEnd /\ returned \in Nat
<1>1. RealThread \subseteq Thread /\ \A u \in Thread : u.start \in Nat
  BY DEF RealThread, Thread
<1>2. active \in Seq(Thread) /\ t \in 1..Len(active) + 1
  BY DEF Inv, ActiveOK
<1>3. /\ next \in Seq(RealThread) /\ forks \in Seq(RealThread) /\ first \in Seq(RealThread)
      /\ \A k \in DOMAIN next : Fit(next[k])
  BY DEF Inv, NextOK, ForksOK, FirstOK
<1>4. next \in Seq(Thread) /\ forks \in Seq(Thread) /\ first \in Seq(Thread)
  BY <1>1, <1>3
<1>5. /\ \A k \in 1..Len(active) : active[k] \in Thread
      /\ \A k \in 1..Len(next) : next[k] \in Thread
      /\ \A k \in 1..Len(forks) : forks[k] \in Thread
  BY <1>2, <1>4
<1>6. \A k \in 1..Len(next) : next[k].start <= cur
  BY <1>3 DEF Fit
<1> QED
  BY <1>1, <1>2, <1>4, <1>5, <1>6, SMTT(60) DEF Inv, StateTypes

\* Replacing a thread by any value keeps the length and the other threads.
LEMMA ReplaceAny ==
  ASSUME NEW S, NEW s \in Seq(S), NEW i \in 1..Len(s), NEW e
  PROVE  /\ Len([s EXCEPT ![i] = e]) = Len(s)
         /\ [s EXCEPT ![i] = e][i] = e
         /\ \A k \in 1..Len(s) : k # i => [s EXCEPT ![i] = e][k] = s[k]
<1>1. s \in Seq(S \cup {e})
  OBVIOUS
<1> QED
  BY <1>1, ReplaceElement

\* The elements of a concatenation.
LEMMA ConcatElements ==
  ASSUME NEW S, NEW s \in Seq(S), NEW r \in Seq(S)
  PROVE  /\ s \o r \in Seq(S) /\ Len(s \o r) = Len(s) + Len(r)
         /\ \A k \in 1..Len(s \o r) :
              (s \o r)[k] = IF k <= Len(s) THEN s[k] ELSE r[k - Len(s)]
<1>1. Len(s) \in Nat /\ Len(r) \in Nat
  OBVIOUS
<1>2. Len(s \o r) = Len(s) + Len(r)
  BY ConcatProperties
<1>3. \A k \in 1..Len(s) + Len(r) : (s \o r)[k] = IF k <= Len(s) THEN s[k] ELSE r[k - Len(s)]
  BY ConcatProperties
<1> QED
  BY <1>1, <1>2, <1>3, ConcatProperties

\* What an instruction does to a thread leaves its start alone (thread.h).
LEMMA SameStart ==
  ASSUME NEW u \in Thread
  PROVE  /\ Advance(u).start = u.start
         /\ Dead(u).start = u.start /\ Dead(u).pc = Null
         /\ \A y : [u EXCEPT !.pc = y].start = u.start
         /\ \A l : Advance([u EXCEPT !.label = l]).start = u.start
         /\ \A e, b : Advance([u EXCEPT !.end = e, !.lead = b]).start = u.start
BY DEF Advance, Dead, Thread

\* Every instruction of an epsilon sequence (vm.cpp:260-401) leaves Next, the live flags
\* and all starts alone; a thread ends its sequence dead, at a byte instruction, or
\* finished behind a live thread.
LEMMA EpsilonShape ==
  ASSUME Inv, EpsilonStep
  PROVE  /\ stage = "epsilon" /\ stage' \in {"epsilon", "settle"} /\ t' = t
         /\ UNCHANGED <<next, first, liveNoLabel, live, prog, call, cur, returned>>
         /\ Len(active') = Len(active)
         /\ \A k \in t..Len(active) : active'[k].start = active[k].start
         /\ forks' = forks \/ forks' = <<active[t]>> \o forks
         /\ stage' = "settle" /\ active'[t].pc # Null =>
              \/ Op(active'[t]) \in ByteOps
              \/ Op(active'[t]) = "FINISH" /\ IsLive(active'[t].label)
<1> USE DEF input, flagVars, matchVars, bufferVars, EpsilonUnchanged, At, SetThread
<1> DEFINE th == active[t]
           Starts == /\ Len(active') = Len(active)
                     /\ \A k \in t..Len(active) : active'[k].start = active[k].start
           Ended == stage' = "settle" /\ active'[t].pc # Null =>
                      \/ Op(active'[t]) \in ByteOps
                      \/ Op(active'[t]) = "FINISH" /\ IsLive(active'[t].label)
<1>1. /\ stage = "epsilon" /\ t' = t
      /\ UNCHANGED <<next, first, liveNoLabel, live, prog, call, cur, returned>>
  BY DEF EpsilonStep, FinishWaits, FinishReports, Fork, Jump, CheckHalt, Label, Match, EndSequence
<1>2. active \in Seq(Thread) /\ t \in 1..Len(active) /\ th \in Thread
  BY <1>1, Running1, ListTypes
<1>3. \A u : u.start = th.start /\ active' = [active EXCEPT ![t] = u] => Starts /\ active'[t] = u
  BY <1>2, ReplaceAny
<1>4. ASSUME Op(th) = "FINISH"
      PROVE  /\ Len(AfterKills) = Len(active) /\ AfterKills \in Seq(Thread) /\ AfterKills[t] = th
             /\ \A k \in t..Len(active) : AfterKills[k].start = active[k].start
  <2>1. Len(AfterKills) = Len(active) /\ AfterKills \in Seq(Thread) /\ AfterKills[t] = th
    BY <1>1, <1>4, KillsFit DEF Op
  <2>2. \A k \in 1..Len(active) :
          AfterKills[k] = IF Killed(k) THEN [active[k] EXCEPT !.pc = prog.guard] ELSE active[k]
    BY <1>2 DEF AfterKills
  <2>3. ASSUME NEW k \in t..Len(active) PROVE AfterKills[k].start = active[k].start
    <3>1. k \in 1..Len(active) /\ active[k] \in Thread
      BY <1>2
    <3>2. AfterKills[k] = active[k] \/ AfterKills[k] = [active[k] EXCEPT !.pc = prog.guard]
      BY <2>2, <3>1
    <3>3. \A u \in Thread : \A y : [u EXCEPT !.pc = y].start = u.start
      BY SameStart
    <3> QED
      BY <3>1, <3>2, <3>3, ZenonT(60)
  <2> QED
    BY <2>1, <2>3
<1>5. CASE FinishWaits
  <2>1. /\ active' = AfterKills /\ stage' = "settle" /\ forks' = forks
        /\ Op(th) = "FINISH" /\ IsLive(th.label)
    BY <1>5 DEF FinishWaits, Op
  <2>2. Starts /\ active'[t] = th
    BY <1>4, <2>1
  <2>3. Ended
    BY <2>1, <2>2 DEF Op, IsLive
  <2> QED
    BY <1>1, <2>1, <2>2, <2>3
<1>6. CASE FinishReports
  <2>1. /\ active' = [AfterKills EXCEPT ![t] = Dead(th)]
        /\ stage' = "settle" /\ forks' = forks /\ Op(th) = "FINISH"
    BY <1>6 DEF FinishReports, Op
  <2>2. /\ Len(active') = Len(active) /\ active'[t] = Dead(th)
        /\ \A k \in 1..Len(active) : k # t => active'[k] = AfterKills[k]
    BY <1>2, <1>4, <2>1, ReplaceAny
  <2>3. Dead(th).start = th.start /\ Dead(th).pc = Null
    BY <1>2, SameStart
  <2>4. Starts
    BY <1>2, <1>4, <2>1, <2>2, <2>3
  <2>5. Ended
    BY <2>2, <2>3
  <2> QED
    BY <1>1, <2>1, <2>4, <2>5
<1>7. CASE Fork \/ Jump \/ Label \/ Match \/ CheckHalt
  <2>1. /\ forks' = forks \/ forks' = <<th>> \o forks
        /\ stage' = "epsilon" \/ stage' = "settle"
    BY <1>1, <1>7 DEF Fork, Jump, Label, Match, CheckHalt
  <2>2. \E u : /\ u.start = th.start /\ active' = [active EXCEPT ![t] = u]
               /\ stage' = "settle" => u.pc = Null
    <3> DEFINE Becomes(u) == active' = [active EXCEPT ![t] = u]
    <3>1. CASE Fork
      <4>1. /\ stage' = "epsilon"
            /\ Becomes(Advance(th)) \/ Becomes([th EXCEPT !.pc = code[@].target])
        BY <1>1, <3>1 DEF Fork
      <4>2. [th EXCEPT !.pc = code[@].target].start = th.start
        BY <1>2 DEF Thread
      <4> QED
        BY <1>2, <4>1, <4>2, SameStart
    <3>2. CASE Jump
      <4>1. stage' = "epsilon" /\ Becomes([th EXCEPT !.pc = code[@].target])
        BY <1>1, <3>2 DEF Jump
      <4>2. [th EXCEPT !.pc = code[@].target].start = th.start
        BY <1>2 DEF Thread
      <4> QED
        BY <4>1, <4>2
    <3>3. CASE CheckHalt
      <4>1. Becomes(Dead(th)) \/ (stage' = "epsilon" /\ Becomes(Advance(th)))
        BY <1>1, <3>3, SMTT(60) DEF CheckHalt
      <4> QED
        BY <1>2, <4>1, SameStart
    <3>4. CASE Label
      <4>1. \/ Becomes(Dead(th))
            \/ stage' = "epsilon" /\ \E l : Becomes(Advance([th EXCEPT !.label = l]))
        BY <1>1, <3>4 DEF Label
      <4>2. \A l : Advance([th EXCEPT !.label = l]).start = th.start
        BY <1>2, SameStart
      <4> QED
        BY <1>2, <4>1, <4>2, SameStart
    <3>5. CASE Match
      <4>1. stage' = "epsilon" /\ \E b : Becomes(Advance([th EXCEPT !.end = cur, !.lead = b]))
        BY <1>1, <3>5 DEF Match
      <4>2. \A e, b : Advance([th EXCEPT !.end = e, !.lead = b]).start = th.start
        BY <1>2, SameStart
      <4> QED
        BY <4>1, <4>2
    <3> QED
      BY <1>7, <3>1, <3>2, <3>3, <3>4, <3>5, SMTT(60)
  <2> QED
    BY <1>1, <1>3, <2>1, <2>2
<1>8. CASE EndSequence
  <2>1. forks' = forks /\ stage' = "settle"
    BY <1>8 DEF EndSequence
  <2>2. CASE Op(th) \in ByteOps /\ UNCHANGED active
    BY <1>1, <1>2, <2>1, <2>2 DEF Op, code
  <2>3. CASE active' = [active EXCEPT ![t] = Dead(th)]
    BY <1>1, <1>3, <1>2, <2>1, <2>3, SameStart, ZenonT(60)
  <2> QED
    BY <1>8, <2>2, <2>3 DEF EndSequence, Op
<1> QED
  BY <1>5, <1>6, <1>7, <1>8, SMTT(60) DEF EpsilonStep
-----------------------------------------------------------------------------
\* Live and LiveNoLabel (vm.cpp:183-190) are set as a thread goes to Next and cleared
\* with it, by _cleanup and reset.
LEMMA FlagsNext ==
  ASSUME Inv, FlagsMatchNext, [Next]_vars
  PROVE  FlagsMatchNext'
<1> USE DEF input, threadVars, flagVars, matchVars, controlVars, bufferVars, clientVars
<1>1. CASE UNCHANGED <<next, liveNoLabel, live>>
  BY <1>1 DEF FlagsMatchNext
<1>2. CASE next' = <<>> /\ liveNoLabel' = FALSE /\ live' = {}
  BY <1>2 DEF FlagsMatchNext
<1>3. CASE Settle
  <2>1. CASE active[t].pc = Null
    BY <1>1, <1>3, <2>1 DEF Settle, Survive
  <2>2. CASE active[t].pc # Null
    <3> DEFINE u == active[t]
    <3>1. /\ next' = Append(next, u)
          /\ liveNoLabel' = (liveNoLabel \/ u.label = NoLabel)
          /\ live' = live \cup ({u.label} \ {NoLabel})
      BY <1>3, <2>2 DEF Settle, Survive
    <3>2. next \in Seq(Thread) /\ u \in Thread
      <4>1. t \in 1..Len(active)
        BY <1>3 DEF Settle, Inv, ActiveOK
      <4> QED
        BY <4>1, ListTypes
    <3>3. /\ DOMAIN next' = DOMAIN next \cup {Len(next) + 1}
          /\ \A k \in DOMAIN next : next'[k] = next[k]
          /\ next'[Len(next) + 1] = u
      BY <3>1, <3>2
    <3> HIDE DEF u
    <3>4. liveNoLabel' <=> \E k \in DOMAIN next' : next'[k].label = NoLabel
      BY <3>1, <3>3 DEF FlagsMatchNext
    <3>5. live' = {next'[k].label : k \in DOMAIN next'} \ {NoLabel}
      BY <3>1, <3>3 DEF FlagsMatchNext
    <3> QED
      BY <3>4, <3>5 DEF FlagsMatchNext
  <2> QED
    BY <2>1, <2>2
<1>4. CASE EpsilonStep
  BY <1>1, <1>4, EpsilonShape
<1>5. CASE ClientCall
  BY <1>1, <1>2, <1>5, ZenonT(60) DEF ClientCall, Search, SearchResolve, StartsWith, CloseOut,
     Reset, ResetState, Begin
<1>6. CASE Constructed \/ Cleanup \/ Closed
  BY <1>1, <1>2, <1>6 DEF Constructed, Cleanup, Closed, ResetState
<1>7. CASE BeginFrame \/ ExecuteThread \/ SpawnThreads \/ ReturnLeftmost \/ EndStartsWith \/ CloseThread
  BY <1>1, <1>7 DEF BeginFrame, ExecuteThread, SpawnThreads, ReturnLeftmost, EndStartsWith, CloseThread
<1>8. CASE UNCHANGED vars
  BY <1>1, <1>8 DEF vars
<1> QED
  BY <1>3, <1>4, <1>5, <1>6, <1>7, <1>8 DEF Next, Step

\* Live and LiveNoLabel always say which labels have a thread in Next, whatever was
\* searched before: FINISH_OP and CHECK_HALT_OP (vm.cpp:297, 347) decide on them.
THEOREM FlagsMatchNextAlways == Spec => []FlagsMatchNext
<1>1. Init => FlagsMatchNext
  BY DEF Init, FlagsMatchNext
<1>2. Inv /\ FlagsMatchNext /\ [Next]_vars => FlagsMatchNext'
  BY FlagsNext
<1> QED
  BY <1>1, <1>2, Invariance, PTL DEF Spec
-----------------------------------------------------------------------------
(* What the other steps of a frame do to the lists.                        *)

\* _execute (vm.cpp:192-244) keeps the start of the thread, which dies or goes on.
LEMMA ExecuteShape ==
  ASSUME Inv, ExecuteThread
  PROVE  /\ stage = "thread" /\ t \in 1..Len(active) /\ forks = <<>>
         /\ UNCHANGED <<next, forks, first, liveNoLabel, live, prog, call, cur, returned>>
         /\ \/ stage' = "thread" /\ t' = t + 1 /\ active' = active
            \/ /\ stage' = "epsilon" /\ t' = t /\ Len(active') = Len(active)
               /\ \A k \in t..Len(active) : active'[k].start = active[k].start
<1> USE DEF flagVars, input, bufferVars, clientVars
<1>1. /\ stage = "thread" /\ t \in 1..Len(active) /\ active \in Seq(Thread)
      /\ forks = <<>> /\ active[t] \in Thread
  BY ListTypes, SMTT(60) DEF ExecuteThread, Inv, ForksOK
<1>2. \A u \in ByteSuccessors(active[t], text[cur + 1]) : u.start = active[t].start
  <2> DEFINE th == active[t]
  <2>1. \A y : [th EXCEPT !.pc = y].start = th.start
    BY <1>1, SameStart
  <2>2. Advance(th).start = th.start
    BY <1>1, SameStart
  <2> HIDE DEF th
  <2>3. \A u \in ByteSuccessors(th, text[cur + 1]) : u.start = th.start
    BY <2>1, <2>2 DEF ByteSuccessors
  <2> QED
    BY <2>3 DEF th
<1>3. CASE stage' = "thread" /\ t' = t + 1 /\ active' = active
  BY <1>1, <1>3 DEF ExecuteThread
<1>4. CASE /\ stage' = "epsilon" /\ t' = t
           /\ \E u \in ByteSuccessors(active[t], text[cur + 1]) : active' = [active EXCEPT ![t] = u]
  <2>1. PICK u : u.start = active[t].start /\ active' = [active EXCEPT ![t] = u]
    BY <1>2, <1>4
  <2>2. /\ Len(active') = Len(active) /\ active'[t] = u
        /\ \A k \in 1..Len(active) : k # t => active'[k] = active[k]
    BY <1>1, <2>1, ReplaceAny
  <2>3. \A k \in t..Len(active) : active'[k].start = active[k].start
    BY <1>1, <2>1, <2>2
  <2> QED
    BY <1>1, <1>4, <2>2, <2>3 DEF ExecuteThread
<1> QED
  BY <1>1, <1>3, <1>4 DEF ExecuteThread

\* _executeNewThreads (vm.cpp:437-458) appends threads that start at this byte.
LEMMA SpawnShape ==
  ASSUME Inv, SpawnThreads
  PROVE  /\ stage = "thread" /\ stage' = "thread" /\ t = Len(active) + 1 /\ t' = t
         /\ UNCHANGED <<next, forks, first, liveNoLabel, live, prog, call, cur, returned>>
         /\ Len(active') \in Nat
         /\ \A k \in t..Len(active') : active'[k].start = cur
<1> USE DEF flagVars, input, bufferVars, clientVars
<1>1. /\ t = Len(active) + 1 /\ active \in Seq(Thread) /\ Len(active) \in Nat
      /\ first \in Seq(Thread) /\ cur \in Nat /\ call # "construct"
  BY ListTypes, SMTT(60) DEF SpawnThreads, Running
<1>2. /\ Fresh(cur) \in Seq(Thread) /\ Len(Fresh(cur)) = Len(first) /\ Len(first) \in Nat
      /\ \A k \in 1..Len(first) : Fresh(cur)[k].start = cur
  <2>1. Fresh(cur) \in Seq(Thread) /\ Len(Fresh(cur)) = Len(first)
    BY <1>1, FreshFit
  <2> QED
    BY <1>1, <2>1 DEF Fresh, NewThread
<1>3. CASE active' = active
  BY <1>1, <1>3 DEF SpawnThreads, Inv, ForksOK
<1>4. CASE active' = active \o Fresh(cur)
  <2>1. /\ Len(active') = Len(active) + Len(first)
        /\ \A k \in t..Len(active') : active'[k] = Fresh(cur)[k - Len(active)]
    <3> DEFINE f == Fresh(cur)
    <3>1. f \in Seq(Thread) /\ active \in Seq(Thread) /\ active' = active \o f /\ Len(f) = Len(first)
      BY <1>1, <1>2, <1>4
    <3> HIDE DEF f
    <3>2. /\ Len(active \o f) = Len(active) + Len(f)
          /\ \A k \in 1..Len(active \o f) :
               (active \o f)[k] = IF k <= Len(active) THEN active[k] ELSE f[k - Len(active)]
      BY <3>1, ConcatElements
    <3>3. \A k \in t..Len(active') : k \in 1..Len(active') /\ ~(k <= Len(active))
      BY <1>1
    <3> QED
      BY <3>1, <3>2, <3>3 DEF f
  <2>2. \A k \in t..Len(active') : active'[k].start = cur
    <3> SUFFICES ASSUME NEW k \in t..Len(active') PROVE active'[k].start = cur
      OBVIOUS
    <3>1. k - Len(active) \in 1..Len(first)
      BY <1>1, <1>2, <2>1
    <3>2. Fresh(cur)[k - Len(active)].start = cur
      BY <1>2, <3>1
    <3> QED
      BY <2>1, <3>2
  <2> QED
    BY <1>1, <1>2, <2>1, <2>2 DEF SpawnThreads
<1> QED
  BY <1>3, <1>4 DEF SpawnThreads

\* _markLive and Next.push_back (vm.cpp:385-401), then the return into the FORK_OP
\* that waits (vm.cpp:315-331): the survivor goes behind the others, and the innermost
\* saved copy becomes the runner.
LEMMA SettleShape ==
  ASSUME Inv, Settle
  PROVE  /\ stage = "settle" /\ t \in 1..Len(active)
         /\ UNCHANGED <<first, prog, call, cur, returned>>
         /\ \/ active[t].pc = Null /\ next' = next
            \/ /\ active[t].pc # Null
               /\ Len(next') = Len(next) + 1 /\ next'[Len(next) + 1] = active[t]
               /\ \A k \in 1..Len(next) : next'[k] = next[k]
         /\ \/ forks' = <<>> /\ stage' = "thread" /\ t' = t + 1 /\ active' = active
            \/ /\ stage' = "epsilon" /\ t' = t
               /\ Len(active') = Len(active) /\ active'[t].start = forks[1].start
               /\ \A k \in 1..Len(active) : k # t => active'[k] = active[k]
               /\ Len(forks) >= 1 /\ Len(forks') = Len(forks) - 1
               /\ \A k \in 1..Len(forks') : forks'[k] = forks[k + 1]
<1> USE DEF input, bufferVars, clientVars
<1>1. /\ stage = "settle" /\ t \in 1..Len(active) /\ active \in Seq(Thread) /\ active[t] \in Thread
      /\ next \in Seq(Thread) /\ forks \in Seq(Thread)
      /\ UNCHANGED <<first, prog, call, cur, returned>>
  <2>1. stage = "settle" => t <= Len(active)
    BY DEF Inv, ActiveOK
  <2> QED
    BY <2>1, ListTypes DEF Settle
<1> DEFINE Survived == \/ active[t].pc = Null /\ next' = next
                       \/ /\ active[t].pc # Null
                          /\ Len(next') = Len(next) + 1 /\ next'[Len(next) + 1] = active[t]
                          /\ \A k \in 1..Len(next) : next'[k] = next[k]
<1>2. Survived
  <2>1. CASE active[t].pc = Null
    BY <2>1 DEF Settle, Survive
  <2>2. CASE active[t].pc # Null
    <3>1. next' = Append(next, active[t])
      BY <2>2 DEF Settle, Survive
    <3> QED
      BY <1>1, <2>2, <3>1, AppendElement
  <2> QED
    BY <2>1, <2>2
<1>3. CASE forks = <<>>
  BY <1>1, <1>2, <1>3 DEF Settle
<1>4. CASE forks # <<>>
  <2> DEFINE u == [Head(forks) EXCEPT !.pc = code[@].target]
  <2>1. stage' = "epsilon" /\ t' = t /\ forks' = Tail(forks) /\ active' = [active EXCEPT ![t] = u]
    BY <1>4 DEF Settle, SetThread
  <2>2. /\ Len(forks) >= 1 /\ Head(forks) = forks[1] /\ forks[1] \in Thread
        /\ Len(forks') = Len(forks) - 1 /\ \A k \in 1..Len(forks') : forks'[k] = forks[k + 1]
    BY <1>1, <1>4, <2>1
  <2>3. u.start = forks[1].start
    BY <2>2 DEF Thread
  <2> HIDE DEF u
  <2>4. /\ Len(active') = Len(active) /\ active'[t] = u
        /\ \A k \in 1..Len(active) : k # t => active'[k] = active[k]
    BY <1>1, <2>1, ReplaceAny
  <2> QED
    BY <1>1, <1>2, <2>1, <2>2, <2>3, <2>4
<1> QED
  BY <1>3, <1>4
-----------------------------------------------------------------------------
(* The order of starts.                                                    *)

\* Between frames all threads stand in active, in order.
LEMMA FrameSorted ==
  ASSUME Inv, OrderInv, stage \in {"frame", "closeOut"}
  PROVE  Sorted(active) /\ next = <<>>
BY ListTypes, SMTT(60) DEF OrderInv, Sorted, Pending, Inv, Control

\* A step that leaves an ordered list and nothing else keeps the order.
LEMMA SortedOrder ==
  ASSUME Sorted(active'), next' = <<>>, stage' \in {"frame", "thread", "closeOut"}
  PROVE  OrderInv'
BY DEF OrderInv, Sorted

\* The steps between frames and at their ends hand on one ordered list.
LEMMA FrameOrder ==
  ASSUME Inv, OrderInv,
         \/ Constructed \/ BeginFrame \/ Cleanup \/ ReturnLeftmost \/ EndStartsWith
         \/ CloseThread \/ Closed \/ ClientCall
  PROVE  OrderInv'
<1> USE DEF threadVars
<1>1. Sorted(<<>>)
  BY DEF Sorted
<1>2. CASE Constructed
  BY <1>1, <1>2, SortedOrder DEF Constructed, ResetState
<1>3. CASE BeginFrame \/ ReturnLeftmost \/ EndStartsWith \/ CloseThread
  <2>1. stage \in {"frame", "closeOut"} /\ stage' \in {"frame", "thread", "closeOut"}
        /\ UNCHANGED <<active, next>>
    BY <1>3 DEF BeginFrame, ReturnLeftmost, EndStartsWith, CloseThread
  <2> QED
    BY <2>1, FrameSorted, SortedOrder
<1>4. CASE Cleanup
  BY <1>4, SortedOrder DEF Cleanup, OrderInv
<1>5. CASE Closed
  <2>1. stage = "closeOut" /\ stage' = "frame"
        /\ \/ UNCHANGED <<active, next>>
           \/ active' = <<>> /\ next' = <<>>
    BY <1>5 DEF Closed, ResetState
  <2> QED
    BY <1>1, <2>1, FrameSorted, SortedOrder
<1>6. CASE ClientCall
  <2>1. stage = "frame" /\ stage' \in {"frame", "closeOut"}
    BY <1>6 DEF ClientCall, Search, SearchResolve, StartsWith, CloseOut, Reset, Begin, Inv, Control, controlVars
  <2>2. \/ UNCHANGED <<active, next>>
        \/ active' = <<>> /\ next' = <<>>
        \/ active' = Fresh(cur) /\ next' = next
    BY <1>6 DEF ClientCall, Search, SearchResolve, StartsWith, CloseOut, Reset, ResetState, Begin
  <2>3. Sorted(Fresh(cur))
    <3>1. cur \in Nat /\ Len(first) \in Nat
      BY ListTypes
    <3>2. DOMAIN Fresh(cur) = 1..Len(first) /\ \A k \in 1..Len(first) : Fresh(cur)[k].start = cur
      BY DEF Fresh, NewThread
    <3>3. Len(Fresh(cur)) = Len(first)
      BY <3>1 DEF Fresh
    <3> QED
      BY <3>1, <3>2, <3>3 DEF Sorted
  <2> QED
    BY <1>1, <2>1, <2>2, <2>3, FrameSorted, SortedOrder
<1> QED
  BY <1>2, <1>3, <1>4, <1>5, <1>6

\* The steps within a frame keep the order too.
LEMMA StepOrder ==
  ASSUME Inv, OrderInv, ExecuteThread \/ SpawnThreads \/ EpsilonStep \/ Settle
  PROVE  OrderInv'
<1>1. /\ Len(active) \in Nat /\ Len(next) \in Nat /\ Len(forks) \in Nat /\ t \in 1..Len(active) + 1
      /\ cur \in Nat
      /\ \A k \in 1..Len(active) : active[k].start \in Nat
      /\ \A k \in 1..Len(next) : next[k].start \in Nat /\ next[k].start <= cur
      /\ \A k \in 1..Len(forks) : forks[k].start \in Nat
  BY ListTypes
<1>1a. /\ \A i, j \in 1..Len(active) : i < j /\ i >= t => active[i].start <= active[j].start
       /\ \A i \in 1..Len(next), k \in t..Len(active) : next[i].start <= active[k].start
       /\ \A i, j \in 1..Len(next) : i < j => next[i].start <= next[j].start
  BY DEF OrderInv, Pending, Sorted
<1>1b. \A i : i \in t + 1..Len(active) => i \in t..Len(active)
  BY <1>1
<1>1c. \A i : i \in 1..Len(active) /\ i >= t + 1 => i >= t
  BY <1>1
<1>2. ASSUME stage' \in {"thread", "epsilon", "settle"}, stage \in {"thread", "epsilon", "settle"},
             next' = next, t' = t, Len(active') = Len(active),
             \A k \in t..Len(active) : active'[k].start = active[k].start,
             stage' # "thread" => \A k \in 1..Len(forks') : forks'[k].start = active[t].start,
             t <= Len(active)
      PROVE  OrderInv'
  <2>1. \A i, j \in 1..Len(active) : i < j /\ i >= t => active'[i].start <= active'[j].start
    BY <1>1, <1>2, <1>1a
  <2>2. \A i \in 1..Len(next), k \in t..Len(active) : next[i].start <= active'[k].start
    BY <1>2, <1>1a
  <2>3. stage' # "thread" => \A k \in 1..Len(forks') : forks'[k].start = active'[t].start
    BY <1>1, <1>2
  <2>4. Sorted(next')
    BY <1>2, <1>1a DEF Sorted
  <2>5. stage' \notin {"frame", "closeOut"}
    BY <1>2
  <2> QED
    BY <1>2, <2>1, <2>2, <2>3, <2>4, <2>5 DEF OrderInv, Pending
<1>3. CASE ExecuteThread
  <2>1. CASE stage' = "thread" /\ t' = t + 1 /\ active' = active
    <3>2. next' = next
      BY <1>3, ExecuteShape
    <3>3. \A i, j \in 1..Len(active) : i < j /\ i >= t + 1 => active[i].start <= active[j].start
      BY <1>1a, <1>1c
    <3>4. \A i \in 1..Len(next), k \in t + 1..Len(active) : next[i].start <= active[k].start
      BY <1>1a, <1>1b
    <3> QED
      BY <2>1, <3>2, <3>3, <3>4 DEF OrderInv, Pending, Sorted
  <2>2. CASE stage' = "epsilon"
    BY <1>2, <1>1, <1>3, <2>2, ExecuteShape
  <2> QED
    BY <1>3, <2>1, <2>2, ExecuteShape
<1>4. CASE SpawnThreads
  <2>1. /\ stage' = "thread" /\ t = Len(active) + 1 /\ t' = t /\ next' = next
        /\ \A k \in t..Len(active') : active'[k].start = cur
    BY <1>4, SpawnShape
  <2>2. \A i, j \in 1..Len(active') : i < j /\ i >= t => active'[i].start <= active'[j].start
    <3> SUFFICES ASSUME NEW i \in 1..Len(active'), NEW j \in 1..Len(active'), i < j, i >= t
                 PROVE  active'[i].start <= active'[j].start
      OBVIOUS
    <3>1. Len(active') \in Nat
      BY <1>4, SpawnShape
    <3>2. i \in t..Len(active') /\ j \in t..Len(active')
      BY <1>1, <3>1
    <3> QED
      BY <1>1, <2>1, <3>2, SMTT(60)
  <2>3. \A i \in 1..Len(next), k \in t..Len(active') : next[i].start <= active'[k].start
    BY <1>1, <2>1
  <2> QED
    BY <2>1, <2>2, <2>3 DEF OrderInv, Pending, Sorted
<1>5. CASE EpsilonStep
  <2>1. /\ stage = "epsilon" /\ stage' \in {"epsilon", "settle"} /\ t' = t /\ next' = next
        /\ Len(active') = Len(active)
        /\ \A k \in t..Len(active) : active'[k].start = active[k].start
        /\ forks' = forks \/ forks' = <<active[t]>> \o forks
    BY <1>5, EpsilonShape
  <2>2. t <= Len(active) /\ active[t] \in Thread /\ forks \in Seq(Thread)
    BY <2>1, Running1, ListTypes
  <2>3. \A k \in 1..Len(forks') : forks'[k].start = active[t].start
    <3>1. \A k \in 1..Len(forks) : forks[k].start = active[t].start
      BY <2>1 DEF OrderInv
    <3>2. CASE forks' = <<active[t]>> \o forks
      BY <1>1, <2>2, <3>1, <3>2, ConcatElements
    <3> QED
      BY <2>1, <3>1, <3>2
  <2> QED
    BY <1>2, <2>1, <2>2, <2>3
<1>6. CASE Settle
  <2>1. /\ stage = "settle" /\ t \in 1..Len(active)
        /\ \/ active[t].pc = Null /\ next' = next
           \/ /\ Len(next') = Len(next) + 1 /\ next'[Len(next) + 1] = active[t]
              /\ \A k \in 1..Len(next) : next'[k] = next[k]
    BY <1>6, SettleShape
  <2>2. /\ \A i \in 1..Len(next) : next[i].start <= active[t].start
        /\ \A k \in t..Len(active) : active[t].start <= active[k].start
    BY <1>1, <1>1a, <2>1, SMTT(60)
  <2>3. Sorted(next')
    <3>1. CASE next' = next
      <4>1. Sorted(next)
        BY DEF OrderInv
      <4> QED
        BY <3>1, <4>1
    <3>2. CASE /\ Len(next') = Len(next) + 1 /\ next'[Len(next) + 1] = active[t]
               /\ \A k \in 1..Len(next) : next'[k] = next[k]
      <4> SUFFICES ASSUME NEW i \in 1..Len(next'), NEW j \in 1..Len(next'), i < j
                   PROVE  next'[i].start <= next'[j].start
        BY DEF Sorted
      <4>1. i \in 1..Len(next) /\ (j \in 1..Len(next) \/ j = Len(next) + 1)
        <5>1. Len(next) \in Nat /\ Len(next') = Len(next) + 1
          BY <1>1, <3>2
        <5> QED
          BY <5>1
      <4>2. CASE j \in 1..Len(next)
        <5>1. next'[i] = next[i] /\ next'[j] = next[j]
          BY <3>2, <4>1, <4>2
        <5>2. next[i].start <= next[j].start
          BY <1>1a, <4>1, <4>2
        <5> QED
          BY <5>1, <5>2
      <4>3. CASE j = Len(next) + 1
        BY <2>2, <3>2, <4>1, <4>3
      <4> QED
        BY <4>1, <4>2, <4>3
    <3> QED
      BY <2>1, <3>1, <3>2
  <2>4. \A i \in 1..Len(next'), k \in t..Len(active) : next'[i].start <= active[k].start
    <3> SUFFICES ASSUME NEW i \in 1..Len(next'), NEW k \in t..Len(active)
                 PROVE  next'[i].start <= active[k].start
      OBVIOUS
    <3>1. \/ i \in 1..Len(next) /\ next'[i] = next[i]
          \/ next'[i] = active[t]
      BY <1>1, <2>1, SMTT(60)
    <3> QED
      BY <1>1a, <2>2, <3>1
  <2>5. CASE forks' = <<>> /\ stage' = "thread" /\ t' = t + 1 /\ active' = active
    <3>1. \A i, j \in 1..Len(active) : i < j /\ i >= t + 1 => active[i].start <= active[j].start
      BY <1>1a, <1>1c
    <3>2. \A i \in 1..Len(next'), k \in t + 1..Len(active) : next'[i].start <= active[k].start
      BY <1>1b, <2>4
    <3> QED
      BY <2>3, <2>5, <3>1, <3>2 DEF OrderInv, Pending
  <2>6. CASE /\ stage' = "epsilon" /\ t' = t
             /\ Len(active') = Len(active) /\ active'[t].start = forks[1].start
             /\ \A k \in 1..Len(active) : k # t => active'[k] = active[k]
             /\ Len(forks) >= 1 /\ Len(forks') = Len(forks) - 1
             /\ \A k \in 1..Len(forks') : forks'[k] = forks[k + 1]
    <3>1. /\ forks[1].start = active[t].start
          /\ \A k \in 1..Len(forks') : forks'[k].start = active[t].start
      BY <1>1, <2>1, <2>6, SMTT(60) DEF OrderInv
    <3>2. \A k \in t..Len(active) : active'[k].start = active[k].start
      BY <1>1, <2>1, <2>6, <3>1, SMTT(60)
    <3>3. \A i, j \in 1..Len(active) : i < j /\ i >= t => active'[i].start <= active'[j].start
      BY <1>1, <1>1a, <3>2
    <3>4. \A i \in 1..Len(next'), k \in t..Len(active) : next'[i].start <= active'[k].start
      BY <2>4, <3>2
    <3>5. \A k \in 1..Len(forks') : forks'[k].start = active'[t].start
      BY <2>6, <3>1
    <3> QED
      BY <2>3, <2>6, <3>3, <3>4, <3>5 DEF OrderInv, Pending
  <2> QED
    BY <1>6, <2>5, <2>6, SettleShape
<1> QED
  BY <1>3, <1>4, <1>5, <1>6

\* One thread, at the start of the program, is in order.
LEMMA InitOrder == Init => OrderInv
<1> SUFFICES ASSUME Init PROVE OrderInv
  OBVIOUS
<1>1. Len(active) = 1 /\ next = <<>> /\ forks = <<>> /\ t = 1 /\ stage = "epsilon"
  BY DEF Init
<1>2. \A i, j \in 1..1 : ~(i < j)
  OBVIOUS
<1>3. Len(next) = 0 /\ Len(forks) = 0 /\ \A k : k \notin 1..0
  BY <1>1
<1> QED
  BY <1>1, <1>2, <1>3 DEF OrderInv, Sorted

\* Every step preserves the order.
LEMMA OrderNext ==
  ASSUME Inv, OrderInv, [Next]_vars
  PROVE  OrderInv'
<1>1. CASE UNCHANGED vars
  BY <1>1 DEF vars, threadVars, controlVars, OrderInv, Pending, Sorted
<1>2. CASE Next
  BY <1>2, FrameOrder, StepOrder DEF Next, Step
<1> QED
  BY <1>1, <1>2

Below(s, r) == \A i \in 1..Len(s), k \in 1..Len(r) : s[i].start <= r[k].start

\* Two ordered lists, one below the other, make an ordered list.
LEMMA ConcatSorted ==
  ASSUME NEW s \in Seq(Thread), NEW r \in Seq(Thread), Sorted(s), Sorted(r), Below(s, r)
  PROVE  Sorted(s \o r)
<1>1. Len(s) \in Nat /\ Len(r) \in Nat
  OBVIOUS
<1>2. /\ Len(s \o r) = Len(s) + Len(r)
      /\ \A k \in 1..Len(s \o r) : (s \o r)[k] = IF k <= Len(s) THEN s[k] ELSE r[k - Len(s)]
  BY ConcatElements
<1>3. SUFFICES ASSUME NEW i \in 1..Len(s \o r), NEW j \in 1..Len(s \o r), i < j
               PROVE  (s \o r)[i].start <= (s \o r)[j].start
  BY DEF Sorted
<1>4. CASE j <= Len(s)
  BY <1>1, <1>2, <1>3, <1>4 DEF Sorted
<1>5. CASE i <= Len(s) /\ j > Len(s)
  BY <1>1, <1>2, <1>3, <1>5 DEF Below
<1>6. CASE i > Len(s)
  <2>1. /\ i - Len(s) \in 1..Len(r) /\ j - Len(s) \in 1..Len(r) /\ i - Len(s) < j - Len(s)
        /\ (s \o r)[i] = r[i - Len(s)] /\ (s \o r)[j] = r[j - Len(s)]
    BY <1>1, <1>2, <1>3, <1>6, SMTT(60)
  <2> QED
    BY <2>1 DEF Sorted
<1> QED
  BY <1>1, <1>2, <1>3, <1>4, <1>5, <1>6

\* A list below another stays so when it grows by one that is below too.
LEMMA ConcatBelow ==
  ASSUME NEW s \in Seq(Thread), NEW r \in Seq(Thread), NEW q, Below(s, q), Below(r, q)
  PROVE  Below(s \o r, q)
<1>1. Len(s) \in Nat /\ Len(r) \in Nat
  OBVIOUS
<1>2. /\ Len(s \o r) = Len(s) + Len(r)
      /\ \A k \in 1..Len(s \o r) : (s \o r)[k] = IF k <= Len(s) THEN s[k] ELSE r[k - Len(s)]
  BY ConcatElements
<1>3. SUFFICES ASSUME NEW i \in 1..Len(s \o r), NEW k \in 1..Len(q)
               PROVE  (s \o r)[i].start <= q[k].start
  BY DEF Below
<1>4. CASE i <= Len(s)
  BY <1>1, <1>2, <1>3, <1>4 DEF Below
<1>5. CASE i > Len(s)
  <2>1. i - Len(s) \in 1..Len(r) /\ (s \o r)[i] = r[i - Len(s)]
    BY <1>1, <1>2, <1>3, <1>5
  <2> QED
    BY <2>1, <1>3 DEF Below
<1> QED
  BY <1>1, <1>4, <1>5

\* The threads from the k-th on.
LEMMA RestOf ==
  ASSUME NEW s \in Seq(Thread), NEW k \in 1..Len(s) + 1
  PROVE  /\ SubSeq(s, k, Len(s)) \in Seq(Thread)
         /\ Len(SubSeq(s, k, Len(s))) = Len(s) + 1 - k
         /\ \A i \in 1..Len(s) + 1 - k : SubSeq(s, k, Len(s))[i] = s[k + i - 1]
<1>1. Len(s) \in Nat
  OBVIOUS
<1>2. \A i \in k..Len(s) : s[i] \in Thread
  BY <1>1
<1> QED
  BY <1>1, <1>2, SubSeqProperties

\* The invariant about the order means that all threads of a frame are in order.
LEMMA OrderMeans ==
  ASSUME Inv, OrderInv
  PROVE  PriorityOrder
<1>1. /\ active \in Seq(Thread) /\ next \in Seq(Thread) /\ forks \in Seq(Thread)
      /\ Len(active) \in Nat /\ Len(next) \in Nat /\ Len(forks) \in Nat
      /\ t \in 1..Len(active) + 1
      /\ \A k \in 1..Len(active) : active[k] \in Thread /\ active[k].start \in Nat
      /\ \A k \in 1..Len(next) : next[k].start \in Nat
      /\ \A k \in 1..Len(forks) : forks[k].start \in Nat
  BY ListTypes
<1>2. \A k \in 1..Len(active) + 1 : k >= t =>
        /\ SubSeq(active, k, Len(active)) \in Seq(Thread)
        /\ Sorted(SubSeq(active, k, Len(active)))
        /\ Below(next, SubSeq(active, k, Len(active)))
  <2> SUFFICES ASSUME NEW k \in 1..Len(active) + 1, k >= t
               PROVE  /\ SubSeq(active, k, Len(active)) \in Seq(Thread)
                      /\ Sorted(SubSeq(active, k, Len(active)))
                      /\ Below(next, SubSeq(active, k, Len(active)))
    OBVIOUS
  <2> DEFINE r == SubSeq(active, k, Len(active))
  <2>1. /\ r \in Seq(Thread) /\ Len(r) = Len(active) + 1 - k
        /\ \A i \in 1..Len(r) : r[i] = active[k + i - 1]
    BY <1>1, RestOf, SMTT(60)
  <2> HIDE DEF r
  <2>2. \A i \in 1..Len(r) : k + i - 1 \in t..Len(active)
    BY <1>1, <2>1
  <2>3. Sorted(r)
    <3> SUFFICES ASSUME NEW i \in 1..Len(r), NEW j \in 1..Len(r), i < j
                 PROVE  r[i].start <= r[j].start
      BY DEF Sorted
    <3>1. k + i - 1 \in 1..Len(active) /\ k + j - 1 \in 1..Len(active) /\ k + i - 1 < k + j - 1
          /\ k + i - 1 >= t
      BY <1>1, <2>1, SMTT(60)
    <3> QED
      BY <2>1, <3>1 DEF OrderInv, Pending
  <2>4. Below(next, r)
    BY <2>1, <2>2 DEF OrderInv, Below
  <2> QED
    BY <2>1, <2>3, <2>4 DEF r
<1>3. Sorted(next)
  BY DEF OrderInv
<1>4. Sorted(InPriority)
  <2>1. CASE stage = "frame" \/ stage = "closeOut"
    BY <2>1, FrameSorted DEF InPriority
  <2>2. CASE stage = "thread"
    <3> DEFINE r == SubSeq(active, t, Len(active))
    <3>0. r \in Seq(Thread) /\ Sorted(r) /\ Below(next, r)
      BY <1>1, <1>2
    <3> HIDE DEF r
    <3>1. Sorted(next \o r)
      BY <1>1, <1>3, <3>0, ConcatSorted
    <3> QED
      BY <2>2, <3>1 DEF InPriority, r
  <2>3. CASE stage = "epsilon" \/ stage = "settle"
    <3> DEFINE a == <<active[t]>>  r == SubSeq(active, t + 1, Len(active))
    <3>1. t \in 1..Len(active)
      BY <1>1, <2>3 DEF Inv, ActiveOK
    <3>2. a \in Seq(Thread) /\ Len(a) = 1 /\ a[1] = active[t] /\ Sorted(a)
      BY <1>1, <3>1 DEF Sorted
    <3>3. r \in Seq(Thread) /\ Sorted(r) /\ Below(next, r)
      <4>1. t + 1 \in 1..Len(active) + 1 /\ t + 1 >= t
        BY <1>1, <3>1
      <4> QED
        BY <1>2, <4>1
    <3>4. /\ Len(r) = Len(active) - t
          /\ \A i \in 1..Len(r) : r[i] = active[t + i]
      <4>1. t + 1 \in 1..Len(active) + 1
        BY <1>1, <3>1
      <4>2. /\ Len(r) = Len(active) + 1 - (t + 1)
            /\ \A i \in 1..Len(active) + 1 - (t + 1) : r[i] = active[(t + 1) + i - 1]
        BY <1>1, <4>1, RestOf, SMTT(60)
      <4> HIDE DEF r
      <4>3. Len(active) + 1 - (t + 1) = Len(active) - t
        BY <1>1
      <4>4. \A i \in 1..Len(active) - t : (t + 1) + i - 1 = t + i
        BY <1>1
      <4> QED
        BY <4>2, <4>3, <4>4
    <3>5. \A k \in 1..Len(forks) : forks[k].start = active[t].start
      BY <2>3 DEF OrderInv
    <3>6. \A i \in 1..Len(r) : active[t].start <= r[i].start
      <4> HIDE DEF r, a
      <4>1. \A i \in 1..Len(r) : t + i \in 1..Len(active) /\ t < t + i
        BY <1>1, <3>1, <3>4
      <4> QED
        <5> SUFFICES ASSUME NEW i \in 1..Len(r) PROVE active[t].start <= r[i].start
          OBVIOUS
        <5>1. t + i \in 1..Len(active) /\ t < t + i /\ t \in 1..Len(active) /\ t >= t
          BY <1>1, <3>1, <4>1
        <5>2. active[t].start <= active[t + i].start
          BY <5>1 DEF OrderInv, Pending
        <5> QED
          BY <3>4, <5>2
    <3> HIDE DEF r, a
    <3>7. Below(next, a) /\ Below(next, forks) /\ Below(a, forks) /\ Below(a, r) /\ Below(forks, r)
      <4>1. \A i \in 1..Len(next) : next[i].start <= active[t].start
        <5>1. t \in t..Len(active)
          BY <1>1, <3>1
        <5> QED
          BY <5>1 DEF OrderInv
      <4>2. \A i \in 1..1 : i = 1
        OBVIOUS
      <4>3. active[t].start \in Nat
        BY <1>1, <3>1
      <4>4. Below(next, a) /\ Below(next, forks)
        BY <3>2, <3>5, <4>1, <4>2 DEF Below
      <4>5. Below(a, forks) /\ Below(a, r)
        BY <3>2, <3>5, <3>6, <4>2, <4>3 DEF Below
      <4>6. Below(forks, r)
        BY <3>5, <3>6 DEF Below
      <4> QED
        BY <4>4, <4>5, <4>6
    <3>8. Sorted(forks)
      BY <1>1, <3>1, <3>5 DEF Sorted
    <3>9. next \o a \in Seq(Thread) /\ Sorted(next \o a) /\ Below(next \o a, forks) /\ Below(next \o a, r)
      <4>0. next \in Seq(Thread) /\ a \in Seq(Thread)
        BY <1>1, <3>2
      <4>1. next \o a \in Seq(Thread)
        BY <4>0, ConcatElements
      <4>2. Sorted(next \o a)
        BY <1>1, <1>3, <3>2, <3>7, ConcatSorted
      <4>3. Below(next \o a, forks) /\ Below(next \o a, r)
        <5>1. Below(next, forks) /\ Below(next, r) /\ Below(a, forks) /\ Below(a, r)
          BY <3>3, <3>7
        <5>2. Below(next \o a, forks)
          BY <4>0, <5>1, ConcatBelow
        <5>3. Below(next \o a, r)
          BY <4>0, <5>1, ConcatBelow
        <5> QED
          BY <5>2, <5>3
      <4> QED
        BY <4>1, <4>2, <4>3
    <3> DEFINE na == next \o a
    <3>10. na \in Seq(Thread) /\ Sorted(na) /\ Below(na, forks) /\ Below(na, r)
      BY <3>9
    <3> HIDE DEF na
    <3>11. na \o forks \in Seq(Thread) /\ Sorted(na \o forks) /\ Below(na \o forks, r)
      BY <1>1, <3>7, <3>8, <3>10, ConcatElements, ConcatSorted, ConcatBelow
    <3>12. Sorted((na \o forks) \o r)
      BY <3>3, <3>11, ConcatSorted
    <3> QED
      BY <2>3, <3>12 DEF InPriority, na, a, r
  <2> QED
    BY <2>1, <2>2, <2>3 DEF Inv, StateTypes
<1>5. \E n \in Nat : DOMAIN InPriority = 1..n /\ Len(InPriority) = n
  <2>1. InPriority \in Seq(Thread)
    <3>1. \A k \in 1..Len(active) + 1 : SubSeq(active, k, Len(active)) \in Seq(Thread)
      BY <1>1, RestOf
    <3>2. stage \in {"epsilon", "settle"} => t \in 1..Len(active) /\ t + 1 \in 1..Len(active) + 1
      BY <1>1 DEF Inv, ActiveOK
    <3>3. stage \in {"frame", "thread", "epsilon", "settle", "closeOut"}
      BY DEF Inv, StateTypes
    <3> QED
      BY <1>1, <3>1, <3>2, <3>3 DEF InPriority
  <2> QED
    BY <2>1
<1> QED
  BY <1>4, <1>5 DEF PriorityOrder, Sorted

\* The order of threads, which is their priority, is the order of their starts, for
\* every program, text and mix of calls: what the loop of FINISH_OP (vm.cpp:271-295) and
\* _startOfLeftmostLiveThread (vm.cpp:563) take for granted.
THEOREM PriorityOrderAlways == Spec => []PriorityOrder
<1>1. Init => OrderInv
  BY InitOrder
<1>2. Inv /\ OrderInv /\ [Next]_vars => OrderInv'
  BY OrderNext
<1>3. Inv /\ OrderInv => PriorityOrder
  BY OrderMeans
<1> QED
  BY <1>1, <1>2, <1>3, Invariance, PTL DEF Spec
-----------------------------------------------------------------------------
(* Finished threads wait for a thread that reads on.                       *)

\* New threads stand at byte instructions, where the constructor left First.
LEMMA FreshSettled ==
  ASSUME Inv, WaitInv
  PROVE  Settled(Fresh(cur))
<1>1. Len(first) \in Nat
  BY ListTypes
<1>2. /\ Len(Fresh(cur)) = Len(first)
      /\ \A k \in 1..Len(first) : Fresh(cur)[k].pc = first[k].pc
  BY <1>1 DEF Fresh, NewThread
<1>3. "FINISH" \notin ByteOps
  BY DEF ByteOps
<1> QED
  BY <1>2, <1>3 DEF WaitInv, Settled, Op

\* The survivors of the constructor stand at byte instructions: it reaches nothing
\* else at which a sequence ends.
LEMMA ConstructedOps ==
  ASSUME Inv, WaitInv, Constructed
  PROVE  \A k \in 1..Len(next) : Op(next[k]) \in ByteOps
<1> SUFFICES ASSUME NEW k \in 1..Len(next) PROVE Op(next[k]) \in ByteOps
  OBVIOUS
<1>1. next[k].pc \in Flow(prog).initial /\ next[k].pc \in DOMAIN code
  <2>1. k \in DOMAIN next
    BY ListTypes, SMTT(60)
  <2> QED
    BY <2>1 DEF Constructed, Inv, NextOK, Fit, RealThread, Thread
<1>2. Op(next[k]) \in ByteOps \cup {"FORK", "JUMP"}
  BY <1>1, ProgramFacts DEF FlowAllows, Op, code, Inv, Control
<1>3. Op(next[k]) \in ByteOps \cup {"FINISH"}
  BY DEF WaitInv, Settled
<1> QED
  BY <1>2, <1>3 DEF ByteOps

\* _markLive and push_back (vm.cpp:183-190, 385-401): a finished thread goes to Next only if
\* IsLive found a thread there, and that one reads on or waits for one that does.
LEMMA SettleWaits ==
  ASSUME Inv, WaitInv, FlagsMatchNext, Settle
  PROVE  Settled(next')
<1>1. /\ stage = "settle" /\ Len(next) \in Nat
      /\ \/ next' = next
         \/ /\ active[t].pc # Null
            /\ Len(next') = Len(next) + 1 /\ next'[Len(next) + 1] = active[t]
            /\ \A k \in 1..Len(next) : next'[k] = next[k]
  BY ListTypes, SettleShape
<1>2. CASE next' = next
  BY <1>2 DEF WaitInv
<1>3. CASE /\ active[t].pc # Null
           /\ Len(next') = Len(next) + 1 /\ next'[Len(next) + 1] = active[t]
           /\ \A k \in 1..Len(next) : next'[k] = next[k]
  <2> DEFINE u == active[t]
  <2>1. Op(u) \in ByteOps \/ (Op(u) = "FINISH" /\ IsLive(u.label))
    BY <1>1, <1>3 DEF WaitInv
  <2>2. ASSUME IsLive(u.label)
        PROVE  \E j \in 1..Len(next) : Blocks(next[j], u) /\ Op(next[j]) \in ByteOps
    <3>1. PICK k \in DOMAIN next : Blocks(next[k], u)
      BY <2>2 DEF IsLive, FlagsMatchNext, Blocks
    <3>2. k \in 1..Len(next)
      BY ListTypes
    <3>3. CASE Op(next[k]) \in ByteOps
      BY <3>1, <3>2, <3>3
    <3>4. CASE Op(next[k]) = "FINISH"
      <4>1. PICK j \in 1..k - 1 : Blocks(next[j], next[k]) /\ Op(next[j]) \in ByteOps
        BY <3>2, <3>4 DEF WaitInv, Settled
      <4>2. j \in 1..Len(next)
        BY <1>1, <3>2
      <4> QED
        BY <3>1, <4>1, <4>2 DEF Blocks
    <3> QED
      BY <3>2, <3>3, <3>4 DEF WaitInv, Settled
  <2> HIDE DEF u
  <2>3. ASSUME NEW k \in 1..Len(next')
        PROVE  /\ Op(next'[k]) \in ByteOps \cup {"FINISH"}
               /\ Op(next'[k]) = "FINISH" =>
                    \E j \in 1..k - 1 : Blocks(next'[j], next'[k]) /\ Op(next'[j]) \in ByteOps
    <3>1. CASE k \in 1..Len(next)
      <4>1. next'[k] = next[k] /\ \A j \in 1..k - 1 : next'[j] = next[j]
        <5>1. \A j \in 1..k - 1 : j \in 1..Len(next)
          BY <1>1, <3>1
        <5> QED
          BY <1>3, <3>1, <5>1
      <4> QED
        BY <3>1, <4>1 DEF WaitInv, Settled
    <3>2. CASE k = Len(next) + 1
      <4>2. 1..k - 1 = 1..Len(next)
        BY <1>1, <3>2
      <4>1. next'[k] = u /\ \A j \in 1..k - 1 : next'[j] = next[j]
        BY <1>3, <3>2, <4>2 DEF u
      <4>3. ASSUME Op(u) = "FINISH"
            PROVE  \E j \in 1..k - 1 : Blocks(next'[j], next'[k]) /\ Op(next'[j]) \in ByteOps
        <5>1. IsLive(u.label)
          BY <2>1, <4>3 DEF ByteOps
        <5>2. PICK j \in 1..Len(next) : Blocks(next[j], u) /\ Op(next[j]) \in ByteOps
          BY <2>2, <5>1
        <5>3. j \in 1..k - 1 /\ next'[j] = next[j] /\ next'[k] = u
          BY <4>1, <4>2
        <5> QED
          BY <5>2, <5>3
      <4> QED
        BY <2>1, <4>1, <4>3
    <3>3. k \in 1..Len(next) \/ k = Len(next) + 1
      BY <1>1, <1>3
    <3> QED
      BY <3>1, <3>2, <3>3
  <2> QED
    BY <2>3 DEF Settled
<1> QED
  BY <1>1, <1>2, <1>3

\* At first no thread waits.
LEMMA InitWait == Init => WaitInv
<1> SUFFICES ASSUME Init PROVE WaitInv
  OBVIOUS
<1>1. next = <<>> /\ first = <<>> /\ stage = "epsilon"
  BY DEF Init
<1>2. Len(next) = 0 /\ Len(first) = 0 /\ \A k : k \notin 1..0
  BY <1>1
<1> QED
  BY <1>1, <1>2 DEF WaitInv, Settled

\* Every step preserves that finished threads wait behind live ones.
LEMMA WaitNext ==
  ASSUME Inv, WaitInv, FlagsMatchNext, [Next]_vars
  PROVE  WaitInv'
<1> USE DEF threadVars, flagVars, input, controlVars
<1>1. prog' = prog
  BY DEF Next, Step, EpsilonStep, EpsilonUnchanged, Constructed, BeginFrame, ExecuteThread, SpawnThreads,
         Cleanup, ReturnLeftmost, FinishWaits, FinishReports, Fork, Jump, CheckHalt, Label, Match,
         EndSequence, Settle, EndStartsWith, CloseThread, Closed, ClientCall, Search, SearchResolve,
         StartsWith, CloseOut, Reset, Begin, vars
<1>2. code' = code
  BY <1>1, SameProgram
<1> DEFINE FirstReads(s) == \A k \in 1..Len(s) : Op(s[k]) \in ByteOps
<1>3. Settled(<<>>) /\ Settled(next) /\ FirstReads(first)
  BY DEF Settled, WaitInv
<1>4. ASSUME Settled(next'), FirstReads(first'),
             stage' \in {"frame", "closeOut"} => Settled(active'),
             stage' = "settle" /\ active'[t'].pc # Null =>
               Op(active'[t']) \in ByteOps \/ (Op(active'[t']) = "FINISH" /\ IsLive(active'[t'].label)),
             stage' = "settle" => UNCHANGED <<liveNoLabel, live>>
      PROVE  WaitInv'
  BY <1>2, <1>4 DEF WaitInv, Settled, Op, IsLive
<1>5. CASE Constructed
  BY <1>3, <1>4, <1>5, ConstructedOps DEF Constructed, ResetState
<1>6. CASE BeginFrame \/ ReturnLeftmost \/ EndStartsWith \/ CloseThread
  <2>1. /\ UNCHANGED <<active, next, first>>
        /\ stage \in {"frame", "closeOut"} /\ stage' # "settle"
    BY <1>6 DEF BeginFrame, ReturnLeftmost, EndStartsWith, CloseThread
  <2> QED
    BY <1>3, <1>4, <2>1 DEF WaitInv
<1>7. CASE Cleanup
  BY <1>3, <1>4, <1>7 DEF Cleanup
<1>8. CASE Closed
  <2>1. /\ stage = "closeOut" /\ stage' = "frame" /\ first' = first
        /\ UNCHANGED <<active, next>> \/ (active' = <<>> /\ next' = <<>>)
    BY <1>8 DEF Closed, ResetState
  <2> QED
    BY <1>3, <1>4, <2>1 DEF WaitInv
<1>9. CASE ClientCall
  <2>1. /\ stage = "frame" /\ stage' \in {"frame", "closeOut"} /\ first' = first
    BY <1>9 DEF ClientCall, Search, SearchResolve, StartsWith, CloseOut, Reset, Begin, Inv, Control
  <2>2. \/ UNCHANGED <<active, next>>
        \/ active' = <<>> /\ next' = <<>>
        \/ active' = Fresh(cur) /\ next' = next
    BY <1>9 DEF ClientCall, Search, SearchResolve, StartsWith, CloseOut, Reset, ResetState, Begin
  <2> QED
    BY <1>3, <1>4, <2>1, <2>2, FreshSettled DEF WaitInv
<1>10. CASE ExecuteThread \/ SpawnThreads
  BY <1>3, <1>4, <1>10, ExecuteShape, SpawnShape
<1>11. CASE EpsilonStep
  BY <1>3, <1>4, <1>11, EpsilonShape
<1>12. CASE Settle
  BY <1>3, <1>4, <1>12, SettleShape, SettleWaits, SMTT(60)
<1>13. CASE UNCHANGED vars
  BY <1>13 DEF vars, WaitInv, Settled, Op, IsLive, code
<1> QED
  BY <1>5, <1>6, <1>7, <1>8, <1>9, <1>10, <1>11, <1>12, <1>13, SMTT(60) DEF Next, Step

\* No match is held back for nothing: between frames a finished thread stands behind one
\* that still reads bytes and may take the match's place (vm.cpp:297-313), for every
\* program and text.
THEOREM FinishedWaitAlways == Spec => []FinishedWaitForLive
<1>1. Init => WaitInv
  BY InitWait
<1>2. Inv /\ FlagsMatchNext /\ WaitInv /\ [Next]_vars => WaitInv'
  BY WaitNext
<1>3. Inv /\ WaitInv => FinishedWaitForLive
  <2> SUFFICES ASSUME Inv, WaitInv PROVE FinishedWaitForLive
    OBVIOUS
  <2>1. DOMAIN active = 1..Len(active)
    BY ListTypes
  <2> QED
    BY <2>1 DEF FinishedWaitForLive, WaitInv, Settled, Op
<1> QED
  BY <1>1, <1>2, <1>3, Invariance, FlagsMatchNextAlways, PTL DEF Spec
-----------------------------------------------------------------------------
(* The value that search returns.                                          *)

\* _startOfLeftmostLiveThread (vm.cpp:563-575) is the start of the first thread, which
\* must be live, or the offset of the search when there is none: nothing starts before it.
LEMMA LeftmostBounds ==
  ASSUME Inv, OrderInv, WaitInv, stage = "frame"
  PROVE  /\ StartOfLeftmostLiveThread \in Nat /\ StartOfLeftmostLiveThread <= cur
         /\ \A k \in 1..Len(active) : active[k].start >= StartOfLeftmostLiveThread
<1>1. /\ Len(active) \in Nat /\ cur \in Nat
      /\ \A k \in 1..Len(active) : active[k] \in Thread /\ active[k].start \in Nat
  BY ListTypes
<1>2. CASE Len(active) = 0
  <2>1. LiveIndices = {}
    BY <1>2 DEF LiveIndices
  <2> QED
    BY <1>1, <1>2, <2>1 DEF StartOfLeftmostLiveThread
<1>3. CASE Len(active) > 0
  <2>1. 1 \in 1..Len(active)
    BY <1>1, <1>3
  <2>2. Op(active[1]) \in ByteOps
    <3>1. \A j : j \notin 1..1 - 1
      OBVIOUS
    <3>2. Settled(active)
      BY DEF WaitInv
    <3> QED
      BY <2>1, <3>1, <3>2 DEF Settled
  <2>3. 1 \in LiveIndices /\ \A j \in LiveIndices : j \in Nat /\ 1 <= j
    BY <1>1, <2>1, <2>2 DEF LiveIndices, Op, ByteOps
  <2> DEFINE m == CHOOSE k \in LiveIndices : \A j \in LiveIndices : k <= j
  <2>4. m \in LiveIndices /\ \A j \in LiveIndices : m <= j
    BY <2>3
  <2>5. m = 1
    <3> HIDE DEF m
    <3> QED
      BY <2>3, <2>4
  <2>6. StartOfLeftmostLiveThread = active[1].start
    BY <2>3, <2>5 DEF StartOfLeftmostLiveThread
  <2>7. active[1].start <= cur
    <3>1. t = 1
      BY DEF Inv, Control
    <3>2. active[1].pc # Null /\ Fit(active[1])
      BY <2>1, <3>1 DEF Inv, ActiveOK
    <3> QED
      BY <3>2 DEF Fit
  <2>8. \A k \in 1..Len(active) : active[1].start <= active[k].start
    <3>1. Sorted(active)
      BY FrameSorted
    <3>2. \A k \in 1..Len(active) : k = 1 \/ 1 < k
      BY <1>1
    <3> QED
      BY <1>1, <2>1, <3>1, <3>2 DEF Sorted
  <2> QED
    BY <1>1, <2>1, <2>6, <2>7, <2>8
<1> QED
  BY <1>1, <1>2, <1>3

\* At first nothing was returned.
LEMMA InitReturn == Init => ReturnInv
<1> SUFFICES ASSUME Init PROVE ReturnInv
  OBVIOUS
<1>1. Len(active) = 1 /\ active[1].start = 0 /\ next = <<>> /\ returned = 0 /\ cur = 0
  BY DEF Init, NewThread
<1>2. Len(next) = 0 /\ (\A k : k \notin 1..0) /\ \A k \in 1..1 : k = 1
  BY <1>1
<1> QED
  BY <1>1, <1>2 DEF ReturnInv

\* Every step preserves that no thread starts before the value returned last.
LEMMA ReturnNext ==
  ASSUME Inv, OrderInv, WaitInv, ReturnInv, [Next]_vars
  PROVE  ReturnInv'
<1> USE DEF threadVars, input, controlVars, bufferVars, clientVars
<1>1. /\ Len(active) \in Nat /\ Len(next) \in Nat /\ t \in 1..Len(active) + 1
      /\ cur \in Nat /\ bufEnd \in Nat /\ cur <= bufEnd /\ returned \in Nat
      /\ \A k \in 1..Len(active) : active[k].start \in Nat
  BY ListTypes
<1>2. /\ returned <= cur
      /\ \A k \in 1..Len(next) : next[k].start >= returned
      /\ \A k \in 1..Len(active) : k >= t => active[k].start >= returned
  BY DEF ReturnInv, Pending
<1>3. stage \in {"frame", "closeOut"} => \A k \in 1..Len(active) : active[k].start >= returned
  <2>1. stage = "frame" => \A k \in 1..Len(active) : k >= t
    BY DEF Inv, Control
  <2> QED
    BY <1>2, <2>1 DEF ReturnInv, Pending
<1>4. ASSUME returned' <= cur', \A k \in 1..Len(next') : next'[k].start >= returned',
             \A k \in 1..Len(active') : active'[k].start >= returned'
      PROVE  ReturnInv'
  BY <1>4 DEF ReturnInv
<1>5. Len(<<>>) = 0 /\ \A k : k \notin 1..0
  OBVIOUS
<1>6. CASE Constructed
  BY <1>2, <1>4, <1>5, <1>6 DEF Constructed, ResetState
<1>7. CASE BeginFrame \/ EndStartsWith \/ CloseThread
  <2>1. stage \in {"frame", "closeOut"} /\ UNCHANGED <<active, next, returned, cur>>
    BY <1>7 DEF BeginFrame, EndStartsWith, CloseThread
  <2> QED
    BY <1>2, <1>3, <1>4, <2>1
<1>8. CASE ReturnLeftmost
  <2>1. /\ stage = "frame" /\ returned' = StartOfLeftmostLiveThread
        /\ cur' = bufEnd /\ UNCHANGED <<active, next>>
    BY <1>8 DEF ReturnLeftmost
  <2>2. Len(next) = 0
    BY <2>1 DEF OrderInv
  <2>3. returned' \in Nat /\ returned' <= cur /\ \A k \in 1..Len(active) : active[k].start >= returned'
    BY <2>1, LeftmostBounds
  <2>4. returned' <= cur'
    BY <1>1, <2>1, <2>3
  <2> QED
    BY <1>4, <1>5, <2>1, <2>2, <2>3, <2>4
<1>9. CASE Cleanup
  <2>1. active' = next /\ next' = <<>> /\ returned' = returned /\ cur' = cur + 1
    BY <1>9 DEF Cleanup
  <2>2. returned <= cur + 1
    BY <1>1, <1>2
  <2> QED
    BY <1>2, <1>4, <1>5, <2>1, <2>2
<1>10. CASE Closed
  <2>1. /\ stage = "closeOut" /\ UNCHANGED <<returned, cur>>
        /\ UNCHANGED <<active, next>> \/ (active' = <<>> /\ next' = <<>>)
    BY <1>10 DEF Closed, ResetState
  <2> QED
    BY <1>2, <1>3, <1>4, <1>5, <2>1
<1>11. CASE ClientCall
  <2>1. stage = "frame"
    BY <1>11 DEF ClientCall, Search, SearchResolve, StartsWith, CloseOut, Reset, Begin, Inv, Control
  <2>2. \/ UNCHANGED <<active, next, returned, cur>>
        \/ active' = <<>> /\ next' = <<>> /\ returned' = 0 /\ cur' = 0
        \/ active' = Fresh(cur) /\ UNCHANGED <<next, returned, cur>>
    BY <1>11 DEF ClientCall, Search, SearchResolve, StartsWith, CloseOut, Reset, ResetState, Begin
  <2>3. \A k \in 1..Len(Fresh(cur)) : Fresh(cur)[k].start >= returned
    <3>1. Len(first) \in Nat
      BY ListTypes
    <3>2. Len(Fresh(cur)) = Len(first) /\ \A k \in 1..Len(first) : Fresh(cur)[k].start = cur
      BY <3>1 DEF Fresh, NewThread
    <3> QED
      BY <1>1, <1>2, <3>2
  <2> QED
    BY <1>2, <1>3, <1>4, <1>5, <2>1, <2>2, <2>3
<1>12. ASSUME stage' # "closeOut", UNCHANGED <<returned, cur>>,
              \A k \in 1..Len(next') : next'[k].start >= returned,
              \A k \in 1..Len(active') : k >= t' => active'[k].start >= returned
       PROVE  ReturnInv'
  BY <1>2, <1>12 DEF ReturnInv, Pending
<1>13. \A k : k \in t..Len(active) => k \in 1..Len(active) /\ k >= t
  BY <1>1
<1>14. \A k \in 1..Len(active) : k >= t => k \in t..Len(active)
  BY <1>1
<1>15. \A k \in 1..Len(active) : k >= t + 1 => k >= t
  BY <1>1
<1>16. CASE ExecuteThread
  <2>1. UNCHANGED <<next, cur, returned>>
    BY <1>16, ExecuteShape
  <2>2. CASE stage' = "thread" /\ t' = t + 1 /\ active' = active
    BY <1>2, <1>12, <1>15, <2>1, <2>2
  <2>3. CASE /\ stage' = "epsilon" /\ t' = t /\ Len(active') = Len(active)
             /\ \A k \in t..Len(active) : active'[k].start = active[k].start
    BY <1>2, <1>12, <1>14, <2>1, <2>3
  <2> QED
    BY <1>16, <2>2, <2>3, ExecuteShape
<1>17. CASE SpawnThreads
  <2>1. /\ stage' = "thread" /\ t' = t /\ UNCHANGED <<next, cur, returned>> /\ Len(active') \in Nat
        /\ \A k \in t..Len(active') : active'[k].start = cur
    BY <1>17, SpawnShape
  <2>2. \A k \in 1..Len(active') : k >= t => k \in t..Len(active')
    BY <1>1, <2>1
  <2> QED
    BY <1>1, <1>2, <1>12, <2>1, <2>2
<1>18. CASE EpsilonStep
  <2>1. /\ stage' \in {"epsilon", "settle"} /\ t' = t /\ UNCHANGED <<next, cur, returned>>
        /\ Len(active') = Len(active)
        /\ \A k \in t..Len(active) : active'[k].start = active[k].start
    BY <1>18, EpsilonShape
  <2> QED
    BY <1>2, <1>12, <1>14, <2>1
<1>19. CASE Settle
  <2>1. /\ stage = "settle" /\ t \in 1..Len(active) /\ UNCHANGED <<cur, returned>>
        /\ \/ next' = next
           \/ /\ Len(next') = Len(next) + 1 /\ next'[Len(next) + 1] = active[t]
              /\ \A k \in 1..Len(next) : next'[k] = next[k]
    BY <1>19, SettleShape
  <2>2. active[t].start >= returned
    BY <1>2, <1>1, <2>1
  <2>3. \A k \in 1..Len(next') : next'[k].start >= returned
    <3>1. CASE next' = next
      BY <1>2, <3>1
    <3>2. CASE /\ Len(next') = Len(next) + 1 /\ next'[Len(next) + 1] = active[t]
               /\ \A k \in 1..Len(next) : next'[k] = next[k]
      <4>1. \A k \in 1..Len(next') : k \in 1..Len(next) \/ k = Len(next) + 1
        BY <1>1, <3>2
      <4> QED
        BY <1>2, <2>2, <3>2, <4>1
    <3> QED
      BY <2>1, <3>1, <3>2
  <2>4. CASE stage' = "thread" /\ t' = t + 1 /\ active' = active
    BY <1>2, <1>12, <1>15, <2>1, <2>3, <2>4
  <2>5. CASE /\ stage' = "epsilon" /\ t' = t
             /\ Len(active') = Len(active) /\ active'[t].start = forks[1].start
             /\ \A k \in 1..Len(active) : k # t => active'[k] = active[k]
             /\ Len(forks) >= 1
    <3>1. 1 \in 1..Len(forks)
      BY <2>5, ListTypes
    <3>2. active'[t].start >= returned
      BY <2>1, <2>2, <2>5, <3>1 DEF OrderInv
    <3>3. \A k \in 1..Len(active) : k >= t => active'[k].start >= returned
      BY <1>2, <2>5, <3>2
    <3> QED
      BY <1>12, <2>1, <2>3, <2>5, <3>3
  <2> QED
    BY <1>19, <2>4, <2>5, SettleShape
<1>20. CASE UNCHANGED vars
  BY <1>20 DEF vars, ReturnInv, Pending
<1> QED
  BY <1>6, <1>7, <1>8, <1>9, <1>10, <1>11, <1>16, <1>17, <1>18, <1>19, <1>20 DEF Next, Step

\* Whatever a step adds to the hits starts at or after the value last returned.
LEMMA NewHitsBounded ==
  ASSUME Inv, ReturnInv, [Next]_vars
  PROVE  \A k \in DOMAIN hits' \ DOMAIN hits : hits'[k].start >= returned
<1> USE DEF input, threadVars, flagVars, matchVars, controlVars, bufferVars, clientVars
<1>1. ASSUME NEW u, Accept(u), u.start >= returned
      PROVE  \A k \in DOMAIN hits' \ DOMAIN hits : hits'[k].start >= returned
  <2>1. CASE hits' = hits
    BY <2>1
  <2>2. CASE hits' = Append(hits, Hit(u))
    <3>1. /\ DOMAIN hits' = DOMAIN hits \cup {Len(hits) + 1}
          /\ hits'[Len(hits) + 1] = Hit(u)
      <4> DEFINE H == [start: Nat, end: Nat, label: Labels]
      <4>1. hits \in Seq(H)
        BY DEF Inv, StateTypes
      <4> HIDE DEF H
      <4> QED
        BY <2>2, <4>1
    <3>2. Hit(u).start = u.start
      BY DEF Hit
    <3> QED
      BY <1>1, <3>1, <3>2
  <2> QED
    BY <1>1, <2>1, <2>2 DEF Accept
<1>2. \A k \in 1..Len(active) : Pending(k) => active[k].start >= returned
  BY DEF ReturnInv
<1>3. CASE hits' = hits
  BY <1>3
<1>4. CASE hits' = <<>>
  BY <1>4
<1>5. CASE FinishReports
  <2>1. t \in 1..Len(active) /\ Pending(t)
    BY <1>5, Running1, ListTypes DEF FinishReports, At, Pending
  <2> QED
    BY <1>1, <1>2, <1>3, <1>5, <2>1 DEF FinishReports
<1>6. CASE CloseThread
  <2>1. t \in 1..Len(active) /\ Pending(t)
    BY <1>6, ListTypes DEF CloseThread, Pending
  <2> QED
    BY <1>1, <1>2, <1>3, <1>6, <2>1 DEF CloseThread
<1>7. CASE ClientCall
  BY <1>3, <1>4, <1>7 DEF ClientCall, Search, SearchResolve, StartsWith, CloseOut, Reset, Begin
<1>8. CASE Constructed \/ BeginFrame \/ ExecuteThread \/ SpawnThreads \/ Cleanup \/ ReturnLeftmost
           \/ Settle \/ EndStartsWith \/ Closed
  BY <1>3, <1>8, SMTT(60) DEF Constructed, BeginFrame, ExecuteThread, SpawnThreads, Cleanup,
     ReturnLeftmost, Settle, EndStartsWith, Closed
<1>9. CASE FinishWaits \/ Fork \/ Jump \/ CheckHalt \/ Label \/ Match \/ EndSequence
  BY <1>3, <1>9 DEF FinishWaits, Fork, Jump, CheckHalt, Label, Match, EndSequence
<1>10. CASE UNCHANGED vars
  BY <1>3, <1>10 DEF vars
<1> QED
  BY <1>5, <1>6, <1>7, <1>8, <1>9, <1>10 DEF Next, Step, EpsilonStep

\* The value that search and search_resolve return (vm.cpp:619, 651) lets the client drop
\* its buffer up to there: for every program, text, division into buffers and mix of calls
\* no later hit of the stream starts before it.
THEOREM ReturnBounds == Spec => ReturnBoundsLaterHits
<1>1. Init => OrderInv /\ WaitInv /\ ReturnInv
  BY InitOrder, InitWait, InitReturn
<1>2. Inv /\ FlagsMatchNext /\ OrderInv /\ WaitInv /\ ReturnInv /\ [Next]_vars
        => OrderInv' /\ WaitInv' /\ ReturnInv'
  BY OrderNext, WaitNext, ReturnNext
<1>3. Inv /\ ReturnInv /\ [Next]_vars
        => [\A k \in DOMAIN hits' \ DOMAIN hits : hits'[k].start >= returned]_vars
  BY NewHitsBounded
<1> QED
  BY <1>1, <1>2, <1>3, Invariance, FlagsMatchNextAlways, PTL DEF Spec, ReturnBoundsLaterHits
-----------------------------------------------------------------------------
(* A lead thread has nothing before it but what came from its own start.   *)

\* What Yields tells of a thread.
Alike(u, v) == u.start = v.start /\ u.label = v.label /\ u.lead = v.lead

\* Threads alike yield alike.
LEMMA AlikeYields ==
  ASSUME NEW u, NEW v, NEW x, NEW y, Alike(u, x), Alike(v, y), Yields(x, y)
  PROVE  Yields(u, v)
BY DEF Alike, Yields, Blocks

\* Threads of one start yield to each other.
LEMMA SameStartYields ==
  ASSUME NEW u, NEW v, u.start = v.start
  PROVE  Yields(u, v)
BY DEF Yields

\* Where control goes leaves the thread alike; so does its death.
LEMMA MovedAlike ==
  ASSUME NEW u \in Thread
  PROVE  /\ \A y : Alike([u EXCEPT !.pc = y], u) /\ [u EXCEPT !.pc = y].pc = y
         /\ Alike(Advance(u), u) /\ Alike(Dead(u), u) /\ Alike(u, u)
<1>1. ASSUME NEW y PROVE Alike([u EXCEPT !.pc = y], u) /\ [u EXCEPT !.pc = y].pc = y
  BY DEF Thread, Alike
<1> QED
  BY <1>1 DEF Advance, Dead, Alike

\* Control goes on with the labels that the next address allows.
LEMMA MoveCarries ==
  ASSUME prog \in Programs, NEW u \in Thread, u.pc \in DOMAIN code, Carries(u),
         NEW y \in Targets(prog, u.pc), code[u.pc].op # "LABEL"
  PROVE  Carries([u EXCEPT !.pc = y])
<1>1. Alike([u EXCEPT !.pc = y], u) /\ [u EXCEPT !.pc = y].pc = y
  BY MovedAlike
<1>2. Flow(prog).carried[u.pc] \subseteq Flow(prog).carried[y]
  BY LabelsAssumption DEF LabelsFixed, code
<1> DEFINE v == [u EXCEPT !.pc = y]
<1> HIDE DEF v
<1>3. v.start = u.start /\ v.label = u.label /\ v.lead = u.lead /\ v.pc = y
  BY <1>1 DEF Alike, v
<1>4. Carries(v)
  BY <1>2, <1>3 DEF Carries
<1> QED
  BY <1>4 DEF v

\* So it does past the instruction.
LEMMA AdvanceCarries ==
  ASSUME prog \in Programs, NEW u \in Thread, u.pc \in DOMAIN code, Carries(u),
         code[u.pc].op \in FallsThrough, code[u.pc].op # "LABEL"
  PROVE  Carries(Advance(u))
<1>1. /\ u.pc + Size(code[u.pc]) \in Targets(prog, u.pc)
      /\ Advance(u) = [u EXCEPT !.pc = u.pc + Size(code[u.pc])]
  BY FallThrough
<1> QED
  BY <1>1, MoveCarries

\* LABEL_OP (vm.cpp:356-368) gives a label to a thread that has none, or has that one:
\* it may take the place of no match that it could not take before.
LEMMA LabelYields ==
  ASSUME prog \in Programs, NEW u \in Thread, u.pc \in DOMAIN code, Carries(u),
         code[u.pc].op = "LABEL",
         NEW v, v = Advance([u EXCEPT !.label = code[u.pc].offset])
  PROVE  /\ Carries(v) /\ v.start = u.start
         /\ \A x : Yields(u, x) => Yields(v, x)
         /\ \A x : Yields(x, u) => Yields(x, v)
<1> DEFINE y == u.pc + Size(code[u.pc])
           l == code[u.pc].offset
           w == [u EXCEPT !.label = l]
<1>1. y \in Targets(prog, u.pc)
  BY FallThrough DEF FallsThrough
<1>2. l \in Labels /\ l # NoLabel
  BY ProgramFacts DEF WellFormed, code, Labels, NoLabel
<1>3. w \in Thread /\ w.pc = u.pc /\ w.start = u.start /\ w.label = l /\ w.lead = u.lead
  BY <1>2 DEF Thread
<1>4. v = [w EXCEPT !.pc = y]
  BY <1>3 DEF Advance
<1>5. Flow(prog).carried[u.pc] \subseteq {NoLabel, l} /\ l \in Flow(prog).carried[y]
  BY <1>1, LabelsAssumption DEF LabelsFixed, code
<1> HIDE DEF y, w
<1>6. Alike(v, w) /\ v.pc = y
  BY <1>3, <1>4, MovedAlike
<1>7. v.label = l /\ v.start = u.start /\ v.lead = u.lead /\ v.pc = y
  BY <1>3, <1>6 DEF Alike
<1> HIDE DEF l
<1>8. (u.label = NoLabel \/ u.label = l) /\ (u.lead => u.label = l)
  BY <1>5 DEF Carries
<1>9. Carries(v)
  BY <1>2, <1>5, <1>7 DEF Carries
<1>10. ASSUME NEW x, Yields(u, x) PROVE Yields(v, x)
  BY <1>7, <1>8, <1>10 DEF Yields, Blocks
<1>11. ASSUME NEW x, Yields(x, u) PROVE Yields(x, v)
  BY <1>7, <1>8, <1>11 DEF Yields, Blocks
<1> QED
  BY <1>7, <1>9, <1>10, <1>11

\* MATCH_OP (vm.cpp:370-374) makes a thread the lead only when no survivor may take the
\* place of its match.
LEMMA MatchYields ==
  ASSUME prog \in Programs, NEW u \in Thread, Fit(u), u.pc \in DOMAIN code, Carries(u),
         code[u.pc].op = "MATCH", FlagsMatchNext,
         NEW v, v = Advance([u EXCEPT !.end = cur, !.lead = ~IsLive(u.label)])
  PROVE  /\ Carries(v) /\ v.start = u.start
         /\ \A x : Yields(u, x) => Yields(v, x)
         /\ \A k \in DOMAIN next : Yields(next[k], v)
<1> DEFINE y == u.pc + Size(code[u.pc])
           lead == ~IsLive(u.label)
           w == [u EXCEPT !.end = cur, !.lead = lead]
<1>1. y \in Targets(prog, u.pc)
  BY FallThrough DEF FallsThrough
<1>2. u.label # NoLabel
  BY LabelsAssumption DEF LabelsFixed, code, Fit
<1>3. w.pc = u.pc /\ w.start = u.start /\ w.label = u.label
  BY DEF Thread
<1>4. w.lead <=> lead
  BY Zenon DEF Thread
<1>5. v = [w EXCEPT !.pc = y]
  BY <1>3 DEF Advance
<1>6. Flow(prog).carried[u.pc] \subseteq Flow(prog).carried[y]
  BY <1>1, LabelsAssumption DEF LabelsFixed, code
<1>7. v.label = u.label /\ v.start = u.start /\ v.pc = y
  BY <1>3, <1>5 DEF Thread
<1>8. v.lead <=> lead
  BY <1>4, <1>5, Zenon DEF Thread
<1> HIDE DEF y, w, lead
<1>9. Carries(v)
  BY <1>2, <1>6, <1>7 DEF Carries
<1>10. ASSUME NEW x, Yields(u, x) PROVE Yields(v, x)
  BY <1>7, <1>10 DEF Yields, Blocks
<1>11. ASSUME NEW k \in DOMAIN next PROVE Yields(next[k], v)
  <2> SUFFICES ASSUME v.lead, Blocks(next[k], v) PROVE FALSE
    BY DEF Yields
  <2>1. ~IsLive(u.label)
    BY <1>8 DEF lead
  <2>2. next[k].label = NoLabel \/ next[k].label = u.label
    BY <1>7 DEF Blocks
  <2> QED
    BY <1>2, <2>1, <2>2 DEF IsLive, FlagsMatchNext
<1> QED
  BY <1>7, <1>9, <1>10, <1>11

\* What the step of a thread must leave, for the runner that is left in its place.
Succeeds(u) ==
  /\ u.start = active[t].start
  /\ \A x : Yields(active[t], x) => Yields(u, x)
  /\ \A k \in 1..Len(next) : Yields(next[k], u)
  /\ u.pc # Null => Carries(u)

\* The threads behind the runner are as they were, or sent to the guard.
RestAlike ==
  \A k \in t + 1..Len(active) :
    Alike(active'[k], active[k]) /\ (Carries(active[k]) => Carries(active'[k]))

\* A thread that only moves, or dies, may stand in its own place.
LEMMA AlikeSucceeds ==
  ASSUME LeadInv, Inv, t <= Len(active), NEW u, Alike(u, active[t]), u.pc # Null => Carries(u)
  PROVE  Succeeds(u)
<1>1. t \in t..Len(active)
  BY ListTypes
<1>2. \A k \in 1..Len(next) : Yields(next[k], active[t])
  BY <1>1 DEF LeadInv
<1> DEFINE th == active[t]
<1>3. \A x : Yields(th, x) => Yields(u, x)
  BY DEF Alike, Yields, Blocks
<1>4. \A x : Yields(x, th) => Yields(x, u)
  BY DEF Alike, Yields, Blocks
<1> QED
  BY <1>2, <1>3, <1>4 DEF Succeeds, Alike

\* FINISH_OP (vm.cpp:271-295) sends threads to the guard as they are.
LEMMA KillsAlike ==
  ASSUME Inv, stage = "epsilon", code[active[t].pc].op = "FINISH"
  PROVE  \A k \in t + 1..Len(active) :
           /\ Alike(AfterKills[k], active[k])
           /\ Carries(active[k]) => Carries(AfterKills[k])
<1>1. /\ prog \in Programs /\ t \in 1..Len(active) /\ active \in Seq(Thread)
      /\ \A k \in 1..Len(active) : active[k] \in Thread
  BY Running1, ListTypes
<1>2. \A k \in 1..Len(active) :
        AfterKills[k] = IF Killed(k) THEN [active[k] EXCEPT !.pc = prog.guard] ELSE active[k]
  BY <1>1 DEF AfterKills
<1>3. Labels \cup {NoLabel} \subseteq Flow(prog).carried[prog.guard]
  BY <1>1, LabelsAssumption DEF LabelsFixed, Labels
<1> SUFFICES ASSUME NEW k \in t + 1..Len(active)
             PROVE  /\ Alike(AfterKills[k], active[k])
                    /\ Carries(active[k]) => Carries(AfterKills[k])
  OBVIOUS
<1>4. k \in 1..Len(active) /\ active[k] \in Thread
  BY <1>1
<1>5. CASE ~Killed(k)
  BY <1>2, <1>4, <1>5 DEF Alike
<1>6. CASE Killed(k)
  <2> DEFINE u == [active[k] EXCEPT !.pc = prog.guard]
  <2>1. Alike(u, active[k]) /\ u.pc = prog.guard
    BY <1>4, MovedAlike
  <2>2. u = AfterKills[k]
    BY <1>2, <1>4, <1>6
  <2>3. active[k].label \in Labels \cup {NoLabel}
    BY <1>4 DEF Thread
  <2> HIDE DEF u
  <2>4. Carries(active[k]) => Carries(u)
    BY <1>3, <2>1, <2>3 DEF Carries, Alike
  <2> QED
    BY <2>1, <2>2, <2>4
<1> QED
  BY <1>5, <1>6

\* A thread that moves on past FORK, JUMP or CHECK_HALT, or dies, may stand in its place.
LEMMA MoveSucceeds ==
  ASSUME LeadInv, CarriesInv, Inv, stage = "epsilon", active[t].pc \in DOMAIN code
  PROVE  /\ Succeeds(Dead(active[t])) /\ Succeeds(active[t]) /\ Carries(active[t])
         /\ code[active[t].pc].op \in {"FORK", "CHECK_HALT"} => Succeeds(Advance(active[t]))
         /\ code[active[t].pc].op \in {"FORK", "JUMP"} =>
              Succeeds([active[t] EXCEPT !.pc = code[@].target])
<1>1. /\ prog \in Programs /\ t \in 1..Len(active) /\ active[t] \in Thread /\ t <= Len(active)
      /\ active[t].pc # Null /\ Len(active) \in Nat
  BY Running1, ListTypes DEF Fit, RealThread
<1>2. Carries(active[t])
  BY <1>1 DEF CarriesInv, Pending
<1> DEFINE th == active[t]
<1>3. Succeeds(th) /\ Succeeds(Dead(th))
  BY <1>1, <1>2, MovedAlike, SameStart, AlikeSucceeds
<1>4. ASSUME code[th.pc].op \in {"FORK", "CHECK_HALT"} PROVE Succeeds(Advance(th))
  <2>1. Carries(Advance(th))
    BY <1>1, <1>2, <1>4, AdvanceCarries DEF FallsThrough
  <2>2. Alike(Advance(th), th)
    BY <1>1, MovedAlike
  <2> QED
    BY <1>1, <2>1, <2>2, AlikeSucceeds
<1>5. ASSUME code[th.pc].op \in {"FORK", "JUMP"} PROVE Succeeds([th EXCEPT !.pc = code[@].target])
  <2> DEFINE y == code[th.pc].target
  <2>1. y \in Targets(prog, th.pc)
    BY <1>5, JumpTarget
  <2>2. [th EXCEPT !.pc = code[@].target] = [th EXCEPT !.pc = y]
    BY <1>1 DEF Thread
  <2> HIDE DEF y
  <2>3. Carries([th EXCEPT !.pc = y])
    BY <1>1, <1>2, <1>5, <2>1, MoveCarries
  <2>4. Alike([th EXCEPT !.pc = y], th)
    BY <1>1, MovedAlike
  <2> QED
    BY <1>1, <2>2, <2>3, <2>4, AlikeSucceeds
<1> QED
  BY <1>2, <1>3, <1>4, <1>5

\* Whatever instruction of an epsilon sequence the runner is at, what it becomes may
\* stand in its place.
LEMMA EpsilonLead ==
  ASSUME Inv, FlagsMatchNext, LeadInv, CarriesInv, EpsilonStep
  PROVE  Succeeds(active'[t]) /\ RestAlike
<1> USE DEF At, SetThread
<1>1. stage = "epsilon"
  BY EpsilonShape
<1>2. /\ active \in Seq(Thread) /\ t \in 1..Len(active) /\ active[t] \in Thread
      /\ Fit(active[t]) /\ active[t].pc \in DOMAIN code /\ prog \in Programs /\ Len(active) \in Nat
      /\ \A k \in 1..Len(active) : active[k] \in Thread
  BY <1>1, Running1, ListTypes
<1> DEFINE th == active[t]
<1>3. /\ Succeeds(Dead(th)) /\ Succeeds(th) /\ Carries(th)
      /\ code[th.pc].op \in {"FORK", "CHECK_HALT"} => Succeeds(Advance(th))
      /\ code[th.pc].op \in {"FORK", "JUMP"} => Succeeds([th EXCEPT !.pc = code[@].target])
  BY <1>1, <1>2, MoveSucceeds
<1>4. ASSUME NEW u, Succeeds(u), active' = [active EXCEPT ![t] = u]
      PROVE  Succeeds(active'[t]) /\ RestAlike
  <2>1. active'[t] = u /\ \A k \in 1..Len(active) : k # t => active'[k] = active[k]
    BY <1>2, <1>4, ReplaceAny
  <2>2. \A k \in t + 1..Len(active) : k \in 1..Len(active) /\ k # t
    BY <1>2
  <2>3. RestAlike
    BY <2>1, <2>2 DEF RestAlike, Alike
  <2> QED
    BY <1>4, <2>1, <2>3
<1>5. CASE FinishWaits
  <2>1. active' = AfterKills /\ code[th.pc].op = "FINISH"
    BY <1>5 DEF FinishWaits
  <2>2. AfterKills[t] = th
    BY <1>1, <2>1, KillsFit
  <2> QED
    BY <1>1, <1>3, <2>1, <2>2, KillsAlike DEF RestAlike
<1>6. CASE FinishReports
  <2>1. active' = [AfterKills EXCEPT ![t] = Dead(th)] /\ code[th.pc].op = "FINISH"
    BY <1>6 DEF FinishReports
  <2>2. AfterKills \in Seq(Thread) /\ Len(AfterKills) = Len(active)
    BY <1>1, <2>1, KillsFit
  <2>3. active'[t] = Dead(th) /\ \A k \in 1..Len(active) : k # t => active'[k] = AfterKills[k]
    BY <1>2, <2>1, <2>2, ReplaceAny
  <2>4. \A k \in t + 1..Len(active) : active'[k] = AfterKills[k]
    BY <1>2, <2>3
  <2> QED
    BY <1>1, <1>3, <2>1, <2>3, <2>4, KillsAlike DEF RestAlike
<1>7. CASE Fork
  BY <1>3, <1>4, <1>7 DEF Fork
<1>8. CASE Jump
  BY <1>3, <1>4, <1>8 DEF Jump
<1>9. CASE CheckHalt
  BY <1>3, <1>4, <1>9 DEF CheckHalt
<1>10. CASE Label
  <2> DEFINE v == Advance([th EXCEPT !.label = code[th.pc].offset])
  <2>1. code[th.pc].op = "LABEL"
        /\ (active' = [active EXCEPT ![t] = v] \/ active' = [active EXCEPT ![t] = Dead(th)])
    BY <1>10 DEF Label
  <2>2. Succeeds(v)
    <3>1. /\ Carries(v) /\ v.start = th.start
          /\ \A x : Yields(th, x) => Yields(v, x)
          /\ \A x : Yields(x, th) => Yields(x, v)
      BY <1>2, <1>3, <2>1, LabelYields
    <3>2. \A k \in 1..Len(next) : Yields(next[k], th)
      BY <1>3 DEF Succeeds
    <3> HIDE DEF v
    <3> QED
      BY <3>1, <3>2 DEF Succeeds
  <2> HIDE DEF v
  <2> QED
    BY <1>3, <1>4, <2>1, <2>2
<1>11. CASE Match
  <2> DEFINE v == Advance([th EXCEPT !.end = cur, !.lead = ~IsLive(th.label)])
  <2>1. code[th.pc].op = "MATCH" /\ active' = [active EXCEPT ![t] = v]
    BY <1>11 DEF Match
  <2>2. Succeeds(v)
    <3>1. /\ Carries(v) /\ v.start = th.start
          /\ \A x : Yields(th, x) => Yields(v, x)
          /\ \A k \in DOMAIN next : Yields(next[k], v)
      BY <1>2, <1>3, <2>1, MatchYields
    <3>2. \A k \in 1..Len(next) : k \in DOMAIN next
      BY ListTypes
    <3> HIDE DEF v
    <3> QED
      BY <3>1, <3>2 DEF Succeeds
  <2> HIDE DEF v
  <2> QED
    BY <1>4, <2>1, <2>2
<1>12. CASE EndSequence
  <2>1. CASE active' = active
    BY <1>3, <2>1 DEF RestAlike, Alike
  <2>2. CASE active' = [active EXCEPT ![t] = Dead(th)]
    BY <1>3, <1>4, <2>2
  <2> QED
    BY <1>12, <2>1, <2>2 DEF EndSequence
<1> QED
  BY <1>5, <1>6, <1>7, <1>8, <1>9, <1>10, <1>11, <1>12 DEF EpsilonStep

\* A byte instruction (vm.cpp:192-244) leaves the thread alike, with a label that the next
\* address allows.
LEMMA ExecuteLead ==
  ASSUME Inv, LeadInv, CarriesInv, ExecuteThread, active' # active
  PROVE  Succeeds(active'[t]) /\ RestAlike
<1> DEFINE th == active[t]  b == text[cur + 1]
<1>1. /\ active \in Seq(Thread) /\ t \in 1..Len(active) /\ th \in Thread /\ prog \in Programs
      /\ th.pc \in DOMAIN code /\ th.pc # Null /\ t <= Len(active) /\ Len(active) \in Nat
  <2>1. active[t].pc # Null /\ Fit(active[t]) /\ prog \in Programs /\ t \in 1..Len(active)
    BY ExecuteShape, ListTypes, SMTT(60) DEF Inv, ActiveOK, Control
  <2> QED
    BY <2>1, ListTypes, SMTT(60) DEF Fit, RealThread, Thread
<1>2. Carries(th)
  BY <1>1 DEF CarriesInv, Pending
<1>3. \A u \in ByteSuccessors(th, b) : Alike(u, th) /\ Carries(u)
  <2>1. CASE code[th.pc].op = "FINISH"
    BY <1>2, <2>1 DEF ByteSuccessors, Alike
  <2>2. CASE code[th.pc].op = "JUMP_TABLE_RANGE"
    <3> DEFINE y == TableEntry(code[th.pc], b)
    <3>1. y # 0 => y \in Targets(prog, th.pc)
      BY <2>2 DEF TableEntry, Targets, code
    <3>2. \A u \in ByteSuccessors(th, b) : y # 0 /\ u = [th EXCEPT !.pc = y]
      BY <2>2 DEF ByteSuccessors
    <3> HIDE DEF th, y
    <3>3. y # 0 => Carries([th EXCEPT !.pc = y]) /\ Alike([th EXCEPT !.pc = y], th)
      BY <1>1, <1>2, <2>2, <3>1, MoveCarries, MovedAlike
    <3> QED
      BY <3>2, <3>3
  <2>3. CASE code[th.pc].op \notin {"FINISH", "JUMP_TABLE_RANGE"}
    <3>1. \A u \in ByteSuccessors(th, b) : u = Advance(th) /\ Consumes(code[th.pc], b)
      BY <2>3 DEF ByteSuccessors
    <3>2. Consumes(code[th.pc], b) => code[th.pc].op \in FallsThrough /\ code[th.pc].op # "LABEL"
      BY DEF Consumes, FallsThrough
    <3> HIDE DEF th
    <3>3. Consumes(code[th.pc], b) => Carries(Advance(th)) /\ Alike(Advance(th), th)
      BY <1>1, <1>2, <3>2, AdvanceCarries, MovedAlike
    <3> QED
      BY <3>1, <3>3
  <2> QED
    BY <2>1, <2>2, <2>3
<1>4. PICK u \in ByteSuccessors(th, b) : active' = [active EXCEPT ![t] = u]
  BY DEF ExecuteThread
<1>5. Succeeds(u)
  BY <1>1, <1>3, AlikeSucceeds
<1>6. active'[t] = u /\ \A k \in 1..Len(active) : k # t => active'[k] = active[k]
  BY <1>1, <1>4, ReplaceAny
<1>7. RestAlike
  <2>1. \A k \in t + 1..Len(active) : k \in 1..Len(active) /\ k # t
    BY <1>1
  <2> QED
    BY <1>6, <2>1 DEF RestAlike, Alike
<1> QED
  BY <1>5, <1>6, <1>7

\* The lists of a frame, one at a time.
LeadSorted(s) == \A i, j \in 1..Len(s) : i < j => Yields(s[i], s[j])
AllCarry(s) == \A k \in 1..Len(s) : Carries(s[k])

\* A step that leaves one list and nothing else.
LEMMA OneListLead ==
  ASSUME LeadSorted(active'), AllCarry(active'), next' = <<>>, forks' = <<>>, prog' = prog
  PROVE  LeadInv' /\ CarriesInv'
<1>1. Len(<<>>) = 0 /\ \A k : k \notin 1..0
  OBVIOUS
<1>2. Len(next') = 0 /\ Len(forks') = 0
  BY <1>1
<1>3. LeadInv'
  BY <1>1, <1>2 DEF LeadInv, LeadSorted, Yields, Blocks
<1>4. CarriesInv'
  BY <1>1, <1>2 DEF CarriesInv, AllCarry, Carries
<1> QED
  BY <1>3, <1>4

\* The threads of First, made anew, lead nowhere and have no label yet.
LEMMA FreshLead ==
  ASSUME Inv, NEW s
  PROVE  /\ LeadSorted(Fresh(s)) /\ AllCarry(Fresh(s))
         /\ \A k \in 1..Len(Fresh(s)) : \A x : Yields(x, Fresh(s)[k])
<1>1. /\ prog \in Programs /\ first \in Seq(RealThread) /\ Len(first) \in Nat
      /\ \A k \in 1..Len(first) : first[k].pc \in Flow(prog).initial /\ first[k] \in RealThread
  BY DEF Inv, Control, FirstOK
<1>2. /\ Len(Fresh(s)) = Len(first)
      /\ \A k \in 1..Len(first) : Fresh(s)[k] = NewThread(first[k].pc, s)
  BY <1>1 DEF Fresh
<1>3. \A k \in 1..Len(first) : first[k].pc \in DOMAIN prog.code
  BY <1>1 DEF RealThread, Thread, code
<1>4. \A k \in 1..Len(first) : Carries(NewThread(first[k].pc, s))
  BY <1>1, <1>3, LabelsAssumption DEF LabelsFixed, Carries, NewThread
<1>5. \A k \in 1..Len(first) : \A x : Yields(x, NewThread(first[k].pc, s))
  BY DEF Yields, NewThread
<1>6. AllCarry(Fresh(s))
  BY <1>2, <1>4 DEF AllCarry
<1>7. \A k \in 1..Len(Fresh(s)) : \A x : Yields(x, Fresh(s)[k])
  BY <1>2, <1>5
<1>8. LeadSorted(Fresh(s))
  BY <1>7 DEF LeadSorted
<1> QED
  BY <1>6, <1>7, <1>8

\* Between frames every thread stands in active, and what is said of those to run is
\* said of all of them.
LEMMA FrameLeads ==
  ASSUME Inv, OrderInv, LeadInv, CarriesInv, stage \in {"frame", "closeOut"}
  PROVE  LeadSorted(active) /\ AllCarry(active) /\ next = <<>> /\ forks = <<>>
<1>1. \A k \in 1..Len(active) : Pending(k) /\ active[k].pc # Null
  BY ListTypes, SMTT(60) DEF Pending, Inv, Control, ActiveOK
<1>2. next = <<>> /\ forks = <<>>
  BY DEF OrderInv, Inv, ForksOK
<1> QED
  BY <1>1, <1>2 DEF LeadSorted, AllCarry, LeadInv, CarriesInv

\* The steps between frames and at their ends hand on one list, each thread of which
\* yields to those before it.
LEMMA FrameLead ==
  ASSUME Inv, OrderInv, LeadInv, CarriesInv,
         \/ Constructed \/ BeginFrame \/ Cleanup \/ ReturnLeftmost \/ EndStartsWith
         \/ CloseThread \/ Closed \/ ClientCall
  PROVE  LeadInv' /\ CarriesInv'
<1> USE DEF threadVars, input, controlVars
<1>1. LeadSorted(<<>>) /\ AllCarry(<<>>)
  BY DEF LeadSorted, AllCarry
<1>2. CASE Constructed
  <2>1. active' = <<>> /\ next' = <<>> /\ forks' = forks /\ prog' = prog /\ forks = <<>>
    BY <1>2 DEF Constructed, ResetState, Inv, ForksOK
  <2> QED
    BY <1>1, <2>1, OneListLead
<1>3. CASE BeginFrame \/ ReturnLeftmost \/ EndStartsWith \/ CloseThread
  <2>1. stage \in {"frame", "closeOut"} /\ UNCHANGED <<active, next, forks, prog>>
    BY <1>3 DEF BeginFrame, ReturnLeftmost, EndStartsWith, CloseThread
  <2> QED
    BY <2>1, FrameLeads, OneListLead
<1>4. CASE Cleanup
  <2>1. active' = next /\ next' = <<>> /\ forks' = forks /\ prog' = prog /\ forks = <<>>
    BY <1>4 DEF Cleanup, Inv, ForksOK
  <2>2. LeadSorted(next) /\ AllCarry(next)
    BY DEF LeadInv, CarriesInv, LeadSorted, AllCarry
  <2> QED
    BY <2>1, <2>2, OneListLead
<1>5. CASE Closed
  <2>1. /\ stage = "closeOut" /\ UNCHANGED <<forks, prog>>
        /\ UNCHANGED <<active, next>> \/ (active' = <<>> /\ next' = <<>>)
    BY <1>5 DEF Closed, ResetState
  <2> QED
    BY <1>1, <2>1, FrameLeads, OneListLead
<1>6. CASE ClientCall
  <2>1. stage = "frame"
    BY <1>6 DEF ClientCall, Search, SearchResolve, StartsWith, CloseOut, Reset, Begin, Inv, Control
  <2>2. /\ UNCHANGED <<forks, prog>>
        /\ \/ UNCHANGED <<active, next>>
           \/ active' = <<>> /\ next' = <<>>
           \/ active' = Fresh(cur) /\ next' = next
    BY <1>6 DEF ClientCall, Search, SearchResolve, StartsWith, CloseOut, Reset, ResetState, Begin
  <2>3. LeadSorted(Fresh(cur)) /\ AllCarry(Fresh(cur))
    BY FreshLead
  <2> QED
    BY <1>1, <2>1, <2>2, <2>3, FrameLeads, OneListLead
<1> QED
  BY <1>2, <1>3, <1>4, <1>5, <1>6

\* The clauses of the invariant on lists given by value, n the first thread to run.
LeadLists(a, n, x, f) ==
  /\ \A i, j \in 1..Len(a) : i < j /\ i >= n => Yields(a[i], a[j])
  /\ \A i, j \in 1..Len(x) : i < j => Yields(x[i], x[j])
  /\ \A i \in 1..Len(x), k \in n..Len(a) : Yields(x[i], a[k])
  /\ \A i \in 1..Len(x), k \in 1..Len(f) : Yields(x[i], f[k])
  /\ \A i \in 1..Len(f), k \in n + 1..Len(a) : Yields(f[i], a[k])

CarryLists(a, n, x, f) ==
  /\ \A k \in n..Len(a) : a[k].pc # Null => Carries(a[k])
  /\ AllCarry(x) /\ AllCarry(f)

\* Within a frame the invariant is about the lists from the runner on.
LEMMA WithinFrame ==
  ASSUME t' \in Nat, stage' # "closeOut", prog' = prog, Len(active') \in Nat,
         LeadLists(active', t', next', forks'), CarryLists(active', t', next', forks')
  PROVE  LeadInv' /\ CarriesInv'
<1>1. LeadInv'
  BY DEF LeadInv, LeadLists, Pending, Yields, Blocks
<1>2. \A k \in 1..Len(active') : k >= t' => k \in t'..Len(active')
  OBVIOUS
<1>3. CarriesInv'
  BY <1>2 DEF CarriesInv, CarryLists, AllCarry, Pending, Carries
<1> QED
  BY <1>1, <1>3

\* What the invariant says of the lists before a step within a frame.
LEMMA ListsBefore ==
  ASSUME Inv, LeadInv, CarriesInv, stage # "closeOut"
  PROVE  LeadLists(active, t, next, forks) /\ CarryLists(active, t, next, forks)
<1>1. \A k \in t..Len(active) : k \in 1..Len(active) /\ Pending(k)
  BY ListTypes DEF Pending
<1>2. \A k : k >= t => Pending(k)
  BY DEF Pending
<1> QED
  BY <1>1, <1>2 DEF LeadInv, CarriesInv, LeadLists, CarryLists, AllCarry

\* The threads behind one that has had its turn.
LEMMA NextRunner ==
  ASSUME NEW a, NEW n \in Nat, NEW x, NEW f, Len(a) \in Nat,
         LeadLists(a, n, x, f), CarryLists(a, n, x, f)
  PROVE  LeadLists(a, n + 1, x, <<>>) /\ CarryLists(a, n + 1, x, <<>>)
<1>1. Len(<<>>) = 0 /\ \A k : k \notin 1..0
  OBVIOUS
<1>2. \A k \in n + 1..Len(a) : k \in n..Len(a)
  OBVIOUS
<1>3. \A k \in 1..Len(a) : k >= n + 1 => k >= n
  OBVIOUS
<1> QED
  BY <1>1, <1>2, <1>3 DEF LeadLists, CarryLists, AllCarry

\* A saved copy of the runner yields and is yielded to as the runner is.
LEMMA ForkLead ==
  ASSUME NEW a \in Seq(Thread), NEW n \in 1..Len(a), NEW x, NEW f \in Seq(Thread),
         LeadLists(a, n, x, f), CarryLists(a, n, x, f), Carries(a[n])
  PROVE  LeadLists(a, n, x, <<a[n]>> \o f) /\ CarryLists(a, n, x, <<a[n]>> \o f)
<1> DEFINE g == <<a[n]>> \o f
<1>1. Len(f) \in Nat /\ a[n] \in Thread /\ Len(a) \in Nat
  OBVIOUS
<1>2. \A k \in 1..Len(g) : g[k] = a[n] \/ \E j \in 1..Len(f) : g[k] = f[j]
  <2>1. <<a[n]>> \in Seq(Thread) /\ Len(<<a[n]>>) = 1
    BY <1>1
  <2>2. Len(g) = 1 + Len(f) /\ \A k \in 1..Len(g) : g[k] = IF k <= 1 THEN <<a[n]>>[k] ELSE f[k - 1]
    BY <2>1, ConcatElements
  <2> HIDE DEF g
  <2> SUFFICES ASSUME NEW k \in 1..Len(g) PROVE g[k] = a[n] \/ \E j \in 1..Len(f) : g[k] = f[j]
    OBVIOUS
  <2>3. k = 1 \/ k - 1 \in 1..Len(f)
    BY <1>1, <2>2
  <2>4. k \in Nat
    OBVIOUS
  <2> QED
    BY <2>2, <2>3, <2>4
<1> HIDE DEF g
<1>3. \A k \in n + 1..Len(a) : k \in 1..Len(a) /\ n < k
  BY <1>1
<1>4. \A k \in n + 1..Len(a) : Yields(a[n], a[k])
  BY <1>1, <1>3 DEF LeadLists
<1>5. \A i \in 1..Len(x) : Yields(x[i], a[n])
  BY <1>1 DEF LeadLists
<1>6. \A i \in 1..Len(x), k \in 1..Len(g) : Yields(x[i], g[k])
  BY <1>2, <1>5 DEF LeadLists
<1>7. \A i \in 1..Len(g), k \in n + 1..Len(a) : Yields(g[i], a[k])
  BY <1>2, <1>4 DEF LeadLists
<1>8. LeadLists(a, n, x, g)
  BY <1>6, <1>7 DEF LeadLists
<1>9. CarryLists(a, n, x, g)
  BY <1>2 DEF CarryLists, AllCarry
<1> QED
  BY <1>8, <1>9 DEF g

\* The runner gives way to one that may stand in its place.
LEMMA RunnerLead ==
  ASSUME Inv, LeadInv, CarriesInv, t <= Len(active), Len(active') = Len(active),
         Succeeds(active'[t]), RestAlike, NEW f \in Seq(Thread),
         LeadLists(active, t, next, f), CarryLists(active, t, next, f)
  PROVE  LeadLists(active', t, next, f) /\ CarryLists(active', t, next, f)
<1> DEFINE a == active  b == active'  u == b[t]
<1>1. Len(a) \in Nat /\ t \in 1..Len(a)
  BY ListTypes
<1>2. Len(b) = Len(a) /\ Succeeds(u)
  OBVIOUS
<1>3. \A k \in t + 1..Len(a) : /\ Alike(b[k], a[k])
                               /\ Carries(a[k]) => Carries(b[k])
                               /\ a[k].pc # Null
                               /\ k \in 1..Len(a) /\ k \in t..Len(a)
  BY <1>1 DEF RestAlike, Inv, ActiveOK
<1>4. LeadLists(a, t, next, f) /\ CarryLists(a, t, next, f)
  OBVIOUS
<1> HIDE DEF b, u
<1>5. \A k \in t + 1..Len(a) : Yields(u, b[k])
  <2> SUFFICES ASSUME NEW k \in t + 1..Len(a) PROVE Yields(u, b[k])
    OBVIOUS
  <2>1. Yields(a[t], a[k])
    BY <1>1, <1>3, <1>4 DEF LeadLists
  <2>2. Yields(u, a[k]) /\ Alike(b[k], a[k]) /\ Alike(u, u)
    BY <1>2, <1>3, <2>1 DEF Succeeds, Alike
  <2> QED
    BY <2>2, AlikeYields
<1>6. \A i, j \in 1..Len(a) : i < j /\ i >= t => Yields(b[i], b[j])
  <2> SUFFICES ASSUME NEW i \in 1..Len(a), NEW j \in 1..Len(a), i < j, i >= t
               PROVE  Yields(b[i], b[j])
    OBVIOUS
  <2>1. j \in t + 1..Len(a)
    BY <1>1
  <2>2. CASE i = t
    BY <1>5, <2>1, <2>2 DEF u
  <2>3. CASE i # t
    <3>1. i \in t + 1..Len(a)
      BY <1>1, <2>3
    <3>2. Yields(a[i], a[j])
      BY <1>4 DEF LeadLists
    <3>3. Alike(b[i], a[i]) /\ Alike(b[j], a[j])
      BY <1>3, <2>1, <3>1
    <3> QED
      BY <3>2, <3>3, AlikeYields
  <2> QED
    BY <2>2, <2>3
<1>7. \A i \in 1..Len(next), k \in t..Len(a) : Yields(next[i], b[k])
  <2> SUFFICES ASSUME NEW i \in 1..Len(next), NEW k \in t..Len(a) PROVE Yields(next[i], b[k])
    OBVIOUS
  <2>1. CASE k = t
    BY <1>2, <2>1 DEF Succeeds, u
  <2>2. CASE k # t
    <3>1. k \in t + 1..Len(a)
      BY <1>1, <2>2
    <3>2. Yields(next[i], a[k]) /\ Alike(b[k], a[k]) /\ Alike(next[i], next[i])
      BY <1>3, <1>4, <3>1 DEF LeadLists, Alike
    <3> QED
      BY <3>2, AlikeYields
  <2> QED
    BY <2>1, <2>2
<1>8. \A i \in 1..Len(f), k \in t + 1..Len(a) : Yields(f[i], b[k])
  <2> SUFFICES ASSUME NEW i \in 1..Len(f), NEW k \in t + 1..Len(a) PROVE Yields(f[i], b[k])
    OBVIOUS
  <2>1. Yields(f[i], a[k]) /\ Alike(b[k], a[k]) /\ Alike(f[i], f[i])
    BY <1>3, <1>4 DEF LeadLists, Alike
  <2> QED
    BY <2>1, AlikeYields
<1>9. LeadLists(b, t, next, f)
  BY <1>2, <1>4, <1>6, <1>7, <1>8 DEF LeadLists
<1>10. \A k \in t..Len(a) : b[k].pc # Null => Carries(b[k])
  <2> SUFFICES ASSUME NEW k \in t..Len(a), b[k].pc # Null PROVE Carries(b[k])
    OBVIOUS
  <2>1. CASE k = t
    BY <1>2, <2>1 DEF Succeeds, u
  <2>2. CASE k # t
    <3>1. k \in t + 1..Len(a)
      BY <1>1, <2>2
    <3> QED
      BY <1>3, <1>4, <3>1 DEF CarryLists
  <2> QED
    BY <2>1, <2>2
<1>11. CarryLists(b, t, next, f)
  BY <1>2, <1>4, <1>10 DEF CarryLists
<1> QED
  BY <1>9, <1>11 DEF b

\* The survivor goes behind the others, the innermost saved copy takes the runner's place
\* as u, and is of its start.
LEMMA SurvivorLead ==
  ASSUME NEW a \in Seq(Thread), NEW n \in 1..Len(a), NEW x \in Seq(Thread), NEW f \in Seq(Thread),
         LeadLists(a, n, x, f), CarryLists(a, n, x, f),
         \A k \in 1..Len(f) : f[k].start = a[n].start,
         NEW y, \/ y = x
                \/ /\ a[n].pc # Null /\ Len(y) = Len(x) + 1 /\ y[Len(x) + 1] = a[n]
                   /\ \A k \in 1..Len(x) : y[k] = x[k]
  PROVE  LeadLists(a, n + 1, y, <<>>) /\ CarryLists(a, n + 1, y, <<>>)
         /\ \A i \in 1..Len(y), k \in 1..Len(f) : Yields(y[i], f[k])
<1>1. Len(a) \in Nat /\ Len(x) \in Nat /\ Len(f) \in Nat
  OBVIOUS
<1>2. LeadLists(a, n + 1, x, <<>>) /\ CarryLists(a, n + 1, x, <<>>)
  BY <1>1, NextRunner
<1>3. \A i \in 1..Len(x), k \in 1..Len(f) : Yields(x[i], f[k])
  BY DEF LeadLists
<1>4. CASE y = x
  BY <1>2, <1>3, <1>4
<1>5. CASE /\ a[n].pc # Null /\ Len(y) = Len(x) + 1 /\ y[Len(x) + 1] = a[n]
           /\ \A k \in 1..Len(x) : y[k] = x[k]
  <2>1. \A k \in 1..Len(y) : (k \in 1..Len(x) /\ y[k] = x[k]) \/ (k = Len(x) + 1 /\ y[k] = a[n])
    BY <1>1, <1>5
  <2>2. \A k \in n + 1..Len(a) : Yields(a[n], a[k])
    BY <1>1 DEF LeadLists
  <2>3. \A i \in 1..Len(x) : Yields(x[i], a[n])
    BY <1>1 DEF LeadLists
  <2>4. \A i, j \in 1..Len(y) : i < j => Yields(y[i], y[j])
    <3> SUFFICES ASSUME NEW i \in 1..Len(y), NEW j \in 1..Len(y), i < j PROVE Yields(y[i], y[j])
      OBVIOUS
    <3>1. i \in 1..Len(x) /\ y[i] = x[i]
      BY <1>1, <1>5, <2>1
    <3>2. CASE j \in 1..Len(x) /\ y[j] = x[j]
      BY <3>1, <3>2 DEF LeadLists
    <3>3. CASE y[j] = a[n]
      BY <2>3, <3>1, <3>3
    <3> QED
      BY <2>1, <3>2, <3>3
  <2>5. \A i \in 1..Len(y), k \in n + 1..Len(a) : Yields(y[i], a[k])
    BY <1>1, <1>2, <2>1, <2>2 DEF LeadLists
  <2>6. \A i \in 1..Len(y), k \in 1..Len(f) : Yields(y[i], f[k])
    BY <1>3, <2>1, SameStartYields
  <2>7. LeadLists(a, n + 1, y, <<>>)
    <3>1. Len(<<>>) = 0 /\ \A k : k \notin 1..0
      OBVIOUS
    <3> QED
      BY <1>2, <2>4, <2>5, <3>1 DEF LeadLists
  <2>8. CarryLists(a, n + 1, y, <<>>)
    <3>1. Carries(a[n])
      BY <1>1, <1>5, SMTT(60) DEF CarryLists
    <3>2. AllCarry(y)
      BY <2>1, <3>1 DEF CarryLists, AllCarry
    <3> QED
      BY <1>2, <3>2 DEF CarryLists
  <2> QED
    BY <2>6, <2>7, <2>8
<1> QED
  BY <1>4, <1>5

\* The saved copy that FORK_OP takes up again (vm.cpp:315-331) goes to the target of its jump.
LEMMA CopyMoves ==
  ASSUME Inv, CarriesInv, Settle, forks # <<>>
  PROVE  Alike(active'[t], forks[1]) /\ Carries(active'[t])
<1> DEFINE th == forks[1]
           y == code[th.pc].target
<1>1. /\ prog \in Programs /\ th \in Thread /\ Fit(th) /\ code[th.pc].op = "FORK"
      /\ Len(forks) \in Nat /\ 1 \in 1..Len(forks) /\ Head(forks) = th
  BY ListTypes DEF Inv, Control, ForksOK
<1>2. th.pc \in DOMAIN code
  BY <1>1 DEF Fit, RealThread, Thread
<1>3. active' = [active EXCEPT ![t] = [th EXCEPT !.pc = y]]
  <2>1. [th EXCEPT !.pc = code[@].target] = [th EXCEPT !.pc = y]
    BY <1>1 DEF Thread
  <2> QED
    BY <1>1, <2>1 DEF Settle, SetThread
<1>4. Carries(th)
  BY <1>1 DEF CarriesInv
<1>5. y \in Targets(prog, th.pc)
  BY <1>1, JumpTarget
<1> HIDE DEF y, th
<1> DEFINE v == [th EXCEPT !.pc = y]
<1>6. Carries(v)
  BY <1>1, <1>2, <1>4, <1>5, MoveCarries
<1>7. Alike(v, th)
  BY <1>1, MovedAlike
<1> HIDE DEF v
<1>8. active'[t] = v
  <2>1. active \in Seq(Thread) /\ t \in 1..Len(active)
    BY ListTypes, SettleShape
  <2>2. active' = [active EXCEPT ![t] = v]
    BY <1>3 DEF v
  <2> QED
    BY <2>1, <2>2, ReplaceAny
<1> QED
  BY <1>6, <1>7, <1>8 DEF th

\* The end of an epsilon sequence (vm.cpp:315-331, 385-401) keeps the invariant.
LEMMA SettleLead ==
  ASSUME Inv, OrderInv, LeadInv, CarriesInv, Settle
  PROVE  LeadInv' /\ CarriesInv'
<1>1. /\ stage = "settle" /\ t \in 1..Len(active) /\ t \in Nat /\ Len(active) \in Nat /\ prog' = prog
      /\ active \in Seq(Thread) /\ next \in Seq(Thread) /\ forks \in Seq(Thread)
      /\ Len(forks) \in Nat
  BY ListTypes, SettleShape
<1>2. /\ LeadLists(active, t, next, forks) /\ CarryLists(active, t, next, forks)
      /\ \A k \in 1..Len(forks) : forks[k].start = active[t].start
  BY <1>1, ListsBefore DEF OrderInv
<1>3. /\ LeadLists(active, t + 1, next', <<>>) /\ CarryLists(active, t + 1, next', <<>>)
      /\ \A i \in 1..Len(next'), k \in 1..Len(forks) : Yields(next'[i], forks[k])
  BY <1>1, <1>2, SettleShape, SurvivorLead, SMTT(60)
<1>4. CASE forks' = <<>> /\ stage' = "thread" /\ t' = t + 1 /\ active' = active
  <2>1. LeadLists(active', t', next', forks') /\ CarryLists(active', t', next', forks')
    BY <1>3, <1>4
  <2> QED
    BY <1>1, <1>4, <2>1, WithinFrame
<1>5. CASE /\ stage' = "epsilon" /\ t' = t
           /\ Len(active') = Len(active)
           /\ \A k \in 1..Len(active) : k # t => active'[k] = active[k]
           /\ Len(forks) >= 1 /\ Len(forks') = Len(forks) - 1
           /\ \A k \in 1..Len(forks') : forks'[k] = forks[k + 1]
  <2> DEFINE a == active  b == active'  u == b[t]  f == forks  g == forks'  y == next'
  <2>1. Alike(u, f[1]) /\ Carries(u) /\ 1 \in 1..Len(f)
    <3>1. forks # <<>>
      BY <1>1, <1>5
    <3> QED
      BY <1>1, <1>5, <3>1, CopyMoves
  <2>2. \A k \in t + 1..Len(a) : b[k] = a[k] /\ k \in 1..Len(a)
    <3>1. \A k \in t + 1..Len(a) : k \in 1..Len(a) /\ k # t
      BY <1>1
    <3> QED
      BY <1>5, <3>1
  <2>3. \A k \in 1..Len(g) : g[k] = f[k + 1] /\ k + 1 \in 1..Len(f)
    <3>1. Len(f) \in Nat /\ Len(g) = Len(f) - 1 /\ \A k \in 1..Len(g) : g[k] = f[k + 1]
      BY <1>1, <1>5
    <3> HIDE DEF f, g
    <3> QED
      BY <3>1
  <2>4. Len(b) = Len(a) /\ stage' = "epsilon" /\ t' = t
    BY <1>5
  <2> HIDE DEF b, u, g, y
  <2>5. \A k \in t + 1..Len(a) : Yields(f[1], a[k])
    BY <1>2, <2>1 DEF LeadLists
  <2>6. \A k \in t + 1..Len(a) : Yields(u, b[k])
    <3> SUFFICES ASSUME NEW k \in t + 1..Len(a) PROVE Yields(u, b[k])
      OBVIOUS
    <3>1. Yields(f[1], a[k]) /\ b[k] = a[k] /\ Alike(a[k], a[k])
      BY <2>2, <2>5 DEF Alike
    <3> QED
      BY <2>1, <3>1, AlikeYields
  <2>7. \A i, j \in 1..Len(a) : i < j /\ i >= t => Yields(b[i], b[j])
    <3> SUFFICES ASSUME NEW i \in 1..Len(a), NEW j \in 1..Len(a), i < j, i >= t
                 PROVE  Yields(b[i], b[j])
      OBVIOUS
    <3>1. j \in t + 1..Len(a)
      BY <1>1
    <3>2. CASE i = t
      BY <2>6, <3>1, <3>2 DEF u
    <3>3. CASE i # t
      <4>1. i \in t + 1..Len(a)
        BY <1>1, <3>3
      <4>2. b[i] = a[i] /\ b[j] = a[j]
        BY <2>2, <3>1, <4>1
      <4> QED
        BY <1>2, <4>2 DEF LeadLists
    <3> QED
      BY <3>2, <3>3
  <2>8. \A i \in 1..Len(y), k \in t..Len(a) : Yields(y[i], b[k])
    <3> SUFFICES ASSUME NEW i \in 1..Len(y), NEW k \in t..Len(a) PROVE Yields(y[i], b[k])
      OBVIOUS
    <3>1. CASE k = t
      <4>1. Yields(y[i], f[1]) /\ Alike(y[i], y[i])
        BY <1>3, <2>1 DEF y, Alike
      <4>2. Yields(y[i], u)
        BY <2>1, <4>1, AlikeYields
      <4> QED
        BY <3>1, <4>2 DEF u
    <3>2. CASE k # t
      <4>1. k \in t + 1..Len(a)
        BY <1>1, <3>2
      <4>2. Yields(y[i], a[k])
        BY <1>3, <4>1 DEF LeadLists, y
      <4> QED
        BY <2>2, <4>1, <4>2
    <3> QED
      BY <3>1, <3>2
  <2>9. /\ \A i, j \in 1..Len(y) : i < j => Yields(y[i], y[j])
        /\ \A i \in 1..Len(y), k \in 1..Len(g) : Yields(y[i], g[k])
        /\ \A i \in 1..Len(g), k \in t + 1..Len(a) : Yields(g[i], b[k])
    <3>1. \A i, j \in 1..Len(y) : i < j => Yields(y[i], y[j])
      BY <1>3 DEF LeadLists, y
    <3>2. \A i \in 1..Len(y), k \in 1..Len(g) : Yields(y[i], g[k])
      BY <1>3, <2>3 DEF y
    <3>3. \A i \in 1..Len(g), k \in t + 1..Len(a) : Yields(g[i], b[k])
      BY <1>2, <2>2, <2>3 DEF LeadLists
    <3> QED
      BY <3>1, <3>2, <3>3
  <2>10. LeadLists(b, t, y, g)
    BY <2>4, <2>7, <2>8, <2>9 DEF LeadLists
  <2>11. CarryLists(b, t, y, g)
    <3>1. \A k \in t..Len(b) : b[k].pc # Null => Carries(b[k])
      <4> SUFFICES ASSUME NEW k \in t..Len(b), b[k].pc # Null PROVE Carries(b[k])
        OBVIOUS
      <4>1. k = t \/ k \in t + 1..Len(a)
        BY <1>1, <2>4
      <4>2. CASE k \in t + 1..Len(a)
        BY <1>3, <2>2, <4>2 DEF CarryLists
      <4> QED
        BY <2>1, <4>1, <4>2 DEF u
    <3>2. AllCarry(y)
      BY <1>3 DEF CarryLists, y
    <3>3. AllCarry(g)
      BY <1>2, <2>3 DEF CarryLists, AllCarry
    <3> QED
      BY <3>1, <3>2, <3>3 DEF CarryLists
  <2>12. LeadLists(active', t', next', forks') /\ CarryLists(active', t', next', forks')
    BY <2>4, <2>10, <2>11 DEF b, y, g
  <2>13. Len(active') \in Nat /\ t' \in Nat
    BY <1>1, <2>4 DEF b
  <2> QED
    BY <1>1, <2>4, <2>12, <2>13, WithinFrame
<1> QED
  BY <1>4, <1>5, SettleShape

\* The steps of one thread, and the threads made anew, keep the invariant.
LEMMA StepLead ==
  ASSUME Inv, FlagsMatchNext, OrderInv, LeadInv, CarriesInv,
         ExecuteThread \/ SpawnThreads \/ EpsilonStep
  PROVE  LeadInv' /\ CarriesInv'
<1>1. /\ active \in Seq(Thread) /\ next \in Seq(Thread) /\ forks \in Seq(Thread)
      /\ Len(active) \in Nat /\ t \in 1..Len(active) + 1 /\ t \in Nat
  BY ListTypes
<1>2. stage # "closeOut" =>
        LeadLists(active, t, next, forks) /\ CarryLists(active, t, next, forks)
  BY ListsBefore
<1>3. CASE ExecuteThread
  <2>1. /\ stage = "thread" /\ t \in 1..Len(active) /\ forks = <<>>
        /\ UNCHANGED <<next, forks, prog>>
    BY <1>3, ExecuteShape
  <2>2. CASE stage' = "thread" /\ t' = t + 1 /\ active' = active
    <3>1. LeadLists(active', t', next', forks') /\ CarryLists(active', t', next', forks')
      BY <1>1, <1>2, <2>1, <2>2, NextRunner
    <3> QED
      BY <1>1, <2>1, <2>2, <3>1, WithinFrame
  <2>3. CASE stage' = "epsilon" /\ t' = t /\ Len(active') = Len(active)
    <3>1. Succeeds(active'[t]) /\ RestAlike
      <4>1. CASE active' # active
        BY <1>3, <4>1, ExecuteLead
      <4>2. CASE active' = active
        <5>1. Carries(active[t]) /\ Alike(active[t], active[t])
          BY <2>1 DEF CarriesInv, Pending, Alike, Inv, ActiveOK
        <5>2. Succeeds(active[t])
          BY <2>1, <5>1, AlikeSucceeds
        <5> QED
          BY <4>2, <5>2 DEF RestAlike, Alike
      <4> QED
        BY <4>1, <4>2
    <3>2. LeadLists(active', t, next, forks) /\ CarryLists(active', t, next, forks)
      <4> DEFINE f == forks
      <4>1. LeadLists(active, t, next, f) /\ CarryLists(active, t, next, f) /\ f \in Seq(Thread)
        BY <1>1, <1>2, <2>1
      <4>2. t <= Len(active) /\ Len(active') = Len(active)
        BY <1>1, <2>1, <2>3
      <4> HIDE DEF f
      <4>3. LeadLists(active', t, next, f) /\ CarryLists(active', t, next, f)
        BY <3>1, <4>1, <4>2, RunnerLead
      <4> QED
        BY <4>3 DEF f
    <3>3. LeadLists(active', t', next', forks') /\ CarryLists(active', t', next', forks')
      BY <2>1, <2>3, <3>2
    <3> QED
      BY <1>1, <2>1, <2>3, <3>3, WithinFrame
  <2> QED
    BY <1>3, <2>2, <2>3, ExecuteShape
<1>4. CASE SpawnThreads
  <2>1. /\ stage = "thread" /\ stage' = "thread" /\ t = Len(active) + 1 /\ t' = t /\ forks = <<>>
        /\ UNCHANGED <<next, forks, prog>> /\ Len(active') \in Nat
    BY <1>4, SpawnShape DEF Inv, ForksOK
  <2>2. CASE active' = active
    BY <1>1, <1>2, <2>1, <2>2, WithinFrame
  <2>3. CASE active' = active \o Fresh(cur)
    <3> DEFINE f == Fresh(cur)  b == active'
    <3>1. /\ AllCarry(f) /\ LeadSorted(f)
          /\ \A k \in 1..Len(f) : \A x : Yields(x, f[k])
      BY FreshLead
    <3>2. f \in Seq(Thread)
      BY <1>4, ListTypes, FreshFit DEF SpawnThreads, Running
    <3>3. \A k \in t..Len(b) : \E j \in 1..Len(f) : b[k] = f[j]
      <4>1. Len(f) \in Nat
        BY <3>2
      <4>2. b = active \o f
        BY <2>3
      <4> HIDE DEF b, f
      <4>3. /\ Len(b) = Len(active) + Len(f)
            /\ \A k \in 1..Len(b) : b[k] = IF k <= Len(active) THEN active[k] ELSE f[k - Len(active)]
        BY <1>1, <3>2, <4>2, ConcatElements
      <4> SUFFICES ASSUME NEW k \in t..Len(b) PROVE \E j \in 1..Len(f) : b[k] = f[j]
        OBVIOUS
      <4>4. k \in 1..Len(b) /\ ~(k <= Len(active)) /\ k - Len(active) \in 1..Len(f)
        BY <1>1, <2>1, <4>1, <4>3
      <4> QED
        BY <4>3, <4>4
    <3> HIDE DEF f
    <3>4. \A k \in t..Len(b) : Carries(b[k]) /\ \A x : Yields(x, b[k])
      BY <3>1, <3>3 DEF AllCarry
    <3>5. Len(b) \in Nat
      BY <2>1
    <3> HIDE DEF b
    <3>6. \A k \in 1..Len(b) : k >= t => k \in t..Len(b)
      BY <1>1, <3>5
    <3>7. \A i, j \in 1..Len(b) : i < j /\ i >= t => Yields(b[i], b[j])
      <4> SUFFICES ASSUME NEW i \in 1..Len(b), NEW j \in 1..Len(b), i < j, i >= t
                   PROVE  Yields(b[i], b[j])
        OBVIOUS
      <4>1. j \in t..Len(b)
        BY <1>1, <3>5
      <4> QED
        BY <3>4, <4>1
    <3>8. \A k \in t + 1..Len(b) : k \in t..Len(b)
      BY <1>1, <3>5
    <3>9. LeadLists(b, t, next, forks)
      BY <1>2, <2>1, <3>4, <3>7, <3>8 DEF LeadLists
    <3>10. CarryLists(b, t, next, forks)
      BY <1>2, <2>1, <3>4 DEF CarryLists
    <3>11. LeadLists(active', t', next', forks') /\ CarryLists(active', t', next', forks')
      BY <2>1, <3>9, <3>10 DEF b
    <3> QED
      BY <1>1, <2>1, <3>11, WithinFrame
  <2> QED
    BY <1>4, <2>2, <2>3 DEF SpawnThreads
<1>5. CASE EpsilonStep
  <2>1. /\ stage = "epsilon" /\ stage' \in {"epsilon", "settle"} /\ t' = t
        /\ UNCHANGED <<next, prog>> /\ Len(active') = Len(active)
        /\ forks' = forks \/ forks' = <<active[t]>> \o forks
    BY <1>5, EpsilonShape
  <2>2. t \in 1..Len(active) /\ active[t] \in Thread /\ Carries(active[t])
    BY <2>1, Running1, MoveSucceeds
  <2>3. Succeeds(active'[t]) /\ RestAlike
    BY <1>5, EpsilonLead
  <2>4. LeadLists(active, t, next, forks') /\ CarryLists(active, t, next, forks') /\ forks' \in Seq(Thread)
    <3>1. CASE forks' = forks
      BY <1>1, <1>2, <2>1, <3>1
    <3>2. CASE forks' = <<active[t]>> \o forks
      BY <1>1, <1>2, <2>1, <2>2, <3>2, ForkLead
    <3> QED
      BY <2>1, <3>1, <3>2
  <2> DEFINE f == forks'
  <2>5. LeadLists(active, t, next, f) /\ CarryLists(active, t, next, f) /\ f \in Seq(Thread)
    BY <2>4
  <2> HIDE DEF f
  <2>6. LeadLists(active', t, next, f) /\ CarryLists(active', t, next, f)
    BY <1>1, <2>1, <2>2, <2>3, <2>5, RunnerLead
  <2>7. LeadLists(active', t', next', forks') /\ CarryLists(active', t', next', forks')
    BY <2>1, <2>6 DEF f
  <2> QED
    BY <1>1, <2>1, <2>7, WithinFrame
<1> QED
  BY <1>3, <1>4, <1>5

\* The one thread of the constructor leads nowhere and has no label.
LEMMA InitLead == Init => LeadInv /\ CarriesInv
<1> SUFFICES ASSUME Init PROVE LeadInv /\ CarriesInv
  OBVIOUS
<1>1. /\ active = <<NewThread(0, 0)>> /\ next = <<>> /\ forks = <<>> /\ t = 1 /\ prog \in Programs
  BY DEF Init
<1>2. /\ Len(active) = 1 /\ active[1] = NewThread(0, 0) /\ Len(next) = 0 /\ Len(forks) = 0
      /\ \A k : k \notin 1..0
  BY <1>1
<1>3. Carries(NewThread(0, 0))
  <2>1. 0 \in Flow(prog).initial /\ 0 \in DOMAIN prog.code
    BY <1>1, ProgramFacts DEF FlowAllows, WellFormed
  <2> QED
    BY <1>1, <2>1, LabelsAssumption DEF LabelsFixed, Carries, NewThread
<1>4. (\A i, j \in 1..1 : ~(i < j)) /\ \A k \in 1..1 : k = 1
  OBVIOUS
<1>5. LeadInv
  BY <1>1, <1>2, <1>4 DEF LeadInv
<1>6. CarriesInv
  BY <1>1, <1>2, <1>3, <1>4 DEF CarriesInv
<1> QED
  BY <1>5, <1>6

\* Every step keeps both parts.
LEMMA LeadNext ==
  ASSUME Inv, FlagsMatchNext, OrderInv, LeadInv, CarriesInv, [Next]_vars
  PROVE  LeadInv' /\ CarriesInv'
<1>1. CASE UNCHANGED vars
  BY <1>1 DEF vars, input, threadVars, controlVars, LeadInv, CarriesInv, Pending, Yields, Blocks, Carries
<1>2. CASE Next
  BY <1>2, FrameLead, StepLead, SettleLead DEF Next, Step
<1> QED
  BY <1>1, <1>2

\* Between frames it says that a lead thread has nothing before it that might take the
\* place of its match, but what came from its own start.
LEMMA LeadMeans ==
  ASSUME Inv, OrderInv, LeadInv, CarriesInv
  PROVE  LeadIsFirst
<1> SUFFICES ASSUME stage = "frame", NEW k \in DOMAIN active, active[k].lead,
                    NEW j \in 1..k - 1, Blocks(active[j], active[k])
             PROVE  active[j].start = active[k].start
  BY DEF LeadIsFirst
<1>1. LeadSorted(active) /\ active \in Seq(Thread)
  BY FrameLeads, ListTypes
<1>2. j \in 1..Len(active) /\ k \in 1..Len(active) /\ j < k
  BY <1>1
<1> QED
  BY <1>1, <1>2 DEF LeadSorted, Yields

\* Whatever the program, the text, the division into buffers and the mix of calls, a
\* thread that MATCH_OP made the lead (vm.cpp:370-374), whose match ends every thread of
\* its label (vm.cpp:271-295), has nothing of higher priority before it with another
\* start that might take the place of its match: FINISH_OP kills no better match.
THEOREM LeadIsFirstAlways == Spec => []LeadIsFirst
<1>1. Init => OrderInv /\ LeadInv /\ CarriesInv
  BY InitOrder, InitLead
<1>2. Inv /\ FlagsMatchNext /\ OrderInv /\ LeadInv /\ CarriesInv /\ [Next]_vars
        => OrderInv' /\ LeadInv' /\ CarriesInv'
  BY OrderNext, LeadNext
<1>3. Inv /\ OrderInv /\ LeadInv /\ CarriesInv => LeadIsFirst
  BY LeadMeans
<1> QED
  BY <1>1, <1>2, <1>3, Invariance, FlagsMatchNextAlways, PTL DEF Spec
=============================================================================
