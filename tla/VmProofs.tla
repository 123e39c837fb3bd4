-------------------------------- MODULE VmProofs --------------------------------
(***************************************************************************)
(* Proofs about the search context: for every well-formed program, every   *)
(* text and every cutting into buffers, the state is well typed, a thread  *)
(* at FINISH has a label and an end, and the hits of a label are in order  *)
(* and do not overlap.                                                     *)
(*                                                                         *)
(* The virtual machine trusts its program: FINISH_OP reads Label and End   *)
(* without a check.  Flow(p) says why it may, as sets of addresses: those  *)
(* that the constructor reaches, those that a thread reaches only after    *)
(* LABEL, those that it reaches only after MATCH.                          *)
(***************************************************************************)
EXTENDS Vm, WellFoundedInduction, SequenceTheorems, TLAPS

CONSTANT Flow(_)   \* program -> [initial, labelled, matched], sets of addresses

FlowAllows(p) ==
  LET f == Flow(p) IN
  /\ 0 \in f.initial
  /\ p.guard \notin f.labelled \cup f.matched
  /\ \A x \in DOMAIN p.code :
       /\ x \in f.initial => /\ p.code[x].op \in ByteOps \cup {"FORK", "JUMP"}
                             /\ x \notin f.labelled \cup f.matched
       /\ x \in f.initial /\ p.code[x].op \in {"FORK", "JUMP"} => Targets(p, x) \subseteq f.initial
       /\ p.code[x].op = "FINISH" => x \in f.labelled /\ x \in f.matched
       /\ \A y \in Targets(p, x) :
            /\ y \in f.labelled => x \in f.labelled \/ p.code[x].op = "LABEL"
            /\ y \in f.matched => x \in f.matched \/ p.code[x].op = "MATCH"

ASSUME FlowAssumption == \A p \in Programs : FlowAllows(p)

-----------------------------------------------------------------------------
(* The inductive invariant, in the parts that an action changes on its own. *)

Control ==
  /\ prog \in Programs /\ text \in Texts
  /\ call = "idle" => stage = "frame"
  /\ call = "closeOut" => stage = "closeOut"
  /\ stage = "closeOut" => call \in {"closeOut", "startsWith"}
  /\ call = "construct" => stage \in {"thread", "epsilon", "settle"} /\ cur = 0
  /\ stage = "frame" => t = 1
  /\ stage \in {"thread", "epsilon", "settle"} /\ call # "construct" => cur < bufEnd

\* What the machine may rely on when it runs a thread; in the constructor none
\* gets beyond the initial addresses.
Fit(u) ==
  /\ u \in RealThread
  /\ u.start <= cur
  /\ u.end # None => u.start <= u.end
  /\ u.pc \in Flow(prog).labelled => u.label # NoLabel
  /\ u.pc \in Flow(prog).matched => u.end # None
  /\ call = "construct" => u.pc \in Flow(prog).initial

FirstOK ==
  /\ first \in Seq(RealThread)
  /\ \A k \in DOMAIN first : first[k].pc \in Flow(prog).initial

NextOK ==
  /\ next \in Seq(RealThread)
  /\ \A k \in DOMAIN next : Fit(next[k])

ForksOK ==
  /\ forks \in Seq(RealThread)
  /\ \A k \in DOMAIN forks : Fit(forks[k]) /\ code[forks[k].pc].op = "FORK"
  /\ stage \in {"frame", "thread", "closeOut"} => forks = <<>>

ActiveOK ==
  /\ active \in Seq(Thread)
  /\ t \in 1..Len(active) + 1
  /\ stage \in {"epsilon", "settle"} => t <= Len(active)
  /\ \A k \in 1..Len(active) : k >= t \/ stage = "closeOut" =>
       /\ active[k].pc = Null => stage = "settle" /\ k = t
       /\ active[k].pc # Null => Fit(active[k])

Inv == FlagTypes /\ StateTypes /\ Control /\ FirstOK /\ NextOK /\ ForksOK /\ ActiveOK

\* The inductive invariant contains the type invariant.
LEMMA InvTypeOK == Inv => TypeOK
BY DEF Inv, TypeOK, ThreadTypes, FirstOK, NextOK, ForksOK, ActiveOK
-----------------------------------------------------------------------------
\* What the compiler guarantees (compiler.cpp, encodeState) holds of the program of
\* this context, which never changes.
LEMMA ProgramFacts ==
  ASSUME prog \in Programs
  PROVE  WellFormed(prog) /\ FlowAllows(prog)
BY ProgramsAssumption, FlowAssumption

\* Replacing one thread of a list keeps its length and the other threads.
LEMMA ReplaceElement ==
  ASSUME NEW S, NEW s \in Seq(S), NEW i \in 1..Len(s), NEW e \in S
  PROVE  /\ [s EXCEPT ![i] = e] \in Seq(S)
         /\ Len([s EXCEPT ![i] = e]) = Len(s)
         /\ [s EXCEPT ![i] = e][i] = e
         /\ \A k \in 1..Len(s) : k # i => [s EXCEPT ![i] = e][k] = s[k]
OBVIOUS

\* Appending a thread to Next (vm.cpp:322, 392, 397) keeps the threads before it.
LEMMA AppendElement ==
  ASSUME NEW S, NEW s \in Seq(S), NEW e \in S
  PROVE  /\ Append(s, e) \in Seq(S) /\ Len(Append(s, e)) = Len(s) + 1
         /\ \A k \in 1..Len(s) : Append(s, e)[k] = s[k]
         /\ Append(s, e)[Len(s) + 1] = e
BY AppendProperties

\* Control goes on from u to address y: FORK, JUMP, CHECK_HALT and the byte
\* instructions leave what the thread knows, so it still fits where it arrives.
LEMMA MoveFit ==
  ASSUME NEW u, prog \in Programs, Fit(u), NEW y \in Targets(prog, u.pc),
         code[u.pc].op \notin {"LABEL", "MATCH"}, call = "construct" => code[u.pc].op \in {"FORK", "JUMP"}
  PROVE  Fit([u EXCEPT !.pc = y])
<1>1. u.pc \in DOMAIN code /\ u \in Thread
  BY DEF Fit, RealThread, Thread
<1>3. y \in DOMAIN code
  BY <1>1, ProgramFacts DEF WellFormed, code
<1>4. y # Null
  BY <1>3, ProgramFacts DEF WellFormed, code, Null
<1>5. /\ y \in Flow(prog).labelled => u.pc \in Flow(prog).labelled
      /\ y \in Flow(prog).matched => u.pc \in Flow(prog).matched
      /\ call = "construct" => y \in Flow(prog).initial
  BY <1>1, ProgramFacts DEF FlowAllows, code, Fit
<1> QED
  BY <1>1, <1>3, <1>4, <1>5 DEF Fit, RealThread, Thread

\* thread.h:62-68: Advance goes to the instruction that follows.
LEMMA FallThrough ==
  ASSUME NEW u, code[u.pc].op \in FallsThrough
  PROVE  /\ u.pc + Size(code[u.pc]) \in Targets(prog, u.pc)
         /\ Advance(u) = [u EXCEPT !.pc = u.pc + Size(code[u.pc])]
BY DEF Targets, code, Advance

\* thread.h:53-60: the operand of FORK and JUMP is one of the targets.
LEMMA JumpTarget ==
  ASSUME NEW u, code[u.pc].op \in {"FORK", "JUMP"}
  PROVE  code[u.pc].target \in Targets(prog, u.pc)
BY DEF Targets, code

\* A thread that fits goes on to fit while the offset grows and the constructor is over.
LEMMA FitKept ==
  ASSUME prog' = prog, cur \in Nat, cur' \in Nat, cur <= cur', call' = call \/ call' # "construct"
  PROVE  \A u : Fit(u) => Fit(u)'
BY DEF Fit, RealThread, Thread, code, Labels

\* The code, the labels and the type of threads depend on the program only.
LEMMA SameProgram ==
  ASSUME prog' = prog
  PROVE  /\ code' = code /\ Labels' = Labels
         /\ Thread' = Thread /\ RealThread' = RealThread
BY DEF code, Labels, Thread, RealThread
-----------------------------------------------------------------------------
\* The constructor starts in the invariant (vm.cpp:121-162).
LEMMA InitInv == Init => Inv
<1> SUFFICES ASSUME Init PROVE Inv
  OBVIOUS
<1> USE DEF Init
<1>2. WellFormed(prog) /\ FlowAllows(prog)
  BY ProgramFacts
<1>3. 0 \in DOMAIN code /\ 0 \in Flow(prog).initial
  BY <1>2 DEF WellFormed, FlowAllows, code
<1> DEFINE th == NewThread(0, 0)
<1>4. /\ th \in RealThread /\ th \in Thread
      /\ th.pc = 0 /\ th.start = 0 /\ th.end = None
  BY <1>3 DEF NewThread, RealThread, Thread, None, Null, NoLabel
<1>5. Fit(th)
  BY <1>2, <1>3, <1>4 DEF Fit, FlowAllows, code
<1>6. Len(text) \in Nat
  BY InputAssumption
<1>7. StateTypes
  <2>1. matchEnds \in [Labels -> Nat]
    OBVIOUS
  <2>2. hits \in Seq([start: Nat, end: Nat, label: Labels])
    OBVIOUS
  <2> QED
    BY <1>6, <2>1, <2>2 DEF StateTypes, None
<1>11. FlagTypes
  BY DEF FlagTypes
<1>8. Control
  BY DEF Control
<1>9. FirstOK /\ NextOK /\ ForksOK
  BY DEF FirstOK, NextOK, ForksOK
<1>10. ActiveOK
  <2>1. active = <<th>> /\ Len(active) = 1 /\ active[1] = th /\ active \in Seq(Thread)
    BY <1>4
  <2> HIDE DEF th
  <2> QED
    BY <2>1, <1>4, <1>5 DEF ActiveOK, Null
<1> QED
  BY <1>7, <1>8, <1>9, <1>10, <1>11 DEF Inv

-----------------------------------------------------------------------------
(* The thread that runs an epsilon sequence.                               *)

\* The thread that runs an epsilon sequence is alive and fits.
LEMMA Running1 ==
  ASSUME Inv, stage = "epsilon"
  PROVE  /\ t \in 1..Len(active) /\ active[t] \in Thread
         /\ Fit(active[t]) /\ active[t].pc \in DOMAIN code
         /\ prog \in Programs /\ cur \in Nat
BY DEF Inv, ActiveOK, Control, StateTypes, Fit, RealThread, Thread

\* The running thread becomes u and its sequence goes on, or settles.
LEMMA SetThreadOK ==
  ASSUME ActiveOK, t <= Len(active), \A v : Fit(v) => Fit(v)', Thread' = Thread,
         NEW u \in Thread, u.pc # Null => Fit(u), u.pc = Null => stage' = "settle",
         stage' \in {"epsilon", "settle"}, t' = t, active' = [active EXCEPT ![t] = u]
  PROVE  ActiveOK'
<1>1. t \in 1..Len(active) /\ active \in Seq(Thread)
  BY DEF ActiveOK
<1>2. /\ active' \in Seq(Thread) /\ Len(active') = Len(active)
      /\ active'[t] = u /\ \A k \in 1..Len(active) : k # t => active'[k] = active[k]
  BY <1>1, ReplaceElement
<1>3. \A k \in t..Len(active) : k # t => active[k].pc # Null /\ Fit(active[k])
  BY <1>1 DEF ActiveOK
<1>4. ASSUME NEW k \in 1..Len(active), k >= t
      PROVE  /\ active'[k].pc = Null => stage' = "settle" /\ k = t
             /\ active'[k].pc # Null => Fit(active[k])'
  <2>1. CASE k = t
    BY <1>2, <2>1
  <2>2. CASE k # t
    BY <1>1, <1>2, <1>3, <1>4, <2>2
  <2> QED
    BY <2>1, <2>2
<1> QED
  BY <1>1, <1>2, <1>4 DEF ActiveOK

\* A thread whose PC is cleared is still a thread.
LEMMA DeadThread ==
  ASSUME NEW u \in Thread
  PROVE  Dead(u) \in Thread /\ Dead(u).pc = Null
BY DEF Dead, Thread

\* LABEL_OP (vm.cpp:356-368) gives the thread a label of the program: it fits what follows.
LEMMA LabelFit ==
  ASSUME NEW u, prog \in Programs, Fit(u), code[u.pc].op = "LABEL"
  PROVE  Fit(Advance([u EXCEPT !.label = code[u.pc].offset]))
<1> DEFINE y == u.pc + Size(code[u.pc])  l == code[u.pc].offset
<1>1. u.pc \in DOMAIN code /\ u \in Thread
  BY DEF Fit, RealThread, Thread
<1>2. y \in Targets(prog, u.pc)
  BY FallThrough DEF FallsThrough
<1>3. y \in DOMAIN code /\ y # Null /\ l \in Labels /\ l # NoLabel
  BY <1>1, <1>2, ProgramFacts DEF WellFormed, code, Null, Labels, NoLabel
<1>4. y \in Flow(prog).matched => u.pc \in Flow(prog).matched
  BY <1>1, <1>2, ProgramFacts DEF FlowAllows, code
<1>5. call # "construct"
  BY <1>1, ProgramFacts DEF FlowAllows, code, Fit, ByteOps
<1>6. Advance([u EXCEPT !.label = l]) = [u EXCEPT !.label = l, !.pc = y]
  BY <1>1 DEF Advance, Thread
<1> QED
  BY <1>1, <1>3, <1>4, <1>5, <1>6, ZenonT(60) DEF Fit, RealThread, Thread

\* MATCH_OP (vm.cpp:370-374) gives the thread an end not before its start: it fits
\* what follows.
LEMMA MatchFit ==
  ASSUME NEW u, NEW lead \in BOOLEAN, prog \in Programs, cur \in Nat, Fit(u), code[u.pc].op = "MATCH"
  PROVE  Fit(Advance([u EXCEPT !.end = cur, !.lead = lead]))
<1> DEFINE y == u.pc + Size(code[u.pc])
<1>1. u.pc \in DOMAIN code /\ u \in Thread
  BY DEF Fit, RealThread, Thread
<1>2. y \in Targets(prog, u.pc)
  BY FallThrough DEF FallsThrough
<1>3. y \in DOMAIN code /\ y # Null
  BY <1>1, <1>2, ProgramFacts DEF WellFormed, code, Null
<1>4. y \in Flow(prog).labelled => u.pc \in Flow(prog).labelled
  BY <1>1, <1>2, ProgramFacts DEF FlowAllows, code
<1>5. call # "construct"
  BY <1>1, ProgramFacts DEF FlowAllows, code, Fit, ByteOps
<1>6. Advance([u EXCEPT !.end = cur, !.lead = lead]) = [u EXCEPT !.end = cur, !.lead = lead, !.pc = y]
  BY <1>1 DEF Advance, Thread
<1> DEFINE v == [u EXCEPT !.end = cur, !.lead = lead, !.pc = y]
<1>7. v \in Thread /\ v.pc = y /\ v.end = cur /\ v.start = u.start /\ v.label = u.label
  BY <1>1, <1>3 DEF Thread
<1>9. cur # None
  BY DEF None
<1> HIDE DEF v, y
<1>8. Fit(v)
  BY <1>3, <1>4, <1>5, <1>7, <1>9 DEF Fit, RealThread
<1> QED
  BY <1>6, <1>8 DEF v

\* A thread at FINISH (vm.cpp:265-313) knows its label and its end.
LEMMA AtFinish ==
  ASSUME prog \in Programs, NEW u, Fit(u), code[u.pc].op = "FINISH"
  PROVE  /\ u.label \in Labels /\ u.end \in Nat
         /\ u.start \in Nat /\ u.start <= u.end /\ call # "construct"
<1>1. u.pc \in DOMAIN code /\ u \in Thread
  BY DEF Fit, RealThread, Thread
<1>2. u.pc \in Flow(prog).labelled /\ u.pc \in Flow(prog).matched
  BY <1>1, ProgramFacts DEF FlowAllows, code
<1>3. u.pc \notin Flow(prog).initial
  BY <1>1, ProgramFacts DEF FlowAllows, code, ByteOps
<1> QED
  BY <1>1, <1>2, <1>3 DEF Fit, Thread

\* The threads that FINISH_OP sends to the guard (vm.cpp:271-295) fit it.
LEMMA KillsFit ==
  ASSUME Inv, stage = "epsilon", code[active[t].pc].op = "FINISH"
  PROVE  /\ AfterKills \in Seq(Thread) /\ Len(AfterKills) = Len(active)
         /\ AfterKills[t] = active[t]
         /\ \A k \in t..Len(active) : AfterKills[k].pc # Null /\ Fit(AfterKills[k])
<1>1. /\ prog \in Programs /\ t \in 1..Len(active) /\ active \in Seq(Thread)
      /\ \A k \in t..Len(active) : active[k].pc # Null /\ Fit(active[k])
  BY DEF Inv, Control, ActiveOK
<1>2. call # "construct"
  BY <1>1, AtFinish
<1>3. /\ prog.guard \in DOMAIN code /\ prog.guard # Null
      /\ prog.guard \notin Flow(prog).labelled /\ prog.guard \notin Flow(prog).matched
  BY <1>1, ProgramFacts, SMTT(60) DEF WellFormed, FlowAllows, code, Null
<1>4. \A u \in Thread : [u EXCEPT !.pc = prog.guard] \in Thread
  BY <1>3 DEF Thread
<1>5. \A u : Fit(u) => Fit([u EXCEPT !.pc = prog.guard]) /\ [u EXCEPT !.pc = prog.guard].pc # Null
  BY <1>2, <1>3 DEF Fit, RealThread, Thread
<1>6. AfterKills \in Seq(Thread) /\ Len(AfterKills) = Len(active)
  BY <1>1, <1>4 DEF AfterKills
<1>7. \A k \in 1..Len(active) :
        AfterKills[k] = IF Killed(k) THEN [active[k] EXCEPT !.pc = prog.guard] ELSE active[k]
  BY <1>1 DEF AfterKills
<1>8. ~Killed(t)
  BY <1>1 DEF Killed
<1>9. ASSUME NEW k \in t..Len(active) PROVE AfterKills[k].pc # Null /\ Fit(AfterKills[k])
  <2>1. k \in 1..Len(active) /\ active[k].pc # Null /\ Fit(active[k])
    BY <1>1
  <2>2. CASE Killed(k)
    BY <1>5, <1>7, <2>1, <2>2
  <2>3. CASE ~Killed(k)
    BY <1>7, <2>1, <2>3
  <2> QED
    BY <2>2, <2>3
<1> QED
  BY <1>1, <1>6, <1>7, <1>8, <1>9

\* A reported hit is well typed, and MatchEnds stays a map of offsets (vm.cpp:297-311).
LEMMA AcceptTypes ==
  ASSUME matchEnds \in [Labels -> Nat], hits \in Seq([start: Nat, end: Nat, label: Labels]),
         NEW u, u.label \in Labels, u.start \in Nat, u.end \in Nat, Accept(u)
  PROVE  /\ matchEnds' \in [Labels -> Nat]
         /\ hits' \in Seq([start: Nat, end: Nat, label: Labels])
<1> DEFINE H == [start: Nat, end: Nat, label: Labels]
<1>1. Hit(u) \in H
  BY DEF Hit
<1>2. hits' = Append(hits, Hit(u)) \/ hits' = hits
  BY DEF Accept
<1>3. matchEnds' \in [Labels -> Nat]
  BY DEF Accept
<1> HIDE DEF H
<1>4. hits \in Seq(H)
  BY DEF H
<1>5. hits' \in Seq(H)
  BY <1>1, <1>2, <1>4, AppendElement, ZenonT(60)
<1> QED
  BY <1>3, <1>5 DEF H

-----------------------------------------------------------------------------
(* Threads made anew, and the value that a search returns.                 *)

\* _executeNewThreads (vm.cpp:437-458): the threads of First fit at a new start.
LEMMA FreshFit ==
  ASSUME Inv, call # "construct", NEW s \in Nat, s <= cur
  PROVE  /\ Fresh(s) \in Seq(Thread) /\ Len(Fresh(s)) = Len(first)
         /\ \A k \in 1..Len(first) : Fresh(s)[k].pc # Null /\ Fit(Fresh(s)[k])
<1>1. /\ prog \in Programs /\ first \in Seq(RealThread)
      /\ \A k \in 1..Len(first) : first[k].pc \in Flow(prog).initial
  BY DEF Inv, Control, FirstOK
<1>2. \A k \in 1..Len(first) :
        /\ NewThread(first[k].pc, s) \in RealThread
        /\ NewThread(first[k].pc, s).pc = first[k].pc
        /\ NewThread(first[k].pc, s).start = s
        /\ NewThread(first[k].pc, s).end = None
        /\ first[k].pc \in DOMAIN code
  BY <1>1 DEF NewThread, RealThread, Thread, None, NoLabel, Null
<1>3. \A k \in 1..Len(first) : /\ first[k].pc \notin Flow(prog).labelled
                               /\ first[k].pc \notin Flow(prog).matched
  BY <1>1, <1>2, ProgramFacts DEF FlowAllows, code
<1>4. \A k \in 1..Len(first) : Fit(NewThread(first[k].pc, s))
  BY <1>2, <1>3 DEF Fit
<1>5. /\ Fresh(s) \in Seq(Thread) /\ Len(Fresh(s)) = Len(first)
      /\ \A k \in 1..Len(first) : Fresh(s)[k] = NewThread(first[k].pc, s)
  BY <1>1, <1>2 DEF Fresh, RealThread
<1> QED
  BY <1>2, <1>4, <1>5 DEF RealThread

\* _startOfLeftmostLiveThread (vm.cpp:563-575) returns an offset.
LEMMA LeftmostStart ==
  ASSUME Inv
  PROVE  StartOfLeftmostLiveThread \in Nat
<1>1. CASE LiveIndices = {}
  BY <1>1 DEF StartOfLeftmostLiveThread, Inv, StateTypes
<1>2. CASE LiveIndices # {}
  <2>1. LiveIndices \subseteq Nat /\ active \in Seq(Thread)
    BY DEF LiveIndices, Inv, ActiveOK
  <2>3. \E m \in LiveIndices : \A k \in LiveIndices : m <= k
    <3> DEFINE R == OpToRel(<, Nat)
    <3>1. IsWellFoundedOn(R, Nat)
      BY NatLessThanWellFounded
    <3>2. \A i, j \in Nat : <<i, j>> \notin R => j <= i
      BY DEF OpToRel
    <3> HIDE DEF R
    <3>3. \E m \in LiveIndices : \A k \in LiveIndices : <<k, m>> \notin R
      BY <1>2, <2>1, <3>1, WFMin
    <3> QED
      BY <2>1, <3>2, <3>3
  <2> DEFINE m == CHOOSE k \in LiveIndices : \A j \in LiveIndices : k <= j
  <2>4. m \in 1..Len(active)
    BY <2>3 DEF LiveIndices
  <2> HIDE DEF m
  <2>5. active[m] \in Thread
    BY <2>1, <2>4
  <2>6. active[m].start \in Nat
    BY <2>5 DEF Thread
  <2> QED
    BY <1>2, <2>6 DEF StartOfLeftmostLiveThread, m
<1> QED
  BY <1>1, <1>2

-----------------------------------------------------------------------------
(* Each action preserves the invariant: the constructor and the calls.     *)

\* The end of the constructor, which keeps the survivors as First, preserves the invariant.
LEMMA ConstructedInv ==
  ASSUME Inv, Constructed
  PROVE  Inv'
<1> USE DEF Constructed, ResetState, input, threadVars, flagVars, matchVars, controlVars, bufferVars, clientVars
<1>1. /\ prog' = prog /\ text' = text /\ code' = code /\ Labels' = Labels
      /\ Thread' = Thread /\ RealThread' = RealThread
  BY SameProgram
<1>2. \A u : Fit(u) => Fit(u)'
  BY <1>1, FitKept DEF Inv, StateTypes, Control
<1>3. FlagTypes'
  BY DEF Inv, FlagTypes
<1>4. StateTypes'
  BY <1>1 DEF Inv, StateTypes, Control
<1>5. Control'
  BY <1>1 DEF Inv, Control, StateTypes
<1>6. FirstOK'
  BY <1>1 DEF Inv, FirstOK, NextOK, Fit
<1>7. NextOK'
  BY <1>1, <1>2 DEF Inv, NextOK
<1>8. ForksOK'
  BY <1>1, <1>2 DEF Inv, ForksOK, Control
<1>9. ActiveOK'
  BY <1>1, <1>2 DEF Inv, ActiveOK, Control
<1> QED
  BY <1>3, <1>4, <1>5, <1>6, <1>7, <1>8, <1>9 DEF Inv

\* A call of search preserves the invariant (vm.cpp:577-581).
LEMMA SearchInv ==
  ASSUME Inv, NEW n \in Nat, NEW fn \in HitFns, Search(n, fn)
  PROVE  Inv'
<1> USE DEF Search, Begin, input, threadVars, flagVars, matchVars, controlVars, bufferVars, clientVars
<1>1. /\ prog' = prog /\ text' = text /\ code' = code /\ Labels' = Labels
      /\ Thread' = Thread /\ RealThread' = RealThread
  BY SameProgram
<1>2. \A u : Fit(u) => Fit(u)'
  BY <1>1, FitKept DEF Inv, StateTypes, Control
<1>3. FlagTypes'
  <2>1. fn \in BOOLEAN
    BY InputAssumption
  <2> QED
    BY <2>1 DEF Inv, FlagTypes
<1>4. StateTypes'
  BY <1>1 DEF Inv, StateTypes, Control
<1>5. Control'
  BY <1>1 DEF Inv, Control, StateTypes
<1>6. FirstOK'
  BY <1>1 DEF Inv, FirstOK
<1>7. NextOK'
  BY <1>1, <1>2 DEF Inv, NextOK
<1>8. ForksOK'
  BY <1>1, <1>2 DEF Inv, ForksOK, Control
<1>9. ActiveOK'
  BY <1>1, <1>2 DEF Inv, ActiveOK, Control
<1> QED
  BY <1>3, <1>4, <1>5, <1>6, <1>7, <1>8, <1>9 DEF Inv

\* A call of searchResolve preserves the invariant (vm.cpp:622-626).
LEMMA SearchResolveInv ==
  ASSUME Inv, NEW n \in Nat, NEW fn \in HitFns, SearchResolve(n, fn)
  PROVE  Inv'
<1> USE DEF SearchResolve, Begin, input, threadVars, flagVars, matchVars, controlVars, bufferVars, clientVars
<1>1. /\ prog' = prog /\ text' = text /\ code' = code /\ Labels' = Labels
      /\ Thread' = Thread /\ RealThread' = RealThread
  BY SameProgram
<1>2. \A u : Fit(u) => Fit(u)'
  BY <1>1, FitKept DEF Inv, StateTypes, Control
<1>3. FlagTypes'
  <2>1. fn \in BOOLEAN
    BY InputAssumption
  <2> QED
    BY <2>1 DEF Inv, FlagTypes
<1>4. StateTypes'
  BY <1>1 DEF Inv, StateTypes, Control
<1>5. Control'
  BY <1>1 DEF Inv, Control, StateTypes
<1>6. FirstOK'
  BY <1>1 DEF Inv, FirstOK
<1>7. NextOK'
  BY <1>1, <1>2 DEF Inv, NextOK
<1>8. ForksOK'
  BY <1>1, <1>2 DEF Inv, ForksOK, Control
<1>9. ActiveOK'
  BY <1>1, <1>2 DEF Inv, ActiveOK, Control
<1> QED
  BY <1>3, <1>4, <1>5, <1>6, <1>7, <1>8, <1>9 DEF Inv

\* A call of startsWith, with the filter passed or not, preserves the invariant
\* (vm.cpp:530-548).
LEMMA StartsWithInv ==
  ASSUME Inv, NEW n \in Nat, NEW fn \in HitFns, StartsWith(n, fn)
  PROVE  Inv'
<1> USE DEF StartsWith, Begin, input, threadVars, flagVars, matchVars, controlVars, bufferVars, clientVars
<1>1. /\ prog' = prog /\ text' = text /\ code' = code /\ Labels' = Labels
      /\ Thread' = Thread /\ RealThread' = RealThread
  BY SameProgram
<1>2. \A u : Fit(u) => Fit(u)'
  BY <1>1, FitKept DEF Inv, StateTypes, Control
<1>3. FlagTypes'
  <2>1. fn \in BOOLEAN
    BY InputAssumption
  <2> QED
    BY <2>1 DEF Inv, FlagTypes
<1>4. StateTypes'
  <2>1. /\ call' \in {"startsWith", "idle"} /\ stage' = stage
        /\ bufEnd' = cur + n /\ cur + n <= Len(text)
        /\ UNCHANGED <<checkLabels, live, matchEnds, matchEndsMax, cur, hits, returned, resolveFrom>>
    OBVIOUS
  <2> HIDE DEF StartsWith, Begin
  <2> QED
    BY <1>1, <2>1 DEF Inv, StateTypes
<1>5. Control'
  BY <1>1 DEF Inv, Control, StateTypes
<1>6. FirstOK'
  BY <1>1 DEF Inv, FirstOK
<1>7. NextOK'
  BY <1>1, <1>2 DEF Inv, NextOK
<1>8. ForksOK'
  BY <1>1, <1>2 DEF Inv, ForksOK, Control
<1>9. ActiveOK'
  <2>1. /\ call = "idle" /\ stage = "frame" /\ stage' = "frame" /\ t = 1 /\ t' = 1 /\ cur \in Nat
    BY DEF Inv, Control, StateTypes
  <2>2. CASE UNCHANGED active
    BY <1>1, <1>2, <2>1, <2>2 DEF Inv, ActiveOK
  <2>3. CASE active' = Fresh(cur)
    <3>1. /\ active' \in Seq(Thread)
          /\ \A k \in 1..Len(active') : active'[k].pc # Null /\ Fit(active'[k])
      BY <2>1, <2>3, FreshFit
    <3> QED
      BY <1>1, <1>2, <2>1, <3>1 DEF ActiveOK
  <2>4. UNCHANGED active \/ active' = Fresh(cur)
    OBVIOUS
  <2> QED
    BY <2>2, <2>3, <2>4
<1> QED
  BY <1>3, <1>4, <1>5, <1>6, <1>7, <1>8, <1>9 DEF Inv

\* A call of closeOut, with a callback or without, preserves the invariant
\* (vm.cpp:654-658).
LEMMA CloseOutInv ==
  ASSUME Inv, NEW fn \in HitFns, CloseOut(fn)
  PROVE  Inv'
<1> USE DEF CloseOut, Begin, input, threadVars, flagVars, matchVars, controlVars, bufferVars, clientVars
<1>1. /\ prog' = prog /\ text' = text /\ code' = code /\ Labels' = Labels
      /\ Thread' = Thread /\ RealThread' = RealThread
  BY SameProgram
<1>2. \A u : Fit(u) => Fit(u)'
  BY <1>1, FitKept DEF Inv, StateTypes, Control
<1>3. FlagTypes'
  <2>1. fn \in BOOLEAN
    BY InputAssumption
  <2> QED
    BY <2>1 DEF Inv, FlagTypes
<1>4. StateTypes'
  BY <1>1 DEF Inv, StateTypes, Control
<1>5. Control'
  BY <1>1 DEF Inv, Control, StateTypes
<1>6. FirstOK'
  BY <1>1 DEF Inv, FirstOK
<1>7. NextOK'
  BY <1>1, <1>2 DEF Inv, NextOK
<1>8. ForksOK'
  BY <1>1, <1>2 DEF Inv, ForksOK, Control
<1>9. ActiveOK'
  BY <1>1, <1>2 DEF Inv, ActiveOK, Control
<1> QED
  BY <1>3, <1>4, <1>5, <1>6, <1>7, <1>8, <1>9 DEF Inv

\* reset (vm.cpp:164-181) preserves the invariant.
LEMMA ResetInv ==
  ASSUME Inv, Reset
  PROVE  Inv'
<1> USE DEF Reset, ResetState, input, threadVars, flagVars, matchVars, controlVars, bufferVars, clientVars
<1>1. /\ prog' = prog /\ text' = text /\ code' = code /\ Labels' = Labels
      /\ Thread' = Thread /\ RealThread' = RealThread
  BY SameProgram
<1>3. FlagTypes'
  BY DEF Inv, FlagTypes
<1>4. StateTypes'
  BY <1>1, InputAssumption DEF Inv, StateTypes, Control, None
<1>5. Control'
  BY <1>1 DEF Inv, Control, StateTypes
<1>6. FirstOK'
  BY <1>1 DEF Inv, FirstOK
<1>7. NextOK'
  BY <1>1 DEF NextOK
<1>8. ForksOK'
  BY <1>1 DEF Inv, ForksOK, Control
<1>9. ActiveOK'
  BY <1>1 DEF Inv, ActiveOK, Control
<1> QED
  BY <1>3, <1>4, <1>5, <1>6, <1>7, <1>8, <1>9 DEF Inv

-----------------------------------------------------------------------------
(* Frames.                                                                 *)

\* Taking the next byte of the buffer preserves the invariant.
LEMMA BeginFrameInv ==
  ASSUME Inv, BeginFrame
  PROVE  Inv'
<1> USE DEF BeginFrame, Running, MoreFrames, input, threadVars, flagVars, matchVars, controlVars, bufferVars, clientVars
<1>1. /\ prog' = prog /\ text' = text /\ code' = code /\ Labels' = Labels
      /\ Thread' = Thread /\ RealThread' = RealThread
  BY SameProgram
<1>2. \A u : Fit(u) => Fit(u)'
  BY <1>1, FitKept DEF Inv, StateTypes, Control
<1>3. FlagTypes'
  BY DEF Inv, FlagTypes
<1>4. StateTypes'
  BY <1>1 DEF Inv, StateTypes, Control
<1>5. Control'
  BY <1>1 DEF Inv, Control, StateTypes
<1>6. FirstOK'
  BY <1>1 DEF Inv, FirstOK
<1>7. NextOK'
  BY <1>1, <1>2 DEF Inv, NextOK
<1>8. ForksOK'
  BY <1>1, <1>2 DEF Inv, ForksOK, Control
<1>9. ActiveOK'
  BY <1>1, <1>2 DEF Inv, ActiveOK, Control
<1> QED
  BY <1>3, <1>4, <1>5, <1>6, <1>7, <1>8, <1>9 DEF Inv

\* _execute on one thread (vm.cpp:192-244, 385-401) preserves the invariant.
LEMMA ExecuteThreadInv ==
  ASSUME Inv, ExecuteThread
  PROVE  Inv'
<1> USE DEF ExecuteThread, Running, input, threadVars, flagVars, matchVars, controlVars, bufferVars, clientVars
<1>1. /\ prog' = prog /\ text' = text /\ code' = code /\ Labels' = Labels
      /\ Thread' = Thread /\ RealThread' = RealThread
  BY SameProgram
<1>2. \A u : Fit(u) => Fit(u)'
  BY <1>1, FitKept DEF Inv, StateTypes, Control
<1>3. FlagTypes'
  BY DEF Inv, FlagTypes
<1>4. StateTypes'
  BY <1>1 DEF Inv, StateTypes, Control
<1>5. Control'
  BY <1>1 DEF Inv, Control, StateTypes
<1>6. FirstOK'
  BY <1>1 DEF Inv, FirstOK
<1>7. NextOK'
  BY <1>1, <1>2 DEF Inv, NextOK
<1>8. ForksOK'
  BY <1>1, <1>2 DEF Inv, ForksOK, Control
<1>9. ActiveOK'
  <2> DEFINE th == active[t]  b == text[cur + 1]
  <2>1. /\ t \in 1..Len(active) /\ active \in Seq(Thread) /\ prog \in Programs
        /\ \A k \in t..Len(active) : active[k].pc # Null /\ Fit(active[k])
    BY DEF Inv, Control, ActiveOK
  <2>2. th \in Thread /\ th.pc \in DOMAIN code
    BY <2>1 DEF Fit, RealThread, Thread
  <2>3. \A u \in ByteSuccessors(th, b) : u \in Thread /\ u.pc # Null /\ Fit(u)
    <3>1. CASE code[th.pc].op = "FINISH"
      BY <2>1, <2>2, <3>1 DEF ByteSuccessors
    <3>2. CASE code[th.pc].op = "JUMP_TABLE_RANGE"
      <4> DEFINE y == TableEntry(code[th.pc], b)
      <4>1. y # 0 => y \in Targets(prog, th.pc)
        BY <3>2 DEF TableEntry, Targets, code
      <4>2. y # 0 => Fit([th EXCEPT !.pc = y])
        <5>1. Fit(th) /\ call # "construct"
          BY <2>1, SMTT(60)
        <5> HIDE DEF th, y
        <5> QED
          BY <2>1, <4>1, <3>2, <5>1, MoveFit
      <4> QED
        BY <3>2, <4>2, ZenonT(60) DEF ByteSuccessors, Fit, RealThread
    <3>3. CASE code[th.pc].op \notin {"FINISH", "JUMP_TABLE_RANGE"}
      <4>1. Consumes(code[th.pc], b) => code[th.pc].op \in FallsThrough \ {"LABEL", "MATCH"}
        BY DEF Consumes, FallsThrough
      <4>2. Consumes(code[th.pc], b) => Fit(Advance(th))
        <5>1. Fit(th) /\ call # "construct"
          BY <2>1
        <5> HIDE DEF th
        <5> SUFFICES ASSUME code[th.pc].op \in FallsThrough \ {"LABEL", "MATCH"} PROVE Fit(Advance(th))
          BY <4>1
        <5>2. /\ th.pc + Size(code[th.pc]) \in Targets(prog, th.pc)
              /\ Advance(th) = [th EXCEPT !.pc = th.pc + Size(code[th.pc])]
          BY FallThrough
        <5>3. prog \in Programs /\ code[th.pc].op \notin {"LABEL", "MATCH"}
          BY <2>1
        <5> HIDE DEF ExecuteThread, Running
        <5> QED
          BY <5>1, <5>2, <5>3, MoveFit
      <4> QED
        BY <3>3, <4>2, SMTT(60) DEF ByteSuccessors, Fit, RealThread
    <3> QED
      BY <3>1, <3>2, <3>3
  <2>4. CASE UNCHANGED active /\ t' = t + 1 /\ stage' = "thread"
    BY <1>1, <1>2, <2>1, <2>4 DEF ActiveOK
  <2>5. CASE /\ t' = t /\ stage' = "epsilon"
             /\ \E u \in ByteSuccessors(th, b) : active' = [active EXCEPT ![t] = u]
    <3>1. PICK u \in ByteSuccessors(th, b) : active' = [active EXCEPT ![t] = u]
      BY <2>5
    <3>2. u \in Thread /\ u.pc # Null /\ Fit(u)
      BY <2>3, <3>1
    <3>3. ActiveOK /\ t <= Len(active)
      BY DEF Inv
    <3> QED
      BY <1>1, <1>2, <2>5, <3>1, <3>2, <3>3, SetThreadOK
  <2> QED
    BY <2>4, <2>5
<1> QED
  BY <1>3, <1>4, <1>5, <1>6, <1>7, <1>8, <1>9 DEF Inv

\* _executeNewThreads (vm.cpp:437-458) preserves the invariant.
LEMMA SpawnThreadsInv ==
  ASSUME Inv, SpawnThreads
  PROVE  Inv'
<1> USE DEF SpawnThreads, Running, input, threadVars, flagVars, matchVars, controlVars, bufferVars, clientVars
<1>1. /\ prog' = prog /\ text' = text /\ code' = code /\ Labels' = Labels
      /\ Thread' = Thread /\ RealThread' = RealThread
  BY SameProgram
<1>2. \A u : Fit(u) => Fit(u)'
  BY <1>1, FitKept DEF Inv, StateTypes, Control
<1>3. FlagTypes'
  BY DEF Inv, FlagTypes
<1>4. StateTypes'
  BY <1>1 DEF Inv, StateTypes, Control
<1>5. Control'
  BY <1>1 DEF Inv, Control, StateTypes
<1>6. FirstOK'
  BY <1>1 DEF Inv, FirstOK
<1>7. NextOK'
  BY <1>1, <1>2 DEF Inv, NextOK
<1>8. ForksOK'
  BY <1>1, <1>2 DEF Inv, ForksOK, Control
<1>9. ActiveOK'
  <2>1. /\ t = Len(active) + 1 /\ active \in Seq(Thread) /\ Len(active) \in Nat
        /\ cur \in Nat /\ call # "construct"
    BY DEF Inv, ActiveOK, StateTypes
  <2>2. /\ Fresh(cur) \in Seq(Thread) /\ Len(Fresh(cur)) \in Nat
        /\ \A k \in 1..Len(Fresh(cur)) : Fresh(cur)[k].pc # Null /\ Fit(Fresh(cur)[k])
    BY <2>1, FreshFit
  <2>3. CASE UNCHANGED active
    BY <1>1, <1>2, <2>1, <2>3 DEF Inv, ActiveOK
  <2>4. CASE active' = active \o Fresh(cur)
    <3>1. /\ active' \in Seq(Thread) /\ Len(active') = Len(active) + Len(Fresh(cur))
          /\ \A k \in t..Len(active') : active'[k] = Fresh(cur)[k - Len(active)]
      BY <2>1, <2>2, <2>4, ConcatProperties
    <3>2. \A k \in t..Len(active') : active'[k].pc # Null /\ Fit(active'[k])
      BY <2>1, <2>2, <3>1
    <3> QED
      BY <1>1, <1>2, <2>1, <2>2, <3>1, <3>2, SMTT(60) DEF ActiveOK
  <2> QED
    BY <2>3, <2>4
<1> QED
  BY <1>3, <1>4, <1>5, <1>6, <1>7, <1>8, <1>9 DEF Inv

\* _cleanup (vm.cpp:493-501), which makes Next the active list, preserves the invariant.
LEMMA CleanupInv ==
  ASSUME Inv, Cleanup
  PROVE  Inv'
<1> USE DEF Cleanup, Running, input, threadVars, flagVars, matchVars, controlVars, bufferVars, clientVars
<1>1. /\ prog' = prog /\ text' = text /\ code' = code /\ Labels' = Labels
      /\ Thread' = Thread /\ RealThread' = RealThread
  BY SameProgram
<1>2. \A u : Fit(u) => Fit(u)'
  BY <1>1, FitKept DEF Inv, StateTypes, Control
<1>3. FlagTypes'
  BY DEF Inv, FlagTypes
<1>4. StateTypes'
  BY <1>1 DEF Inv, StateTypes, Control
<1>5. Control'
  BY <1>1 DEF Inv, Control, StateTypes
<1>6. FirstOK'
  BY <1>1 DEF Inv, FirstOK
<1>7. NextOK'
  BY <1>1, <1>2 DEF Inv, NextOK
<1>8. ForksOK'
  BY <1>1, <1>2 DEF Inv, ForksOK, Control
<1>9. ActiveOK'
  <2>1. /\ next \in Seq(Thread) /\ Len(next) \in Nat
        /\ \A k \in 1..Len(next) : next[k].pc # Null /\ Fit(next[k])
    BY DEF Inv, NextOK, RealThread
  <2> QED
    BY <1>1, <1>2, <2>1 DEF ActiveOK
<1> QED
  BY <1>3, <1>4, <1>5, <1>6, <1>7, <1>8, <1>9 DEF Inv

\* The return of search and searchResolve preserves the invariant.
LEMMA ReturnLeftmostInv ==
  ASSUME Inv, ReturnLeftmost
  PROVE  Inv'
<1> USE DEF ReturnLeftmost, Running, MoreFrames, input, threadVars, flagVars, matchVars, controlVars, bufferVars, clientVars
<1>1. /\ prog' = prog /\ text' = text /\ code' = code /\ Labels' = Labels
      /\ Thread' = Thread /\ RealThread' = RealThread
  BY SameProgram
<1>2. \A u : Fit(u) => Fit(u)'
  BY <1>1, FitKept DEF Inv, StateTypes, Control
<1>3. FlagTypes'
  BY DEF Inv, FlagTypes
<1>4. StateTypes'
  BY <1>1, LeftmostStart DEF Inv, StateTypes, Control
<1>5. Control'
  BY <1>1 DEF Inv, Control, StateTypes
<1>6. FirstOK'
  BY <1>1 DEF Inv, FirstOK
<1>7. NextOK'
  BY <1>1, <1>2 DEF Inv, NextOK
<1>8. ForksOK'
  BY <1>1, <1>2 DEF Inv, ForksOK, Control
<1>9. ActiveOK'
  BY <1>1, <1>2 DEF Inv, ActiveOK, Control
<1> QED
  BY <1>3, <1>4, <1>5, <1>6, <1>7, <1>8, <1>9 DEF Inv

-----------------------------------------------------------------------------
(* Epsilon instructions.                                                   *)

\* What no epsilon instruction touches keeps its part of the invariant.
LEMMA EpsilonKeeps ==
  ASSUME Inv, EpsilonStep
  PROVE  /\ prog' = prog /\ text' = text /\ code' = code /\ Labels' = Labels
         /\ Thread' = Thread /\ RealThread' = RealThread
         /\ \A u : Fit(u) => Fit(u)'
         /\ t' = t /\ stage = "epsilon" /\ stage' \in {"epsilon", "settle"}
         /\ FlagTypes' /\ Control' /\ FirstOK' /\ NextOK'
<1>1. EpsilonUnchanged /\ UNCHANGED <<next, liveNoLabel>> /\ stage = "epsilon"
      /\ stage' \in {"epsilon", "settle"}
  BY DEF EpsilonStep, FinishWaits, FinishReports, Fork, Jump, CheckHalt, Label, Match, EndSequence,
         At, flagVars
<1> USE <1>1 DEF EpsilonUnchanged, input, bufferVars
<1>2. /\ prog' = prog /\ text' = text /\ code' = code /\ Labels' = Labels
      /\ Thread' = Thread /\ RealThread' = RealThread
  BY SameProgram
<1>3. \A u : Fit(u) => Fit(u)'
  BY <1>2, FitKept DEF Inv, StateTypes
<1>4. FlagTypes'
  BY DEF Inv, FlagTypes
<1>5. Control'
  BY <1>2 DEF Inv, Control
<1>6. FirstOK'
  BY <1>2 DEF Inv, FirstOK
<1>7. NextOK'
  BY <1>2, <1>3 DEF Inv, NextOK
<1> QED
  BY <1>2, <1>3, <1>4, <1>5, <1>6, <1>7, SMTT(60)

\* Hits and the ends of matches change only where a match is reported.
LEMMA EpsilonStateTypes ==
  ASSUME Inv, EpsilonStep, UNCHANGED <<matchVars, hits>>, checkLabels' \subseteq 1..prog.maxCheck,
         UNCHANGED live
  PROVE  StateTypes'
<1>1. /\ prog' = prog /\ text' = text /\ Labels' = Labels
      /\ stage' \in {"epsilon", "settle"}
  BY EpsilonKeeps, SMTT(60)
<1>2. EpsilonUnchanged
  BY DEF EpsilonStep, FinishWaits, FinishReports, Fork, Jump, CheckHalt, Label, Match, EndSequence
<1> QED
  BY <1>1, <1>2 DEF Inv, StateTypes, EpsilonUnchanged, matchVars, bufferVars

\* The running thread of a sequence becomes u.
LEMMA EpsilonActive ==
  ASSUME Inv, EpsilonStep, NEW u \in Thread, SetThread(u),
         u.pc # Null => Fit(u), u.pc = Null => stage' = "settle"
  PROVE  ActiveOK'
<1>1. ActiveOK /\ t <= Len(active)
  BY EpsilonKeeps DEF Inv, ActiveOK
<1> QED
  BY <1>1, EpsilonKeeps, SetThreadOK DEF SetThread

\* Every instruction of _executeEpsilon (vm.cpp:260-383) preserves the invariant.
LEMMA EpsilonInv ==
  ASSUME Inv, EpsilonStep
  PROVE  Inv'
<1> USE EpsilonKeeps
<1> DEFINE th == active[t]
<1>1. /\ th \in Thread /\ Fit(th) /\ th.pc # Null /\ th.pc \in DOMAIN code
      /\ prog \in Programs /\ cur \in Nat
  BY Running1 DEF Fit, RealThread
<1>2. ActiveOK /\ ForksOK /\ StateTypes /\ checkLabels \subseteq 1..prog.maxCheck
  BY DEF Inv, StateTypes
<1>3. ASSUME UNCHANGED forks PROVE ForksOK'
  BY <1>2, <1>3 DEF ForksOK
<1>4. SUFFICES StateTypes' /\ ForksOK' /\ ActiveOK'
  BY DEF Inv
<1> HIDE DEF th
<1>5. CASE FinishWaits
  <2>1. StateTypes' /\ ForksOK'
    BY <1>2, <1>3, <1>5, EpsilonStateTypes DEF FinishWaits, flagVars
  <2>2. ActiveOK'
    BY <1>2, <1>5, KillsFit DEF FinishWaits, At, ActiveOK
  <2> QED
    BY <2>1, <2>2
<1>6. CASE FinishReports
  <2>1. code[th.pc].op = "FINISH" /\ stage' = "settle" /\ UNCHANGED forks
    BY <1>6 DEF FinishReports, At, th
  <2>2. th.label \in Labels /\ th.end \in Nat /\ th.start \in Nat /\ call # "construct"
    BY <1>1, <2>1, AtFinish
  <2>3. /\ matchEnds' \in [Labels -> Nat]
        /\ matchEndsMax' \in Nat
        /\ hits' \in Seq([start: Nat, end: Nat, label: Labels])
    <3>1. CASE UNCHANGED <<matchVars, hits>>
      BY <1>2, <3>1 DEF StateTypes, matchVars
    <3>2. CASE Accept(th) /\ matchEndsMax' = IF th.end + 1 > matchEndsMax THEN th.end + 1 ELSE matchEndsMax
      <4>1. /\ matchEnds' \in [Labels -> Nat]
            /\ hits' \in Seq([start: Nat, end: Nat, label: Labels])
        BY <1>2, <2>2, <3>2, AcceptTypes DEF StateTypes
      <4>2. matchEndsMax' \in Nat
        BY <1>2, <2>2, <3>2 DEF StateTypes
      <4> QED
        BY <4>1, <4>2
    <3> QED
      BY <1>6, <3>1, <3>2 DEF FinishReports, th
  <2>4. EpsilonUnchanged /\ UNCHANGED flagVars
    BY <1>6 DEF FinishReports
  <2>5. StateTypes'
    BY <1>2, <2>1, <2>3, <2>4 DEF StateTypes, EpsilonUnchanged, flagVars, bufferVars
  <2>6. ActiveOK'
    <3>1. /\ AfterKills \in Seq(Thread) /\ Len(AfterKills) = Len(active)
          /\ \A k \in t..Len(active) : AfterKills[k].pc # Null /\ Fit(AfterKills[k])
      BY <2>1, KillsFit DEF th
    <3>2. Dead(th) \in Thread /\ Dead(th).pc = Null
      BY <1>1, DeadThread
    <3>3. t \in 1..Len(AfterKills) /\ t \in 1..Len(active)
      BY <1>2, <3>1 DEF ActiveOK
    <3>4. active' = [AfterKills EXCEPT ![t] = Dead(th)]
      BY <1>6 DEF FinishReports, th
    <3>5. /\ active' \in Seq(Thread) /\ Len(active') = Len(active) /\ active'[t] = Dead(th)
          /\ \A k \in 1..Len(active) : k # t => active'[k] = AfterKills[k]
      BY <3>1, <3>2, <3>3, <3>4, ReplaceElement
    <3>6. ASSUME NEW k \in 1..Len(active), k >= t
          PROVE  /\ active'[k].pc = Null => k = t
                 /\ active'[k].pc # Null => Fit(active[k])'
      <4>1. CASE k = t
        BY <3>2, <3>5, <4>1
      <4>2. CASE k # t
        BY <3>1, <3>3, <3>5, <3>6, <4>2
      <4> QED
        BY <4>1, <4>2
    <3> QED
      BY <2>1, <3>3, <3>5, <3>6 DEF ActiveOK
  <2> QED
    BY <1>3, <2>1, <2>5, <2>6
<1>7. CASE Fork
  <2>1. code[th.pc].op = "FORK"
    BY <1>7 DEF Fork, At, th
  <2>2. Fit(Advance(th)) /\ Fit([th EXCEPT !.pc = code[th.pc].target])
    <3>1. /\ th.pc + Size(code[th.pc]) \in Targets(prog, th.pc)
          /\ Advance(th) = [th EXCEPT !.pc = th.pc + Size(code[th.pc])]
      BY <2>1, FallThrough DEF FallsThrough
    <3>2. code[th.pc].target \in Targets(prog, th.pc)
      BY <2>1, JumpTarget
    <3> QED
      BY <1>1, <2>1, <3>1, <3>2, MoveFit
  <2>3. StateTypes'
    BY <1>2, <1>7, EpsilonStateTypes DEF Fork, flagVars
  <2>4. CASE SetThread(Advance(th)) /\ forks' = <<th>> \o forks
    <3>1. ActiveOK'
      BY <2>2, <2>4, EpsilonActive DEF Fit, RealThread
    <3>2. ForksOK'
      <4>1. th \in RealThread /\ <<th>> \in Seq(RealThread) /\ forks \in Seq(RealThread)
        BY <1>1, <1>2 DEF ForksOK, Fit
      <4>2. /\ forks' \in Seq(RealThread) /\ Len(forks') = Len(forks) + 1
            /\ forks'[1] = th
            /\ \A k \in 2..Len(forks') : forks'[k] = forks[k - 1]
        BY <2>4, <4>1
      <4>3. \A k \in 1..Len(forks') : Fit(forks'[k]) /\ code[forks'[k].pc].op = "FORK"
        BY <1>1, <1>2, <2>1, <4>1, <4>2, SMTT(60) DEF ForksOK
      <4> QED
        BY <4>1, <4>2, <4>3 DEF ForksOK
    <3> QED
      BY <2>3, <3>1, <3>2
  <2>5. CASE SetThread([th EXCEPT !.pc = code[th.pc].target]) /\ UNCHANGED forks
    <3>1. ActiveOK'
      BY <2>2, <2>5, EpsilonActive DEF Fit, RealThread
    <3> QED
      BY <1>3, <2>3, <2>5, <3>1
  <2> QED
    <3>1. [th EXCEPT !.pc = code[@].target] = [th EXCEPT !.pc = code[th.pc].target]
      BY <1>1 DEF Thread
    <3> QED
      BY <1>7, <2>4, <2>5, <3>1 DEF Fork, th
<1>8. CASE Jump
  <2>1. code[th.pc].op = "JUMP" /\ UNCHANGED forks /\ SetThread([th EXCEPT !.pc = code[th.pc].target])
    <3>1. [th EXCEPT !.pc = code[@].target] = [th EXCEPT !.pc = code[th.pc].target]
      BY <1>1 DEF Thread
    <3> QED
      BY <1>8, <3>1 DEF Jump, At, th
  <2>2. Fit([th EXCEPT !.pc = code[th.pc].target])
    <3>1. code[th.pc].target \in Targets(prog, th.pc)
      BY <2>1, JumpTarget
    <3> QED
      BY <1>1, <2>1, <3>1, MoveFit
  <2>3. StateTypes'
    BY <1>2, <1>8, EpsilonStateTypes DEF Jump, flagVars
  <2>4. ActiveOK'
    BY <2>1, <2>2, EpsilonActive DEF Fit, RealThread
  <2> QED
    BY <1>3, <2>1, <2>3, <2>4
<1>9. CASE CheckHalt
  <2>1. code[th.pc].op = "CHECK_HALT" /\ UNCHANGED forks
    BY <1>9 DEF CheckHalt, At, th
  <2>2. code[th.pc].offset \in 1..prog.maxCheck
    BY <1>1, <2>1, ProgramFacts DEF WellFormed, code
  <2>3. checkLabels' \subseteq 1..prog.maxCheck
    BY <1>2, <1>9, <2>2 DEF CheckHalt, th
  <2>4. StateTypes'
    BY <1>9, <2>3, EpsilonStateTypes DEF CheckHalt
  <2>5. Fit(Advance(th))
    <3>1. call # "construct"
      BY <1>1, <2>1, ProgramFacts DEF FlowAllows, code, Fit, ByteOps
    <3>2. /\ th.pc + Size(code[th.pc]) \in Targets(prog, th.pc)
          /\ Advance(th) = [th EXCEPT !.pc = th.pc + Size(code[th.pc])]
      BY <2>1, FallThrough DEF FallsThrough
    <3> QED
      BY <1>1, <2>1, <3>1, <3>2, MoveFit
  <2>6. CASE SetThread(Dead(th)) /\ stage' = "settle"
    <3>1. Dead(th) \in Thread /\ Dead(th).pc = Null
      BY <1>1, DeadThread
    <3> QED
      BY <1>3, <2>1, <2>4, <2>6, <3>1, EpsilonActive
  <2>7. CASE SetThread(Advance(th))
    <3>1. ActiveOK'
      BY <2>5, <2>7, EpsilonActive DEF Fit, RealThread
    <3> QED
      BY <1>3, <2>1, <2>4, <3>1
  <2> QED
    BY <1>9, <2>6, <2>7 DEF CheckHalt, th
<1>10. CASE Label
  <2>1. code[th.pc].op = "LABEL" /\ UNCHANGED forks
    BY <1>10 DEF Label, At, th
  <2>2. StateTypes'
    BY <1>2, <1>10, EpsilonStateTypes DEF Label, flagVars
  <2>3. Fit(Advance([th EXCEPT !.label = code[th.pc].offset]))
    BY <1>1, <2>1, LabelFit
  <2>4. CASE SetThread(Dead(th)) /\ stage' = "settle"
    <3>1. Dead(th) \in Thread /\ Dead(th).pc = Null
      BY <1>1, DeadThread
    <3> QED
      BY <1>3, <2>1, <2>2, <2>4, <3>1, EpsilonActive
  <2>5. CASE SetThread(Advance([th EXCEPT !.label = code[th.pc].offset]))
    <3>1. ActiveOK'
      BY <2>3, <2>5, EpsilonActive DEF Fit, RealThread
    <3> QED
      BY <1>3, <2>1, <2>2, <3>1
  <2> QED
    BY <1>10, <2>4, <2>5 DEF Label, th
<1>11. CASE Match
  <2> DEFINE lead == ~IsLive(th.label)
  <2>1. /\ code[th.pc].op = "MATCH" /\ UNCHANGED forks
        /\ SetThread(Advance([th EXCEPT !.end = cur, !.lead = lead]))
    BY <1>11 DEF Match, At, th
  <2>2. lead \in BOOLEAN
    OBVIOUS
  <2> HIDE DEF lead
  <2>3. Fit(Advance([th EXCEPT !.end = cur, !.lead = lead]))
    BY <1>1, <2>1, <2>2, MatchFit
  <2>4. StateTypes'
    BY <1>2, <1>11, EpsilonStateTypes DEF Match, flagVars
  <2>5. ActiveOK'
    BY <2>1, <2>3, EpsilonActive DEF Fit, RealThread
  <2> QED
    BY <1>3, <2>1, <2>4, <2>5
<1>12. CASE EndSequence
  <2>1. UNCHANGED forks /\ stage' = "settle"
    BY <1>12 DEF EndSequence
  <2>2. StateTypes'
    BY <1>2, <1>12, EpsilonStateTypes DEF EndSequence, flagVars
  <2>3. CASE UNCHANGED active
    <3>1. ActiveOK'
      BY <1>2, <2>1, <2>3 DEF ActiveOK
    <3> QED
      BY <1>3, <2>1, <2>2, <3>1
  <2>4. CASE SetThread(Dead(th))
    <3>1. Dead(th) \in Thread /\ Dead(th).pc = Null
      BY <1>1, DeadThread
    <3> QED
      BY <1>3, <2>1, <2>2, <2>4, <3>1, EpsilonActive
  <2> QED
    BY <1>12, <2>3, <2>4 DEF EndSequence, th
<1> QED
  BY <1>5, <1>6, <1>7, <1>8, <1>9, <1>10, <1>11, <1>12 DEF EpsilonStep

\* The end of an epsilon sequence (vm.cpp:183-190, 385-401) preserves the invariant: the saved
\* copies of FORK_OP take their turn.
LEMMA SettleInv ==
  ASSUME Inv, Settle
  PROVE  Inv'
<1> USE DEF Settle, input, threadVars, flagVars, matchVars, controlVars, bufferVars, clientVars
<1>1. /\ prog' = prog /\ text' = text /\ code' = code /\ Labels' = Labels
      /\ Thread' = Thread /\ RealThread' = RealThread
  BY SameProgram
<1>2. \A u : Fit(u) => Fit(u)'
  BY <1>1, FitKept DEF Inv, StateTypes, Control
<1>3. FlagTypes'
  <2>1. liveNoLabel' \in BOOLEAN
    BY DEF Inv, FlagTypes, Survive
  <2> QED
    BY <2>1 DEF Inv, FlagTypes
<1>4. StateTypes'
  <2>1. t \in 1..Len(active) /\ active[t] \in Thread
    BY DEF Inv, ActiveOK
  <2>2. live' \subseteq Labels
    BY <2>1 DEF Inv, StateTypes, Survive, Thread
  <2>3. stage' \in {"thread", "epsilon"}
    OBVIOUS
  <2> QED
    BY <1>1, <2>2, <2>3 DEF Inv, StateTypes
<1>5. Control'
  BY <1>1 DEF Inv, Control, StateTypes
<1>6. FirstOK'
  BY <1>1 DEF Inv, FirstOK
<1>7. NextOK'
  <2>1. /\ t \in 1..Len(active) /\ next \in Seq(RealThread)
        /\ active[t].pc # Null => active[t] \in RealThread /\ Fit(active[t])
    BY DEF Inv, ActiveOK, NextOK, Fit
  <2>2. CASE next' = next
    BY <1>1, <1>2, <2>2 DEF Inv, NextOK
  <2>3. CASE active[t].pc # Null /\ next' = Append(next, active[t])
    <3>1. /\ next' \in Seq(RealThread) /\ Len(next') = Len(next) + 1
          /\ next'[Len(next) + 1] = active[t]
          /\ \A k \in 1..Len(next) : next'[k] = next[k]
      BY <2>1, <2>3, AppendProperties
    <3>2. \A k \in 1..Len(next') : Fit(next'[k])
      BY <2>1, <2>3, <3>1 DEF Inv, NextOK
    <3> QED
      BY <1>1, <1>2, <3>1, <3>2 DEF NextOK
  <2> QED
    BY <2>2, <2>3 DEF Survive
<1>8. ForksOK'
  <2>1. forks \in Seq(RealThread)
    BY DEF Inv, ForksOK
  <2>2. CASE forks = <<>> /\ UNCHANGED forks
    BY <1>1, <1>2, <2>2 DEF Inv, ForksOK
  <2>3. CASE forks # <<>> /\ forks' = Tail(forks) /\ stage' = "epsilon"
    <3>1. /\ forks' \in Seq(RealThread) /\ Len(forks') = Len(forks) - 1
          /\ \A k \in 1..Len(forks') : forks'[k] = forks[k + 1]
      BY <2>1, <2>3, HeadTailProperties
    <3>2. \A k \in 1..Len(forks') : Fit(forks'[k]) /\ code[forks'[k].pc].op = "FORK"
      BY <2>1, <3>1, SMTT(60) DEF Inv, ForksOK
    <3> QED
      BY <1>1, <1>2, <2>3, <3>1, <3>2 DEF ForksOK
  <2> QED
    BY <2>2, <2>3
<1>9. ActiveOK'
  <2>1. ActiveOK /\ t \in 1..Len(active) /\ prog \in Programs
    BY DEF Inv, ActiveOK, Control
  <2>2. CASE UNCHANGED active /\ stage' = "thread" /\ t' = t + 1
    BY <1>1, <1>2, <2>1, <2>2 DEF ActiveOK
  <2>3. CASE /\ forks # <<>> /\ stage' = "epsilon" /\ t' = t
             /\ SetThread([Head(forks) EXCEPT !.pc = code[@].target])
    <3> DEFINE h == Head(forks)  u == [h EXCEPT !.pc = code[h.pc].target]
    <3>1. h \in RealThread /\ Fit(h) /\ code[h.pc].op = "FORK"
      BY <2>3 DEF Inv, ForksOK
    <3>2. Fit(u)
      <4>1. code[h.pc].target \in Targets(prog, h.pc)
        BY <3>1, JumpTarget
      <4> HIDE DEF h
      <4> QED
        BY <2>1, <3>1, <4>1, MoveFit
    <3>3. u \in Thread /\ u.pc # Null
      BY <3>2 DEF Fit, RealThread
    <3>4. active' = [active EXCEPT ![t] = u]
      BY <2>3, <3>1 DEF SetThread, RealThread, Thread
    <3>5. t <= Len(active) /\ stage' \in {"epsilon", "settle"} /\ t' = t
      BY <2>1, <2>3
    <3> HIDE DEF u, h
    <3> QED
      BY <1>1, <1>2, <2>1, <3>2, <3>3, <3>4, <3>5, SetThreadOK
  <2> QED
    BY <2>2, <2>3
<1> QED
  BY <1>3, <1>4, <1>5, <1>6, <1>7, <1>8, <1>9 DEF Inv

-----------------------------------------------------------------------------
(* The end of a call.                                                      *)

\* The passage of startsWith to closeOut preserves the invariant.
LEMMA EndStartsWithInv ==
  ASSUME Inv, EndStartsWith
  PROVE  Inv'
<1> USE DEF EndStartsWith, MoreFrames, input, threadVars, flagVars, matchVars, controlVars, bufferVars, clientVars
<1>1. /\ prog' = prog /\ text' = text /\ code' = code /\ Labels' = Labels
      /\ Thread' = Thread /\ RealThread' = RealThread
  BY SameProgram
<1>2. \A u : Fit(u) => Fit(u)'
  BY <1>1, FitKept DEF Inv, StateTypes, Control
<1>3. FlagTypes'
  BY DEF Inv, FlagTypes
<1>4. StateTypes'
  BY <1>1 DEF Inv, StateTypes, Control
<1>5. Control'
  BY <1>1 DEF Inv, Control, StateTypes
<1>6. FirstOK'
  BY <1>1 DEF Inv, FirstOK
<1>7. NextOK'
  BY <1>1, <1>2 DEF Inv, NextOK
<1>8. ForksOK'
  BY <1>1, <1>2 DEF Inv, ForksOK, Control
<1>9. ActiveOK'
  BY <1>1, <1>2 DEF Inv, ActiveOK, Control
<1> QED
  BY <1>3, <1>4, <1>5, <1>6, <1>7, <1>8, <1>9 DEF Inv

\* closeOut's look at one thread (vm.cpp:672-683) preserves the invariant.
LEMMA CloseThreadInv ==
  ASSUME Inv, CloseThread
  PROVE  Inv'
<1> USE DEF CloseThread, input, threadVars, flagVars, matchVars, controlVars, bufferVars, clientVars
<1>1. /\ prog' = prog /\ text' = text /\ code' = code /\ Labels' = Labels
      /\ Thread' = Thread /\ RealThread' = RealThread
  BY SameProgram
<1>2. \A u : Fit(u) => Fit(u)'
  BY <1>1, FitKept DEF Inv, StateTypes, Control
<1>3. FlagTypes'
  BY DEF Inv, FlagTypes
<1>4. StateTypes'
  <2> DEFINE th == active[t]
  <2>1. CASE UNCHANGED <<matchEnds, hits>>
    BY <1>1, <2>1 DEF Inv, StateTypes
  <2>2. CASE code[th.pc].op = "FINISH" /\ Accept(th)
    <3>1. prog \in Programs /\ Fit(th)
      BY DEF Inv, Control, ActiveOK
    <3>2. th.label \in Labels /\ th.end \in Nat /\ th.start \in Nat
      BY <2>2, <3>1, AtFinish
    <3> HIDE DEF th
    <3>3. matchEnds \in [Labels -> Nat] /\ hits \in Seq([start: Nat, end: Nat, label: Labels])
      BY DEF Inv, StateTypes
    <3>4. /\ matchEnds' \in [Labels -> Nat]
          /\ hits' \in Seq([start: Nat, end: Nat, label: Labels])
      BY <2>2, <3>2, <3>3, AcceptTypes
    <3> QED
      BY <1>1, <3>4 DEF Inv, StateTypes
  <2> QED
    BY <2>1, <2>2
<1>5. Control'
  BY <1>1 DEF Inv, Control, StateTypes
<1>6. FirstOK'
  BY <1>1 DEF Inv, FirstOK
<1>7. NextOK'
  BY <1>1, <1>2 DEF Inv, NextOK
<1>8. ForksOK'
  BY <1>1, <1>2 DEF Inv, ForksOK, Control
<1>9. ActiveOK'
  BY <1>1, <1>2 DEF Inv, ActiveOK, Control
<1> QED
  BY <1>3, <1>4, <1>5, <1>6, <1>7, <1>8, <1>9 DEF Inv

\* The end of closeOut and startsWith preserves the invariant.
LEMMA ClosedInv ==
  ASSUME Inv, Closed
  PROVE  Inv'
<1> USE DEF Closed, input, threadVars, flagVars, matchVars, controlVars, bufferVars, clientVars
<1>1. /\ prog' = prog /\ text' = text /\ code' = code /\ Labels' = Labels
      /\ Thread' = Thread /\ RealThread' = RealThread
  BY SameProgram
<1>2. \A u : Fit(u) => Fit(u)'
  BY <1>1, FitKept DEF Inv, StateTypes, Control
<1>3. FlagTypes'
  BY DEF Inv, FlagTypes, ResetState
<1>4. StateTypes'
  <2>1. CASE UNCHANGED <<active, next, flagVars, matchVars, curHitFn>>
    BY <1>1, <2>1 DEF Inv, StateTypes
  <2>2. CASE ResetState
    BY <1>1, <2>2 DEF Inv, StateTypes, ResetState
  <2> QED
    BY <2>1, <2>2
<1>5. Control'
  BY <1>1 DEF Inv, Control, StateTypes
<1>6. FirstOK'
  BY <1>1 DEF Inv, FirstOK
<1>7. NextOK'
  <2>1. CASE UNCHANGED next
    BY <1>1, <1>2, <2>1 DEF Inv, NextOK
  <2>2. CASE next' = <<>>
    BY <1>1, <2>2 DEF NextOK
  <2> QED
    BY <2>1, <2>2 DEF ResetState
<1>8. ForksOK'
  BY <1>1, <1>2 DEF Inv, ForksOK, Control
<1>9. ActiveOK'
  <2>1. stage' = "frame" /\ t' = 1
    OBVIOUS
  <2>2. CASE active' = <<>>
    BY <2>1, <2>2 DEF ActiveOK
  <2>3. CASE UNCHANGED active
    <3>1. \A k \in 1..Len(active) : active[k].pc # Null /\ Fit(active[k])
      BY DEF Inv, ActiveOK
    <3> QED
      BY <1>1, <1>2, <2>1, <2>3, <3>1 DEF Inv, ActiveOK
  <2> QED
    BY <2>2, <2>3 DEF ResetState
<1> QED
  BY <1>3, <1>4, <1>5, <1>6, <1>7, <1>8, <1>9 DEF Inv

-----------------------------------------------------------------------------
\* Every step, of the machine or of the client, preserves the invariant.
LEMMA NextInv ==
  ASSUME Inv, [Next]_vars
  PROVE  Inv'
<1>1. Len(text) \in Nat
  BY InputAssumption DEF Inv, Control
<1>2. CASE Step
  BY <1>2, ConstructedInv, BeginFrameInv, ExecuteThreadInv, SpawnThreadsInv, CleanupInv,
     ReturnLeftmostInv, EpsilonInv, SettleInv, EndStartsWithInv, CloseThreadInv, ClosedInv
     DEF Step
<1>3. CASE ClientCall
  <2>1. ASSUME NEW n \in 0..Len(text), NEW fn \in HitFns, Search(n, fn) PROVE Inv'
    BY <1>1, <2>1, SearchInv
  <2>2. ASSUME NEW n \in 0..Len(text), NEW fn \in HitFns, SearchResolve(n, fn) PROVE Inv'
    BY <1>1, <2>2, SearchResolveInv
  <2>3. ASSUME NEW n \in 1..Len(text), NEW fn \in HitFns, StartsWith(n, fn) PROVE Inv'
    BY <1>1, <2>3, StartsWithInv
  <2>4. ASSUME NEW fn \in HitFns, CloseOut(fn) PROVE Inv'
    BY <2>4, CloseOutInv
  <2> QED
    BY <1>3, <2>1, <2>2, <2>3, <2>4, ResetInv DEF ClientCall
<1>4. CASE UNCHANGED vars
  <2> USE <1>4 DEF vars, input, threadVars, flagVars, matchVars, controlVars, bufferVars, clientVars
  <2>1. /\ prog' = prog /\ text' = text /\ code' = code /\ Labels' = Labels
        /\ Thread' = Thread /\ RealThread' = RealThread
    BY SameProgram
  <2>2. \A u : Fit(u) => Fit(u)'
    BY <2>1, FitKept DEF Inv, StateTypes
  <2>3. FlagTypes'
    BY DEF Inv, FlagTypes
  <2>4. StateTypes'
    BY <2>1 DEF Inv, StateTypes
  <2>5. Control' /\ FirstOK'
    BY <2>1 DEF Inv, Control, FirstOK
  <2>6. NextOK' /\ ForksOK'
    BY <2>1, <2>2 DEF Inv, NextOK, ForksOK
  <2>7. ActiveOK'
    BY <2>1, <2>2 DEF Inv, ActiveOK
  <2> QED
    BY <2>3, <2>4, <2>5, <2>6, <2>7 DEF Inv
<1> QED
  BY <1>2, <1>3, <1>4 DEF Next

\* Whatever the client does, the machine stays in the inductive invariant: every live
\* thread stands at an instruction that it is fit to run (vm.cpp:260-401).
THEOREM Invariance == Spec => []Inv
<1>1. Init => Inv
  BY InitInv
<1>2. Inv /\ [Next]_vars => Inv'
  BY NextInv
<1> QED
  BY <1>1, <1>2, PTL DEF Spec

\* The machine never leaves its program: whatever the client does, every thread
\* that is yet to run stands at an instruction, offsets stay inside the stream,
\* and FINISH_OP (vm.cpp:265-313), which indexes MatchEnds by a label that it does
\* not check, has one.
THEOREM TypeCorrect == Spec => []TypeOK
BY Invariance, InvTypeOK, PTL
-----------------------------------------------------------------------------
(* The hits of a label.  MatchEnds is the reason why they do not overlap: a  *)
(* thread reports only if it starts at or after the end of the last one.     *)
(* After lg_starts_with, which resets by itself, MatchEnds forgets the hits, *)
(* and nothing but a reset can follow.                                       *)

HitsBounded == \A k \in DOMAIN hits : hits[k].end <= matchEnds[hits[k].label]

HitsInv ==
  /\ HitsDisjoint
  /\ ~(closed /\ call = "idle") => HitsBounded
  /\ call = "construct" => hits = <<>>
  /\ call \in {"closeOut", "startsWith"} => closed

\* A thread at FINISH that does not overlap the last hit of its label adds to them
\* (vm.cpp:297-311, 672-683).
LEMMA AcceptHits ==
  ASSUME Inv, HitsDisjoint, HitsBounded,
         NEW u, Fit(u), code[u.pc].op = "FINISH", u.start >= matchEnds[u.label], Accept(u)
  PROVE  (HitsDisjoint /\ HitsBounded)'
<1>1. /\ u.label \in Labels /\ u.end \in Nat /\ u.start \in Nat /\ u.start <= u.end
  BY AtFinish DEF Inv, Control
<1>2. matchEnds \in [Labels -> Nat] /\ hits \in Seq([start: Nat, end: Nat, label: Labels])
  BY DEF Inv, StateTypes
<1>3. /\ matchEnds'[u.label] = u.end + 1
      /\ \A l \in Labels : matchEnds[l] \in Nat /\ matchEnds[l] <= matchEnds'[l]
  BY <1>1, <1>2 DEF Accept
<1>4. /\ Len(hits) \in Nat /\ DOMAIN hits = 1..Len(hits)
      /\ \A k \in 1..Len(hits) : /\ hits[k].start \in Nat /\ hits[k].end \in Nat
                                 /\ hits[k].label \in Labels
  <2> DEFINE H == [start: Nat, end: Nat, label: Labels]
  <2>1. \A h \in H : h.start \in Nat /\ h.end \in Nat /\ h.label \in Labels
    OBVIOUS
  <2>2. hits \in Seq(H)
    BY <1>2
  <2> HIDE DEF H
  <2>3. Len(hits) \in Nat /\ DOMAIN hits = 1..Len(hits) /\ \A k \in 1..Len(hits) : hits[k] \in H
    BY <2>2
  <2> QED
    BY <2>1, <2>3
<1>5. CASE hits' = hits
  <2>1. HitsBounded'
    <3> SUFFICES ASSUME NEW k \in DOMAIN hits PROVE hits[k].end <= matchEnds'[hits[k].label]
      BY <1>4, <1>5 DEF HitsBounded
    <3>1. matchEnds'[hits[k].label] \in Nat
      <4>1. \A l \in Labels : matchEnds'[l] \in Nat
        BY <1>1, <1>2, SMTT(60) DEF Accept
      <4> QED
        BY <1>4, <4>1
    <3> QED
      BY <1>3, <1>4, <3>1 DEF HitsBounded
  <2>2. HitsDisjoint'
    BY <1>5 DEF HitsDisjoint
  <2> QED
    BY <2>1, <2>2
<1>6. CASE hits' = Append(hits, Hit(u))
  <2>1. /\ Len(hits') = Len(hits) + 1 /\ DOMAIN hits' = 1..Len(hits) + 1
        /\ \A k \in 1..Len(hits) : hits'[k] = hits[k]
        /\ hits'[Len(hits) + 1] = Hit(u)
    BY <1>2, <1>6
  <2>2. Hit(u).start = u.start /\ Hit(u).end = u.end + 1 /\ Hit(u).label = u.label
    BY DEF Hit
  <2>3. HitsBounded'
    <3>1. \A l \in Labels : matchEnds'[l] \in Nat
      BY <1>1, <1>2 DEF Accept
    <3>2. ASSUME NEW k \in 1..Len(hits) PROVE hits'[k].end <= matchEnds'[hits'[k].label]
      BY <1>3, <1>4, <2>1, <3>1, SMTT(60) DEF HitsBounded
    <3>3. Hit(u).end <= matchEnds'[Hit(u).label]
      BY <1>1, <1>3, <2>2
    <3>4. \A k \in DOMAIN hits' : k \in 1..Len(hits) \/ k = Len(hits) + 1
      BY <1>4, <2>1
    <3> QED
      BY <2>1, <3>2, <3>3, <3>4 DEF HitsBounded
  <2>4. \A j \in 1..Len(hits) : hits[j].label = u.label => hits[j].end <= u.start
    BY <1>1, <1>3, <1>4, SMTT(60) DEF HitsBounded
  <2>5. HitsDisjoint'
    <3>1. \A k \in DOMAIN hits' : hits'[k].start < hits'[k].end
      BY <1>1, <1>4, <2>1, <2>2, SMTT(60) DEF HitsDisjoint
    <3>2. ASSUME NEW j \in DOMAIN hits', NEW k \in DOMAIN hits', j < k,
                 hits'[j].label = hits'[k].label
          PROVE  hits'[j].end <= hits'[k].start
      <4>1. CASE k = Len(hits) + 1
        BY <1>4, <2>1, <2>2, <2>4, <3>2, <4>1
      <4>2. CASE k # Len(hits) + 1
        <5>1. j \in 1..Len(hits) /\ k \in 1..Len(hits)
          BY <1>4, <2>1, <3>2, <4>2
        <5>2. hits'[j] = hits[j] /\ hits'[k] = hits[k]
          BY <2>1, <5>1
        <5> QED
          BY <1>4, <3>2, <5>1, <5>2 DEF HitsDisjoint
      <4> QED
        BY <4>1, <4>2
    <3> QED
      BY <3>1, <3>2 DEF HitsDisjoint
  <2> QED
    BY <2>3, <2>5
<1> QED
  BY <1>5, <1>6 DEF Accept

\* Every step preserves the order of the hits and their relation to MatchEnds.
LEMMA HitsNext ==
  ASSUME Inv, HitsInv, [Next]_vars
  PROVE  HitsInv'
<1> USE DEF input, threadVars, flagVars, matchVars, controlVars, bufferVars, clientVars
<1>1. CASE UNCHANGED <<hits, matchEnds, closed, call>>
  BY <1>1 DEF HitsInv, HitsDisjoint, HitsBounded
<1>2. CASE Constructed
  BY <1>2 DEF Constructed, HitsInv, HitsDisjoint, HitsBounded
<1>3. CASE ClientCall
  <2>1. CASE Reset
    BY <2>1 DEF Reset, HitsInv, HitsDisjoint, HitsBounded, Inv, Control
  <2>2. CASE /\ ~closed /\ call = "idle" /\ UNCHANGED <<hits, matchEnds>>
             /\ call' \in {"closeOut", "startsWith"} => closed'
             /\ call' # "construct"
    BY <2>2 DEF HitsInv, HitsDisjoint, HitsBounded
  <2> QED
    BY <1>3, <2>1, <2>2 DEF ClientCall, Search, SearchResolve, StartsWith, CloseOut, Begin
<1>4. CASE ReturnLeftmost
  BY <1>4 DEF ReturnLeftmost, HitsInv, HitsDisjoint, HitsBounded
<1>5. CASE FinishReports
  <2> DEFINE th == active[t]
  <2>1. Fit(th) /\ code[th.pc].op = "FINISH" /\ UNCHANGED <<closed, call>> /\ call # "idle"
    BY <1>5, Running1 DEF FinishReports, At, EpsilonUnchanged, Inv, Control
  <2>2. CASE UNCHANGED <<matchVars, hits>>
    BY <1>1, <2>1, <2>2
  <2>3. CASE th.start >= matchEnds[th.label] /\ Accept(th)
    <3>1. HitsDisjoint' /\ HitsBounded'
      BY <2>1, <2>3, AcceptHits DEF HitsInv
    <3>2. call # "construct"
      BY <2>1, AtFinish DEF Inv, Control
    <3> QED
      BY <2>1, <3>1, <3>2 DEF HitsInv
  <2> QED
    BY <1>5, <2>2, <2>3 DEF FinishReports
<1>6. CASE CloseThread
  <2> DEFINE th == active[t]
  <2>1. /\ Fit(th) /\ UNCHANGED <<closed, call>>
        /\ call \in {"closeOut", "startsWith"} /\ closed
    BY <1>6 DEF CloseThread, Inv, Control, ActiveOK, HitsInv
  <2>2. CASE UNCHANGED <<matchEnds, hits>>
    BY <1>1, <2>1, <2>2
  <2>3. CASE code[th.pc].op = "FINISH" /\ th.start >= matchEnds[th.label] /\ Accept(th)
    <3>1. HitsDisjoint' /\ HitsBounded'
      BY <2>1, <2>3, AcceptHits DEF HitsInv
    <3> QED
      BY <2>1, <3>1 DEF HitsInv
  <2> QED
    BY <1>6, <2>2, <2>3 DEF CloseThread
<1>7. CASE Closed
  <2>1. call \in {"closeOut", "startsWith"}
    BY <1>7 DEF Closed, Inv, Control
  <2> QED
    BY <1>7, <2>1 DEF Closed, HitsInv, HitsDisjoint, HitsBounded
<1>8. CASE UNCHANGED vars
  BY <1>1, <1>8 DEF vars
<1>9. CASE BeginFrame \/ ExecuteThread \/ SpawnThreads \/ Cleanup \/ Settle \/ EndStartsWith
  BY <1>1, <1>9, SMTT(60) DEF BeginFrame, ExecuteThread, SpawnThreads, Cleanup, Settle,
     EndStartsWith
<1>10. CASE FinishWaits \/ Fork \/ Jump \/ CheckHalt \/ Label \/ Match \/ EndSequence
  BY <1>1, <1>10 DEF FinishWaits, Fork, Jump, CheckHalt, Label, Match, EndSequence, EpsilonUnchanged
<1> QED
  BY <1>2, <1>3, <1>4, <1>5, <1>6, <1>7, <1>8, <1>9, <1>10 DEF Next, Step, EpsilonStep

\* The hits that the callback gets for one keyword come in order and never
\* overlap, and none is empty (vm.cpp:297-311, 672-683): for every program, text,
\* division into buffers, and every mix of search, search_resolve, starts_with
\* and closeout.
THEOREM HitsDisjointAlways == Spec => []HitsDisjoint
<1>1. Init => HitsInv
  BY DEF Init, HitsInv, HitsDisjoint, HitsBounded
<1>2. Inv /\ HitsInv /\ [Next]_vars => HitsInv'
  BY HitsNext
<1>3. HitsInv => HitsDisjoint
  BY DEF HitsInv
<1> QED
  BY <1>1, <1>2, <1>3, Invariance, PTL DEF Spec
================================================================================
