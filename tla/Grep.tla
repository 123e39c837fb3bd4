---------------------------------- MODULE Grep ----------------------------------
(***************************************************************************)
(* What a search context promises (include/lightgrep/api.h, lg_search,     *)
(* lg_closeout_search, lg_search_resolve, lg_starts_with): however the     *)
(* stream is cut into buffers, each keyword gets its own hits, in order,   *)
(* each as soon as or after the bytes that settle it were given, and once  *)
(* the stream is closed out all of them.  A buffer may also be searched at *)
(* its first byte only, and the stream is then closed.                     *)
(***************************************************************************)
EXTENDS Integers, Sequences

CONSTANTS
  Keywords(_),        \* the keywords of a program id
  Expected(_, _, _, _), \* hits of id's keyword l in a text, starting at most at last
  GivesUp(_, _)       \* a buffer of n bytes is too short for lg_starts_with of id to look at

VARIABLES
  id, text,
  given,    \* how many bytes of the text the client has given
  lastStart, \* hits start before this offset, or -1: anywhere; of no use once closed
  found,    \* keyword -> hits reported
  phase     \* "open", "closing", "closed"

vars == <<id, text, given, lastStart, found, phase>>

\* The hits of l when the stream ends after n bytes.
HitsIn(l, n) ==
  Expected(id, l, SubSeq(text, 1, n), (IF lastStart = -1 THEN n ELSE lastStart) - 1)

Init ==
  /\ given = 0 /\ lastStart = -1
  /\ found = [l \in Keywords(id) |-> <<>>]
  /\ phase = "open"

Feed ==
  /\ phase = "open"
  /\ given' \in given..Len(text)
  /\ \/ lastStart' = lastStart
     \/ lastStart = -1 /\ lastStart' = given   \* from here on, only finish what began
  /\ UNCHANGED <<id, text, found, phase>>

\* While the stream is open a hit is reported only if it stands whatever follows.
Report(l) ==
  /\ phase \in {"open", "closing"}
  /\ \E h \in {HitsIn(l, given)[k] : k \in {Len(found[l]) + 1} \cap DOMAIN HitsIn(l, given)} :
       /\ found' = [found EXCEPT ![l] = Append(@, h)]
       /\ phase = "open" =>
            \A n \in given..Len(text) :
               /\ Len(HitsIn(l, n)) > Len(found[l])
               /\ HitsIn(l, n)[Len(found[l]) + 1] = h
  /\ UNCHANGED <<id, text, given, lastStart, phase>>

Close == phase = "open" /\ phase' = "closing" /\ UNCHANGED <<id, text, given, lastStart, found>>

Finish ==
  /\ phase = "closing"
  /\ \A l \in Keywords(id) : found[l] = HitsIn(l, given)
  /\ phase' = "closed" /\ lastStart' = -1
  /\ UNCHANGED <<id, text, given, found>>

\* The hits at the first byte are reported, or seen at once not to be there.
StartsWith ==
  /\ phase = "open" /\ given = 0
  /\ given' \in 1..Len(text)
  /\ \/ phase' = "closing" /\ lastStart' = 1
     \/ /\ \/ GivesUp(id, given')
           \/ \A l \in Keywords(id) : Expected(id, l, SubSeq(text, 1, given'), 0) = <<>>
        /\ phase' = "closed" /\ lastStart' = -1
  /\ UNCHANGED <<id, text, found>>

Restart ==
  /\ given' = 0 /\ lastStart' = -1
  /\ found' = [l \in Keywords(id) |-> <<>>]
  /\ phase' = "open"
  /\ UNCHANGED <<id, text>>

Next == Feed \/ StartsWith \/ Close \/ Finish \/ Restart \/ \E l \in Keywords(id) : Report(l)

Spec == Init /\ [][Next]_vars
=============================================================================
