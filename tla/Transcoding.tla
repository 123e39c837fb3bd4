------------------------------- MODULE Transcoding -------------------------------
(***************************************************************************)
(* What a client of the library does with one chain of transformations:    *)
(* the parser reads a bracket expression and the builder has the encoder   *)
(* write the class; lg_read_window decodes a hit and its context,          *)
(* lg_hit_context gives them as UTF-8 (src/src/lib/lightgrep_c_util.cpp).  *)
(***************************************************************************)
EXTENDS Decoders, Classes

CONSTANTS
  Chains,       \* the chains in use
  Inputs,       \* what a client has: a chain, items for a class, and a buffer
  CodePoints,   \* the code points the encoders are looked at for
  SingleBytes,  \* the bytes that classes are looked at for
  CaseFolds,    \* the sets of code points that are equal but for case
  Contexts,     \* how many items of context a client asks for
  Replacements, \* the code points shown for what is no character
  UIntMax       \* the largest unsigned int

ASSUME UIntMaxAssumption == UIntMax \in Nat

ASSUME CodePointsAssumption ==
  CodePoints \subseteq 0..CodePointEnd - 1 /\ \A F \in CaseFolds : F \subseteq 0..CodePointEnd - 1

\* The chains that this module knows, and contexts of so many items.
ASSUME ChainsAssumption ==
  /\ \A chain \in Chains :
       /\ chain.rot \in 0..25 /\ chain.bytes \in {"identity", "OCE"}
       /\ chain.encoding \in {"ASCII", "UTF-8", "UTF-16LE", "UTF-16BE", "UTF-32LE", "UTF-32BE"}
  /\ Contexts \subseteq Nat

\* No encoder is without code points that it has a code for.
ASSUME CodesAssumption ==
  /\ \A chain \in Chains : DOMAIN EncoderOf(chain, CodePoints).code # {}
  /\ SingleBytes \subseteq 0..255

\* A text is code points, and -b-1 for a stray byte b; these are its bytes.
TextBytes(chain, text) ==
  LET code == EncoderOf(chain, ToSet(text)).code
  IN FlattenSeq([k \in DOMAIN text |-> IF text[k] < 0 THEN <<-text[k] - 1>> ELSE code[text[k]]])

\* The items and the operators that the parser has, and a buffer of bytes that an unsigned
\* int can count.  It is given as a text, which any buffer is: of stray bytes only, if need be.
ASSUME InputsAssumption ==
  \A i \in Inputs :
    /\ i.chain \in Chains /\ i.buffer \in Seq(0..255) /\ Len(i.buffer) <= UIntMax
    /\ i.text \in Seq(Int) /\ i.buffer = TextBytes(i.chain, i.text)
    /\ \A k \in DOMAIN i.text :
         i.text[k] >= 0 => i.text[k] \in DOMAIN EncoderOf(i.chain, {i.text[k]}).code
    /\ \A x \in i.first \cup i.next : IsClass(x)
    /\ i.operators \subseteq {"union", "and", "minus", "xor"}
    /\ i.closes \subseteq BOOLEAN /\ i.ignoreCase \in BOOLEAN

VARIABLES
  input,    \* the input of this client
  class,    \* the class the parser has so far
  stage,    \* none yet, inside its brackets, with them closed, or refused
  call,     \* the call whose result the client holds, with its arguments
  answer    \* that result

vars == <<input, class, stage, call, answer>>

WindowEnd == -1114113   \* LG_WINDOW_END

NoCall == [name |-> "none"]
NoAnswer == <<>>

Init ==
  /\ input \in Inputs
  /\ class = Class(<<>>, {}, TRUE)
  /\ stage = "none"
  /\ call = NoCall
  /\ answer = NoAnswer

\* EncoderFactory::Cache
EncoderCache == [chain \in Chains |-> EncoderOf(chain, CodePoints)]

\* cc_expr_pos, cc_expr_neg: the first item of a bracket expression ...
FirstItem(x) ==
  /\ stage = "none"
  /\ class' = x
  /\ stage' = "open"
  /\ UNCHANGED <<input, call, answer>>

\* ... and the ones behind it.  A class that is closed may be the first item of another.
NextItem(op, x) ==
  /\ stage \in {"open", "closed"} /\ call = NoCall
  /\ class' = Operated(op, class, x)
  /\ stage' = "open"
  /\ UNCHANGED <<input, call, answer>>

\* charclass: case is closed over when the pattern ignores it.
Folds == IF input.ignoreCase THEN CaseFolds ELSE {}

CloseClass(negated) ==
  /\ stage = "open"
  /\ IF EmptyClass(negated, class, Folds)
     THEN stage' = "refused" /\ UNCHANGED class
     ELSE stage' = "closed" /\ class' = Closed(negated, class, Folds)
  /\ UNCHANGED <<input, call, answer>>

CodesOf(x) ==
  ClassCodes(EncoderCache[input.chain], PointsWithin(x.points, CodePoints), x.bytes, x.additive)

\* NFABuilder::charClass
WriteClass ==
  /\ stage = "closed" /\ call = NoCall
  /\ call' = [name |-> "write"]
  /\ answer' = CodesOf(class)
  /\ UNCHANGED <<input, class, stage>>
-----------------------------------------------------------------------------
IsBad(item) == item.val < 0
\* Faulty variant: a stray byte zero is not bad.
CountBadNotNul(items) == Cardinality({k \in DOMAIN items : items[k].val < -1})
CountBad(items) == Cardinality({k \in DOMAIN items : IsBad(items[k])})

\* A leading context: how many good items are next to the hit, how many bad ones there are.
Lead(items) ==
  LET bad == {k \in DOMAIN items : IsBad(items[k])}
  IN [items |-> items, good |-> Len(items) - Max(bad \cup {0}), invBad |-> UIntMax - Cardinality(bad)]

\* Fewer items than asked for are padded on the left with the bytes in front of l, undecoded.
Padded(buffer, l, decoded, leading) ==
  LET pad == Min({l, Max({0, leading - Len(decoded)})})
  IN [k \in 1..pad |-> BadByte(buffer[l - pad + k], l - pad + k - 1)] \o decoded

\* Decoding from l up to the hit.
LeadingFrom(chain, buffer, l, hbeg, leading) ==
  Lead(Padded(buffer, l, Items(chain, buffer, l, hbeg), leading))

\* The candidate, unless the best so far is better.
NotWorse(x, best) ==
  IF x.good > best.good \/ (x.good = best.good /\ x.invBad >= best.invBad) THEN x ELSE best

\* Faulty variant: as many starts as items, however long these are.
StartsTriedByItem(chain, hbeg, leading) == Min({hbeg, leading})

\* How many starts in front of the hit are tried: enough for the longest codes.
StartsTried(chain, hbeg, leading) == Min({hbeg, leading * MaxByteLength(chain)})

\* The best of the starts, tried backwards from the hit; none gives the initial maxima.
Leading(chain, buffer, hbeg, leading) ==
  LET tried == StartsTried(chain, hbeg, leading)
      Best[n \in 0..tried] ==
        IF n = 0 THEN [items |-> <<>>, good |-> 0, invBad |-> 0]
        ELSE NotWorse(LeadingFrom(chain, buffer, hbeg - n, hbeg, leading), Best[n - 1])
  IN Best[tried]

LastOf(s, n) == SubSeq(s, Max({1, Len(s) - n + 1}), Len(s))

\* Faulty variant: the item at the end of the hit belongs to it.
HitLengthThrough(items, end) == Cardinality({k \in DOMAIN items : items[k].at <= end})

\* How many items start before the end of the hit.
HitLength(items, end) == Cardinality({k \in DOMAIN items : items[k].at < end})

\* A window of a leading context, a hit and as much as asked for of the rest, which was read
\* up to top.  The loop over the trailing context runs to the end when it starts at zero.
Taken(rest, trailing) == IF trailing = 0 THEN Len(rest) ELSE Min({trailing, Len(rest)})

Window(front, invBad, hit, rest, taken, top) ==
  LET back == hit \o SubSeq(rest, 1, taken)
  IN [items |-> front \o back
                \o <<Item(WindowEnd, IF taken < Len(rest) THEN rest[taken + 1].at ELSE top)>>,
      begin |-> Len(front), end |-> Len(front) + Len(hit),
      bad |-> (UIntMax - invBad + CountBad(back)) % (UIntMax + 1)]

WindowAround(lead, leading, hit, rest, trailing, top) ==
  Window(LastOf(lead.items, leading), lead.invBad, hit, rest, Taken(rest, trailing), top)

WithTrailing(lead, leading, all, hend, trailing, top) ==
  LET length == HitLength(all, hend)
  IN WindowAround(lead, leading, SubSeq(all, 1, length), SubSeq(all, length + 1, Len(all)),
                  trailing, top)

\* decode
Decode(chain, buffer, hbeg, hend, leading, trailing) ==
  LET top == Min({hend + trailing * MaxByteLength(chain), Len(buffer)})
  IN WithTrailing(Leading(chain, buffer, hbeg, leading), leading,
                  Items(chain, buffer, hbeg, top), hend, trailing, top)

\* lg_read_window, for bbeg <= hbeg <= hend <= bend
ReadWindow(hbeg, hend, leading, trailing) ==
  /\ call = NoCall
  /\ 0 <= hbeg /\ hbeg <= hend /\ hend <= Len(input.buffer)
  /\ call' = [name |-> "read", begin |-> hbeg, end |-> hend,
              leading |-> leading, trailing |-> trailing]
  /\ answer' = Decode(input.chain, input.buffer, hbeg, hend, leading, trailing)
  /\ UNCHANGED <<input, class, stage>>

\* cp_to_utf8 gives nothing for what is no code point.
CpToUtf8(cp) == IF IsUnicode(cp) THEN Utf8Bytes(cp) ELSE <<>>

\* Faulty variant: NUL is kept.
CpRangeToUtf8WithNul(items, replacement) ==
  FlattenSeq([k \in DOMAIN items |->
                CpToUtf8(IF items[k].val < 0 THEN replacement ELSE items[k].val)])

\* cp_range_to_utf8: bad items and NUL, which would end the string, are replaced.
CpRangeToUtf8(items, replacement) ==
  FlattenSeq([k \in DOMAIN items |->
                CpToUtf8(IF items[k].val <= 0 THEN replacement ELSE items[k].val)])

\* A window in three parts of UTF-8, with the range of the buffer it was read from.
ContextOf(window, before, hit, after) ==
  [utf8 |-> before \o hit \o after \o <<0>>,
   outer |-> <<Head(window.items).at, Last(window.items).at>>,
   begin |-> Len(before), end |-> Len(before) + Len(hit), bad |-> window.bad]

Shown(window, replacement) ==
  LET Utf8(from, to) == CpRangeToUtf8(SubSeq(window.items, from + 1, to), replacement)
  IN ContextOf(window, Utf8(0, window.begin), Utf8(window.begin, window.end),
               Utf8(window.end, Len(window.items) - 1))

\* lg_hit_context
HitContext(hbeg, hend, windowSize, replacement) ==
  /\ call = NoCall
  /\ 0 <= hbeg /\ hbeg <= hend /\ hend <= Len(input.buffer)
  /\ call' = [name |-> "context", begin |-> hbeg, end |-> hend, leading |-> windowSize,
              trailing |-> windowSize, replacement |-> replacement]
  /\ answer' = Shown(Decode(input.chain, input.buffer, hbeg, hend, windowSize, windowSize),
                     replacement)
  /\ UNCHANGED <<input, class, stage>>

\* lg_free_window_characters, lg_free_window_offsets, lg_free_hit_context_string
Free ==
  /\ call # NoCall
  /\ call' = NoCall
  /\ answer' = NoAnswer
  /\ UNCHANGED <<input, class, stage>>

Next ==
  \/ \E x \in input.first : FirstItem(x)
  \/ \E op \in input.operators, x \in input.next : NextItem(op, x)
  \/ \E negated \in input.closes : CloseClass(negated)
  \/ WriteClass
  \/ \E hbeg, hend \in 0..Len(input.buffer), leading, trailing \in Contexts :
       ReadWindow(hbeg, hend, leading, trailing)
  \/ \E hbeg, hend \in 0..Len(input.buffer), size \in Contexts, replacement \in Replacements :
       HitContext(hbeg, hend, size, replacement)
  \/ Free

Spec == Init /\ [][Next]_vars
-----------------------------------------------------------------------------
\* The bounds of a class are those of disjoint ranges that do not touch: RangeSet compares
\* sets, and counts members, by the bounds.  Its operators are those of sets.
ClassIsSet ==
  LET Set(x) == PointsWithin(x.points, CodePoints)
      Count(x) == CountPoints(x.points)
  IN /\ IsClass(class)
     /\ \A x \in input.next :
          /\ Set(Operated("union", class, x)) = Set(class) \cup Set(x)
          /\ Set(Operated("and", class, x)) = Set(class) \cap Set(x)
          /\ Set(Operated("minus", class, x)) = Set(class) \ Set(x)
          /\ Set(Operated("xor", class, x)) = (Set(class) \ Set(x)) \cup (Set(x) \ Set(class))
          /\ Count(Operated("union", class, x)) + Count(Operated("and", class, x))
               = Count(class) + Count(x)

\* Do codes, which are sequences of byte sets, accept a sequence of bytes?
Fits(code, s) == Len(code) = Len(s) /\ \A j \in DOMAIN s : s[j] \in code[j]
Accepts(codes, s) == \E k \in DOMAIN codes : Fits(codes[k], s)

\* The sequences that classes are looked at for: every code of the chain, those one byte away
\* from it, and some bytes by themselves.
OneByteAway(e) ==
  UNION {{s} \cup {[s EXCEPT ![k] = (@ + d) % 256] : k \in DOMAIN s, d \in {1, 255}} :
           s \in {e.code[c] : c \in DOMAIN e.code}}
Samples == [chain \in Chains |-> OneByteAway(EncoderCache[chain]) \cup {<<b>> : b \in SingleBytes}]

\* What the decoder of a chain reads a whole sequence as: one code point, or none.
None == -1
ReadAs(chain, s) ==
  LET items == Items(chain, s, 0, Len(s))
  IN IF Len(items) = 1 /\ ~IsBad(items[1]) THEN items[1].val ELSE None

\* The codes written for a class are those, and only those, that the decoder of the
\* chain reads as a code point of the class, whatever the ranges and the blocks they were
\* collected in; of one byte, the breakout bytes too, or none of them.
CodesExact ==
  call.name = "write" =>
    \A s \in Samples[input.chain] :
      LET c == ReadAs(input.chain, s)
          isChar == c \in PointsWithin(class.points, CodePoints)
          isByte == Len(s) = 1 /\ s[1] \in class.bytes
      IN c \in CodePoints \cup {None} =>
           (Accepts(answer, s) <=> IF class.additive THEN isChar \/ isByte ELSE isChar /\ ~isByte)

\* Between [...] and [^...] no code is accepted by both; with code points in the brackets,
\* and no class among them that was negated with bytes, the code of a character is accepted
\* by one of them.  With case ignored the two are closed over case before they are negated.
NegationComplements ==
  LET Written(negated) ==
        IF EmptyClass(negated, class, Folds) THEN <<>> ELSE CodesOf(Closed(negated, class, Folds))
      whole == class.points # <<>> /\ class.additive
      Complements(within, without) ==
        \A s \in Samples[input.chain] :
          IF Accepts(within, s) THEN ~Accepts(without, s)
          ELSE whole /\ ~Accepts(without, s) => ReadAs(input.chain, s) \notin CodePoints
  IN stage = "open" /\ TRUE \in input.closes => Complements(Written(FALSE), Written(TRUE))

\* The hit of a window is the items that start within the hit, the first at its start.
HitDecoded ==
  call.name = "read" =>
    LET at == [k \in DOMAIN answer.items |-> answer.items[k].at]
    IN /\ \A k \in DOMAIN at : k - 1 \in answer.begin..answer.end - 1
                                 <=> at[k] >= call.begin /\ at[k] < call.end
       /\ call.begin < call.end => at[answer.begin + 1] = call.begin

\* Does an item stand for the bytes up to the next one: a character for its code, a bad item
\* for one byte, as it is in the buffer or as the decoder undid it?
Covers(chain, buffer, item, next) ==
  LET bytes == SubSeq(buffer, item.at + 1, next)
      code  == EncoderOf(chain, {item.val}).code
  IN IF IsBad(item) THEN Len(bytes) = 1 /\ -item.val - 1 \in {bytes[1], Undone(chain, bytes[1])}
     ELSE item.val \in DOMAIN code /\ bytes = code[item.val]

\* The items of a window lie side by side: a character fills the bytes up to the next
\* item with its code, what is bad fills one byte.
ItemsTile ==
  call.name = "read" =>
    \A k \in 1..Len(answer.items) - 1 :
      Covers(input.chain, input.buffer, answer.items[k], answer.items[k + 1].at)

BadItems == Cardinality({k \in 1..Len(answer.items) - 1 : IsBad(answer.items[k])})

\* lg_read_window returns the number of bad items in its window, when there was
\* something to decode in front of the hit.
BadCounted ==
  call.name = "read" /\ call.begin > 0 /\ call.leading > 0 => answer.bad = BadItems

\* The offsets at which the pieces of a text start, and its end.
PieceStarts ==
  [k \in 1..Len(input.text) + 1 |-> Len(TextBytes(input.chain, SubSeq(input.text, 1, k - 1)))]

\* A hit on whole characters of a text of characters has as its window the characters
\* before it, it and after it: where decoding begins in front of the hit, and how many
\* bytes it reads behind it, does not show.
ContextIsText ==
  call.name = "read" /\ (\A k \in DOMAIN input.text : input.text[k] >= 0) =>
    \A i, j \in DOMAIN PieceStarts :
      i <= j /\ PieceStarts[i] = call.begin /\ PieceStarts[j] = call.end =>
        LET from == Max({1, i - call.leading})
            to   == Min({Len(input.text), j - 1 + call.trailing})
        IN /\ [k \in 1..Len(answer.items) - 1 |-> answer.items[k].val] = SubSeq(input.text, from, to)
           /\ answer.begin = i - from /\ answer.end = j - from

\* A context shows a window: what is bad or NUL replaced, the hit in its place.
ShowsWindow(context, window, replacement) ==
  LET InUtf8(from, to) ==
        LET items == Items(Chain(0, "UTF-8", "identity"), context.utf8, from, to)
        IN [k \in DOMAIN items |-> items[k].val]
      Wanted(from, to) ==
        [k \in 1..to - from |-> LET v == window.items[from + k].val
                                IN IF v > 0 THEN v ELSE replacement]
      length == Len(context.utf8)
  IN /\ InUtf8(0, context.begin) = Wanted(0, window.begin)
     /\ InUtf8(context.begin, context.end) = Wanted(window.begin, window.end)
     /\ InUtf8(context.end, length - 1) = Wanted(window.end, Len(window.items) - 1)
     /\ {k \in 1..length : context.utf8[k] = 0} = {length}

\* The context shown to a user is the window with what is bad or NUL replaced by a code
\* point that is neither: as many UTF-8 characters, and the hit in its place among them.
ContextShown ==
  call.name = "context" /\ IsUnicode(call.replacement) /\ call.replacement # 0 =>
    ShowsWindow(answer,
      Decode(input.chain, input.buffer, call.begin, call.end, call.leading, call.trailing),
      call.replacement)
=============================================================================
