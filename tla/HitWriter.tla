------------------------------- MODULE HitWriter -------------------------------
(***************************************************************************)
(* The callbacks that write hits (src/cmd/hitwriter.cpp).  A buffer is a   *)
(* sequence of bytes of which only line ends are told apart; offsets in it *)
(* count from 0.  Offsets in the input are unsigned and wrap at OffsetSize *)
(* (2^64 in the code).                                                     *)
(***************************************************************************)
EXTENDS Integers, Sequences, FiniteSets

CONSTANT OffsetSize
ASSUME OffsetSizeAssumption == OffsetSize \in Nat \ {0}

NL == "\n"
CR == "\r"

LineEnds(b, from, to) == {p \in from..to - 1 : b[p + 1] = NL}

\* The byte after the (lines+1)st line end to the left of hbeg, or the start of b.
FindLeadingContext(b, hbeg, lines) ==
  LET nls == LineEnds(b, 0, hbeg)
  IN IF Cardinality(nls) <= lines
     THEN 0
     ELSE 1 + CHOOSE p \in nls : Cardinality({q \in nls : q > p}) = lines

\* Faulty, for the sensitivity checks: one line end too many is skipped.
FindTrailingContextLong(b, before, hend, lines) ==
  LET nls == LineEnds(b, hend, Len(b))
      rnl == IF Cardinality(nls) <= lines + 1
             THEN Len(b)
             ELSE CHOOSE p \in nls : Cardinality({q \in nls : q < p}) = lines + 1
      prev == IF rnl = 0 THEN before ELSE b[rnl]
  IN IF rnl # Len(b) /\ prev = CR THEN rnl - 1 ELSE rnl

\* The (lines+1)st line end to the right of hend, or the end of b; one byte less
\* when a CR comes before it.  The byte looked at is `before', the one in front of
\* the buffer, when the line end is the buffer's first byte.
FindTrailingContext(b, before, hend, lines) ==
  LET nls == LineEnds(b, hend, Len(b))
      rnl == IF Cardinality(nls) <= lines
             THEN Len(b)
             ELSE CHOOSE p \in nls : Cardinality({q \in nls : q < p}) = lines
      prev == IF rnl = 0 THEN before ELSE b[rnl]
  IN IF rnl # Len(b) /\ prev = CR THEN rnl - 1 ELSE rnl

\* writeLineContext: a hit's bounds in the buffer that starts at boff, and the
\* bounds there of its context.
HitBegin(boff, hit) == IF hit.start < boff THEN 0 ELSE hit.start - boff

HitEnd(b, boff, hit) ==
  LET wrapped == (hit.end - boff) % OffsetSize
  IN IF wrapped < Len(b) THEN wrapped ELSE Len(b)

LineContext(b, before, boff, hit, opts) ==
  LET lines(n) == IF n > 0 THEN n ELSE 0
  IN [begin |-> boff + FindLeadingContext(b, HitBegin(boff, hit), lines(opts.before)),
      end |-> boff + FindTrailingContext(b, before, HitEnd(b, boff, hit), lines(opts.after))]

\* The writer that search() picks for the options.
Counts(opts) == opts.noOutput
WritesContext(opts) == ~opts.noOutput /\ (opts.before > -1 \/ opts.after > -1)
WritesPath(opts) == ~opts.noOutput /\ opts.printPath

\* writeGroupSeparator's condition: with -A 0 or -B 0 no line is written between
\* groups.
SeparatesGroups(opts) == WritesContext(opts) /\ (opts.before > 0 \/ opts.after > 0)

\* What a context is to be, for a hit at s..e of a text c of which from..to is at
\* hand: the bytes of the lines from `up' above the hit's first to `down' below its
\* last, without the end of the last one.
LineNo(c, from, p) == Cardinality({q \in from..p - 1 : c[q + 1] = NL})

TextAround(c, from, to, s, e, up, down) ==
  LET no(p) == LineNo(c, from, p)
      bottom == no(e) + down
      lines == {p \in from..to - 1 : no(s) - up <= no(p) /\ no(p) <= bottom}
      isEnd(p) ==
        /\ no(p) = bottom
        /\ c[p + 1] = NL \/ (c[p + 1] = CR /\ p + 1 \in lines /\ c[p + 2] = NL)
  IN {p \in lines : ~isEnd(p)}
=============================================================================
