----------------------------- MODULE Serialization -----------------------------
(***************************************************************************)
(* Programs as bytes: PatternMap and Program marshall and unmarshall       *)
(* (pattern_map.cpp, program.cpp), and lg_write_program and                *)
(* lg_read_program that put one after the other (lightgrep_c_api.cpp).     *)
(*                                                                         *)
(* Memory is a sequence of bytes; addresses count from 0.  A string is a   *)
(* sequence of bytes that are not 0.  Numbers are little endian.           *)
(***************************************************************************)
EXTENDS Integers, Sequences, SequencesExt, FiniteSetsExt

CONSTANTS
  FilterBits,     \* the size of the filter, 256 * 256 in the code
  LargestNumber   \* the largest number looked at, that of an unsigned int in the code

ASSUME NumbersAssumption ==
  /\ FilterBits \in Nat /\ FilterBits % 8 = 0
  /\ LargestNumber \in Nat /\ ((LargestNumber \div 256) \div 256) \div 256 \in 0..255

Byte == 0..255
Char == 1..255          \* of a string, that ends at its zero

InstructionBytes == 4
HeaderBytes == 12       \* MaxLabel, MaxCheck, FilterOff
Size32 == 4
Size64 == 8

\* What reading outside a buffer gives: no number, no string, no instructions.
NoNumber == -1
NoString == <<NoNumber>>
NoCode == <<NoString>>

\* Numbers are of four bytes at most, whatever their size.
LittleEndian(n, size) ==
  LET n2 == n \div 256  n3 == n2 \div 256  n4 == n3 \div 256
  IN [k \in 1..size |-> IF k <= 4 THEN <<n, n2, n3, n4>>[k] % 256 ELSE 0]
String(s) == Append(s, 0)

\* What an int and an unsigned int hold of a number: they wrap.
LargestInt == LargestNumber \div 2
AsInt(n) == ((n + LargestInt + 1) % (2 * (LargestInt + 1))) - (LargestInt + 1)
AsUnsigned(n) == n % (LargestNumber + 1)

\* A number of `size' bytes at an address; one beyond LargestNumber is not told from it.
Capped(n) == IF n < LargestNumber THEN n ELSE LargestNumber
NumberAt(buf, at, size) ==
  IF at + size > Len(buf) THEN NoNumber
  ELSE IF \E k \in 5..size : buf[at + k] # 0 THEN LargestNumber
  ELSE Capped(buf[at + 1] + 256 * Capped(buf[at + 2] + 256 * Capped(buf[at + 3] + 256 * buf[at + 4])))

StringAt(buf, at) ==
  LET ends == {k \in at..Len(buf) - 1 : buf[k + 1] = 0}
  IN IF ends = {} THEN NoString ELSE SubSeq(buf, at + 1, Min(ends))

-----------------------------------------------------------------------------
\* PatternMap: a pattern, its encoding chain and the client's index for each label.
MarshallInfo(info) ==
  String(info.pattern) \o String(info.chain) \o LittleEndian(info.userIndex, Size64)

MarshallPatterns(pmap) == FlattenSeq([i \in DOMAIN pmap |-> MarshallInfo(pmap[i])])

\* PatternMap::bufSize, which sums up the sizes in an int.
InfoSize(info) == Len(info.pattern) + 1 + Len(info.chain) + 1 + Size64
PatternsSize(pmap) ==
  LET Sized[n \in 0..Len(pmap)] == IF n = 0 THEN 0 ELSE AsInt(Sized[n - 1] + InfoSize(pmap[n]))
  IN Sized[Len(pmap)]

\* PatternMap::unmarshall: the entries point at their strings in the buffer.  Behind the
\* buffer, where the code would read on, there are none.
EntryAt(buf, at) ==
  LET chainAt == at + Len(StringAt(buf, at)) + 1
  IN [pattern |-> at, chain |-> chainAt,
      userIndex |-> NumberAt(buf, chainAt + Len(StringAt(buf, chainAt)) + 1, Size64)]

EntryEnd(buf, at) ==
  LET chainAt == EntryAt(buf, at).chain IN chainAt + Len(StringAt(buf, chainAt)) + 1 + Size64

UnmarshallPatterns(buf, from, end) ==
  LET Entries[at \in Nat] ==
        IF at >= end \/ at >= Len(buf) THEN <<>>
        ELSE <<EntryAt(buf, at)>> \o Entries[EntryEnd(buf, at)]
  IN Entries[from]

-----------------------------------------------------------------------------
\* Program: three numbers, the filter packed into bytes, the instructions.
Bit(filter, b) == IF b \in filter THEN 1 ELSE 0
PackByteReversed(filter, n) ==      \* faulty, for the sensitivity checks
  Bit(filter, n + 7) + 2 * Bit(filter, n + 6) + 4 * Bit(filter, n + 5) + 8 * Bit(filter, n + 4)
  + 16 * Bit(filter, n + 3) + 32 * Bit(filter, n + 2) + 64 * Bit(filter, n + 1)
  + 128 * Bit(filter, n)

PackByte(filter, n) ==
  Bit(filter, n) + 2 * Bit(filter, n + 1) + 4 * Bit(filter, n + 2) + 8 * Bit(filter, n + 3)
  + 16 * Bit(filter, n + 4) + 32 * Bit(filter, n + 5) + 64 * Bit(filter, n + 6)
  + 128 * Bit(filter, n + 7)

MarshallProgram(prog) ==
  LittleEndian(prog.maxLabel, Size32) \o LittleEndian(prog.maxCheck, Size32)
  \o LittleEndian(prog.filterOff, Size32)
  \o [k \in 1..FilterBits \div 8 |-> PackByte(prog.filter, 8 * (k - 1))]
  \o FlattenSeq(prog.code)

\* Program::bufSize
ProgramSize(prog) == HeaderBytes + FilterBits \div 8 + Len(prog.code) * InstructionBytes

Mask == <<1, 2, 4, 8, 16, 32, 64, 128>>

\* Program::unmarshall: the instructions stay in the buffer, at `code'.
UnmarshallProgram(buf, at, len) ==
  LET filterAt == at + HeaderBytes
      codeAt == filterAt + FilterBits \div 8
      set(b) == (buf[filterAt + (b \div 8) + 1] \div Mask[(b % 8) + 1]) % 2 = 1
  IN [maxLabel |-> NumberAt(buf, at, Size32),
      maxCheck |-> NumberAt(buf, at + 4, Size32),
      filterOff |-> NumberAt(buf, at + 8, Size32),
      filter |-> IF codeAt > Len(buf) THEN {} ELSE {b \in 0..FilterBits - 1 : set(b)},
      code |-> codeAt,
      size |-> (len - (codeAt - at)) \div InstructionBytes]

-----------------------------------------------------------------------------
\* lg_program_size, and what lg_write_program stores.  It marshalls the patterns into a
\* buffer of bufSize bytes, and beyond it where that wraps.
ProgramHandleSize(pmap, prog) ==
  AsUnsigned(Size64 + PatternsSize(pmap) + Size64 + ProgramSize(prog))

WriteProgram(pmap, prog) ==
  LET patterns == MarshallPatterns(pmap)
      code == MarshallProgram(prog)
  IN LittleEndian(Len(patterns), Size64) \o patterns \o LittleEndian(Len(code), Size64) \o code

\* lg_read_program trusts the sizes it finds in the buffer.
ReadProgram(buf) ==
  LET pmapSize == NumberAt(buf, 0, Size64)
      progAt == Size64 + pmapSize
      progSize == NumberAt(buf, progAt, Size64)
  IN [pmap |-> UnmarshallPatterns(buf, Size64, progAt),
      prog |-> UnmarshallProgram(buf, progAt + Size64, progSize)]

\* What a client sees of a handle whose strings and instructions are in a buffer.
InfoOf(buf, info) ==
  [pattern |-> StringAt(buf, info.pattern), chain |-> StringAt(buf, info.chain),
   userIndex |-> info.userIndex]

CodeOf(buf, prog) ==
  IF prog.size < 0 \/ prog.code + prog.size * InstructionBytes > Len(buf) THEN NoCode
  ELSE [i \in 1..prog.size |->
          SubSeq(buf, prog.code + (i - 1) * InstructionBytes + 1, prog.code + i * InstructionBytes)]

ProgramOf(buf, prog) ==
  [maxLabel |-> prog.maxLabel, maxCheck |-> prog.maxCheck, filterOff |-> prog.filterOff,
   filter |-> prog.filter, code |-> CodeOf(buf, prog)]
=============================================================================
