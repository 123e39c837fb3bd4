------------------------------ MODULE MCTranscoding ------------------------------
(***************************************************************************)
(* Model values for Transcoding: texts of characters of every length and   *)
(* of bytes that are none, under every encoding, and items for classes.    *)
(***************************************************************************)
EXTENDS Transcoding

CONSTANTS
  TextLength,   \* pieces of the longer texts, all characters
  JunkLength    \* pieces of the texts of characters and stray bytes

\* Tables that stand for those of OCE.
MCOCE   == [b \in 0..255 |-> (b + 101) % 256]
MCunOCE == [b \in 0..255 |-> (b + 155) % 256]

Encodings == {"UTF-8", "UTF-16LE", "UTF-16BE", "UTF-32LE", "UTF-32BE"}
MCChains == {Chain(0, e, "identity") : e \in Encodings \cup {"ASCII"}}
            \cup {Chain(13, "UTF-8", "identity"), Chain(0, "UTF-16LE", "OCE"), Chain(7, "ASCII", "OCE")}

\* The chains whose characters differ in length: their texts are longer.
LongChains == {Chain(0, "UTF-8", "identity"), Chain(0, "UTF-16LE", "identity")}

\* One to four bytes of UTF-8, one and two units of UTF-16; 65 is a letter.
Characters(encoding) == IF encoding = "ASCII" THEN {0, 65, 90} ELSE {65, 233, 8364, 128512}
StrayBytes(encoding) == IF encoding = "ASCII" THEN {128} ELSE {0, 169, 216}

SequencesUpTo(S, n) == UNION {[1..k -> S] : k \in 1..n}

\* An input for windows is a chain and a text.
InputOf(chain, text) ==
  [chain |-> chain, ignoreCase |-> FALSE,
   first |-> {}, next |-> {}, operators |-> {}, closes |-> {}, text |-> text,
   buffer |-> TextBytes(chain, text)]

Pieces(encoding) == Characters(encoding) \cup {-b - 1 : b \in StrayBytes(encoding)}

TextInputs ==
  {InputOf(chain, text) : chain \in LongChains, text \in SequencesUpTo(Characters("UTF-8"), TextLength)}
  \cup UNION {{InputOf(chain, text) : text \in SequencesUpTo(Pieces(chain.encoding), JunkLength)}
                : chain \in MCChains}

\* Code points around every place where a length or a block of codes changes, and letters.
Edges == {0, 64, 128, 192, 256, 2048, 55296, 57344, 65536, 66560, 1114112}
Letters == {32, 48, 66, 97, 98, 122}
MCCodePoints == Letters \cup {c \in UNION {e - 3..e + 2 : e \in Edges} : c \in 0..1114111}

MCCaseFolds == {{65, 97}}

Items2(x, y) == Operated("union", x, y)

\* Classes for every chain: from one edge to another, with and without a code point inside.
ClassInputs ==
  {[chain |-> chain, ignoreCase |-> FALSE, text |-> <<>>, buffer |-> <<>>,
    first |-> {RangeAtom(e[1], e[2] - 1) : e \in {f \in Edges \X Edges : f[1] < f[2]}}
              \cup {NamedAtom(letter) : letter \in {"d", "D", "s", "S", "h", "H", "v", "V", "w", "W"}}
              \cup {CharHyphenClass(97, NamedAtom("w")), ByteHyphenClass(254, NamedAtom("W")),
                   ByteRangeAtom(66, 97), ByteRangeAtom(1, 6), ByteRangeAtom(3, 255)},
    next |-> {Items2(CharAtom(65), Items2(CharAtom(2049), CharAtom(65537)))},
    operators |-> {"minus"}, closes |-> {FALSE}] : chain \in MCChains}

\* Items for every class that can be built from them: letters, bytes, a nested class.
SomeItems ==
  {CharAtom(97), RangeAtom(65, 90), ByteAtom(255),
   Negative(Items2(CharAtom(98), ByteAtom(255)), {})}

AlgebraInputs ==
  {[chain |-> Chain(0, "UTF-8", "identity"), ignoreCase |-> ignoreCase, text |-> <<>>, buffer |-> <<>>,
    first |-> SomeItems, next |-> SomeItems, operators |-> {"union", "and", "minus", "xor"},
    closes |-> BOOLEAN] : ignoreCase \in BOOLEAN}

MCInputs == TextInputs \cup ClassInputs \cup AlgebraInputs
-----------------------------------------------------------------------------
\* The same, of every window: "ebad = count_if(...)", "SCOPE_ASSERT_EQUAL(ebad, abad)"
\* (test/test_c_util.cpp:86-90).
BadAlwaysCounted == call.name = "read" => answer.bad = BadItems
=============================================================================
