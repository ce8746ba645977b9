--------------------------- MODULE MCBTreeWriter ---------------------------
(***************************************************************************)
(* Small instances of BTreeWriter.  Keys are given as byte strings; ranks, *)
(* lengths and prefixes are computed from them.                            *)
(***************************************************************************)
EXTENDS BTreeWriter, ByteKeys

CONSTANT
  ByteStrings   (* the keys, as byte strings *)

Universe == {<<>>} \cup UNION {PrefixesOf(s) : s \in ByteStrings}

RankOf == [s \in Universe |-> Rank(Universe, s)]

MCStrings == 0 .. Cardinality(Universe) - 1
MCKeys == {RankOf[s] : s \in ByteStrings}

StringOf == [r \in MCStrings |-> CHOOSE s \in Universe : RankOf[s] = r]

MCKeyLen == [r \in MCStrings |-> Len(StringOf[r])]

\* A value is the number of its bytes.
MCValLen == [v \in Values |-> v]

\* (What it gives for a pair in the wrong order is of no use to anyone.)
MCPfx ==
  [a \in MCStrings |-> [b \in MCStrings |->
     IF a < b
     THEN RankOf[Truncated(StringOf[b], BtDefpfx(StringOf[a], StringOf[b]))]
     ELSE b]]

\* A short key, the empty key and eight-byte keys that differ at their first,
\* fifth or last byte.  With Psize 68 a leaf holds two long or three short
\* entries and an internal page two or three separators.
MixedKeys ==
  { <<>>, <<2>>, <<1, 0, 0, 0, 0, 0, 0, 0>>,
    <<2, 1, 0, 0, 0, 0, 0, 0>>, <<2, 1, 0, 0, 1, 0, 0, 0>> }

\* Keys that only their eighth byte tells apart: their separators stay long,
\* and the tree gets three levels with few keys.
LongKeys == { <<1, 0, 0, 0, 0, 0, 0, i>> : i \in 0 .. 5 }

\* Fewer of them, for entries of two sizes.
FewLongKeys == { <<1, 0, 0, 0, 0, 0, 0, i>> : i \in 0 .. 4 }

\* Sixteen-byte keys, whose separators take more than half a page, among
\* short ones.
HugeKeys ==
  { <<1>>, <<2>>,
    <<3, 0, 0, 0, 0, 0, 0, 0, 0, 0, 0, 0, 0, 0, 0, 0>>,
    <<3, 0, 0, 0, 0, 0, 0, 0, 0, 0, 0, 0, 0, 0, 0, 1>>,
    <<3, 0, 0, 0, 0, 0, 0, 0, 0, 0, 0, 0, 0, 0, 0, 2>> }
=============================================================================
