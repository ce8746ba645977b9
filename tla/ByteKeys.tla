------------------------------ MODULE ByteKeys ------------------------------
(***************************************************************************)
(* Byte strings, their order, and the prefix rule the writer uses to       *)
(* shorten separators.  A byte string is a sequence of naturals.           *)
(*                                                                         *)
(* The tree modules do not look inside a key: they only compare keys, ask  *)
(* for their length, and shorten one key against another.  They therefore  *)
(* take a key to be its RANK in the order defined here (the empty string   *)
(* has rank 0), and their model-checking modules compute the ranks from    *)
(* real byte strings with the operators below.                             *)
(***************************************************************************)
EXTENDS Integers, Sequences, FiniteSets

\* <[u8] as Ord>::cmp: the first differing byte decides, and a proper prefix
\* is the smaller string.  The same order is __bt_defcmp's.
Precedes(a, b) ==
  \/ Len(a) < Len(b) /\ SubSeq(b, 1, Len(a)) = a
  \/ \E i \in DOMAIN a \cap DOMAIN b :
       /\ a[i] < b[i]
       /\ \A j \in 1 .. i - 1 : a[j] = b[j]

PrecedesEq(a, b) == a = b \/ Precedes(a, b)

\* Mutated form of bt_defpfx: the 0-based position of the difference.
BtDefpfxShort(a, b) ==
  LET common == DOMAIN a \cap DOMAIN b
      differ == {i \in common : a[i] # b[i]}
  IN  IF differ # {}
      THEN (CHOOSE i \in differ : \A j \in differ : i <= j) - 1
      ELSE Len(a)

\* bt_defpfx: how many bytes of b are needed to be strictly above a, given
\* a < b.  The 1-based position of the first difference; one more than a's
\* length when a is a proper prefix of b; a's length otherwise, a case the
\* callers never reach.
BtDefpfx(a, b) ==
  LET common == DOMAIN a \cap DOMAIN b
      differ == {i \in common : a[i] # b[i]}
  IN  IF differ # {}
      THEN CHOOSE i \in differ : \A j \in differ : i <= j
      ELSE IF Len(a) < Len(b) THEN Len(a) + 1 ELSE Len(a)

\* write_binternal_inline keeps the first ksize bytes of the separator key.
Truncated(b, ksize) == SubSeq(b, 1, ksize)

-----------------------------------------------------------------------------
(* Ranks: the position of a string in the sorted universe U, from 0.       *)

Rank(U, s) == Cardinality({t \in U : Precedes(t, s)})

StringOfRank(U, r) == CHOOSE s \in U : Rank(U, s) = r

PrefixesOf(s) == {SubSeq(s, 1, n) : n \in 0 .. Len(s)}
=============================================================================
