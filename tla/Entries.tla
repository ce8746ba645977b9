------------------------------ MODULE Entries ------------------------------
(***************************************************************************)
(* What one page can hold: the sizes of entries, the room test, put's      *)
(* bounds and the place where a full page is divided.                      *)
(*                                                                         *)
(* A key or separator is its rank in the order of byte strings; rank 0 is  *)
(* the empty string.  An entry of a leaf is a record [key, val], an entry  *)
(* of an internal page a record [key, child].                              *)
(***************************************************************************)
EXTENDS PageOps, SequencesExt

CONSTANTS
  Strings,   (* the ranks of every byte string that can occur in a page:   *)
             (* the keys, the prefixes of keys and the empty string        *)
  Keys,      (* the ranks callers use as keys                              *)
  Values,
  KeyLen,    (* KeyLen[s]: the length in bytes of the string of rank s     *)
  ValLen,    (* ValLen[v]: the length in bytes of value v                  *)
  Pfx,       (* Pfx[a][b]: the rank of b cut to bt_defpfx(a, b) bytes      *)
  Psize      (* the page size in bytes                                     *)

PAGE_HEADER_SIZE == 20
ENTRY_HEADER_SIZE == 9      \* BLEAF_HEADER_SIZE and BINTERNAL_HEADER_SIZE
LINP_SIZE == 2

ASSUME StringsAssumption ==
  /\ Strings \subseteq Nat
  /\ 0 \in Strings
  /\ Keys \subseteq Strings
  /\ KeyLen \in [Strings -> Nat]
  /\ KeyLen[0] = 0
  /\ ValLen \in [Values -> Nat]

\* bt_defpfx keeps enough of b to stay above a, and a prefix of b is never
\* above b.
ASSUME PfxAssumption ==
  /\ Pfx \in [Strings -> [Strings -> Strings]]
  /\ \A a, b \in Strings : a < b => a < Pfx[a][b] /\ Pfx[a][b] <= b

ASSUME PsizeAssumption == Psize \in Nat /\ Psize > PAGE_HEADER_SIZE

-----------------------------------------------------------------------------
(* Sizes.                                                                  *)

align_entry(n) == ((n + 3) \div 4) * 4

LeafBytes(k, v) == align_entry(ENTRY_HEADER_SIZE + KeyLen[k] + ValLen[v])
SepBytes(k) == align_entry(ENTRY_HEADER_SIZE + KeyLen[k])

EntryBytes(leaf, e) == IF leaf THEN LeafBytes(e.key, e.val) ELSE SepBytes(e.key)

\* usable = psize - PAGE_HEADER_SIZE
Usable == Psize - PAGE_HEADER_SIZE

\* PrefixCost(leaf, s)[i]: what the first i entries of s take, each with its
\* linp slot.
PrefixCost(leaf, s) ==
  LET c[i \in 0 .. Len(s)] ==
        IF i = 0 THEN 0 ELSE c[i - 1] + EntryBytes(leaf, s[i]) + LINP_SIZE
  IN  c

Cost(leaf, s) == PrefixCost(leaf, s)[Len(s)]

\* free_space() = upper - lower: nothing but live entries lies above upper,
\* and nothing but live slots below lower.
FreeSpace(leaf, s) == Usable - Cost(leaf, s)

\* Mutated form of HasRoom: the linp slot is forgotten.
HasRoomNoSlot(leaf, s, e) == FreeSpace(leaf, s) >= EntryBytes(leaf, e)

HasRoom(leaf, s, e) == FreeSpace(leaf, s) >= EntryBytes(leaf, e) + LINP_SIZE

\* Mutated form of Fits: lower is not compared with upper.
FitsUnchecked(leaf, s) == Cost(leaf, s) - LINP_SIZE * Len(s) <= Psize

\* lower <= upper, as PageView::parse checks it.
Fits(leaf, s) == Cost(leaf, s) <= Usable

\* Mutated form of TooLarge: the bound that a leaf sets is not checked.
TooLargeAnyLeaf(k, v) ==
  SepBytes(k) + align_entry(ENTRY_HEADER_SIZE) + 2 * LINP_SIZE > Usable

\* The two bounds put checks before it does anything: the entry must fit an
\* empty leaf, and its key a root that also holds the zero-key entry.
TooLarge(k, v) ==
  \/ LeafBytes(k, v) + LINP_SIZE > Usable
  \/ SepBytes(k) + align_entry(ENTRY_HEADER_SIZE) + 2 * LINP_SIZE > Usable

\* ents with e inserted at slot pos splits after n entries.
SplitsAt(leaf, ents, pos, e, n) ==
  IsSplit(PrefixCost(leaf, InsertAt(ents, pos, e)), pos - 1, Len(ents), Usable, n)
=============================================================================
