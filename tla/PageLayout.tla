----------------------------- MODULE PageLayout -----------------------------
(***************************************************************************)
(* The bytes of one page of the arena: linp grows up from the header,      *)
(* entries grow down from the page's end, a deletion closes the gap it     *)
(* leaves, and a split copies a part of the page to a fresh one, which     *)
(* then takes its place here.                                              *)
(*                                                                         *)
(* Addresses count half-words of two bytes: a linp slot takes one, and an  *)
(* entry an even number of them, its padding included (nbytes is a         *)
(* multiple of four).  A half-word of memory says what was written there   *)
(* last: a part of an entry, or an offset.  lower and upper stand for the  *)
(* two fields of the header.                                               *)
(***************************************************************************)
EXTENDS PageOps, SequencesExt

CONSTANTS
  PageEntries,   (* entries: of a leaf or of an internal page, it is the   *)
                 (* same to the layout                                     *)
  NWords,        (* NWords[e]: the half-words entry e takes                *)
  PageEnd        (* the number of half-words of a page                     *)

HeaderEnd == 10   \* PAGE_HEADER_SIZE

ASSUME LayoutAssumption ==
  /\ NWords \in [PageEntries -> Nat \ {0}]
  /\ PageEnd \in Nat
  /\ PageEnd >= HeaderEnd

VARIABLES
  mem,      (* the half-words of the page                                  *)
  lower,    (* one beyond its last linp slot                               *)
  upper,    (* where its lowest entry starts                               *)
  leaf,     (* whether it is a leaf                                        *)
  copy,     (* the copy_entries under way, if one is                       *)
  bmem,     (* the fresh page that copies go to                            *)
  bupper,   (* and its upper                                               *)
  garbled   (* whether a page was accepted whose header had been written   *)
            (* over; nothing is said of what happens after that            *)

pageVars == <<mem, lower, upper, leaf>>
copyVars == <<copy, bmem, bupper>>
layoutVars == <<pageVars, copyVars, garbled>>

Zero == <<"zero", 0, 0>>
LinpTo(o) == <<"linp", o, 0>>
Part(e, j) == <<"part", e, j>>

Blank == [a \in 0 .. PageEnd - 1 |-> Zero]

\* The address of linp[i - 1].
Slot(i) == HeaderEnd + i - 1

NEntries == lower - HeaderEnd

\* What the slot at address a of page m refers to: an offset, and the entry
\* whose first half-word is there.
OffsetAt(m, a) == m[a][2]
EntryAt(m, a) == m[OffsetAt(m, a)][2]

Contents == [i \in 1 .. NEntries |-> EntryAt(mem, Slot(i))]

Held == {EntryAt(mem, a) : a \in HeaderEnd .. lower - 1}

\* copy.src .. copy.last are the slots still to be copied, copy.slot the one
\* they go to next, and copy.reserve the one kept for copy.new (0 for none).
NoCopy == [on |-> FALSE]

Init ==
  /\ mem = Blank
  /\ lower = HeaderEnd
  /\ upper = PageEnd
  /\ leaf = TRUE
  /\ copy = NoCopy
  /\ bmem = Blank
  /\ bupper = PageEnd
  /\ garbled = FALSE

-----------------------------------------------------------------------------
(* Page primitives.                                                        *)

\* write_bleaf_inline, write_binternal_inline
WithEntry(m, o, e) ==
  [a \in DOMAIN m |-> IF a \in o .. o + NWords[e] - 1 THEN Part(e, a - o) ELSE m[a]]

\* set_linp
WithLinp(m, a, o) == [m EXCEPT ![a] = LinpTo(o)]

\* reserve_slot: the slots from i on move up by one.
SlotReserved(i, o) ==
  [a \in DOMAIN mem |->
     IF a = Slot(i) THEN LinpTo(o)
     ELSE IF a \in Slot(i) + 1 .. lower THEN mem[a - 1]
     ELSE mem[a]]

\* free_space() >= nbytes + 2
HasRoomFor(e) == upper - lower >= NWords[e] + 1

\* Mutated form of Moved: the offset is left as it was.
MovedNot(w, o, n) == w

\* A slot after the entry at o, of n half-words, is gone: what lay below it
\* has moved up.
Moved(w, o, n) == IF w[2] < o THEN LinpTo(w[2] + n) ELSE w

-----------------------------------------------------------------------------
(* put and del on a page with room.                                        *)

\* insert_leaf_entry, insert_internal_in_place
Insert(i, e) ==
  /\ ~ garbled
  /\ ~ copy.on
  /\ e \notin Held
  /\ HasRoomFor(e)
  /\ mem' = WithEntry(SlotReserved(i, upper - NWords[e]), upper - NWords[e], e)
  /\ lower' = lower + 1
  /\ upper' = upper - NWords[e]
  /\ UNCHANGED <<leaf, copyVars, garbled>>

\* Mutated form of Delete: only the slot goes.
DeleteLeavesGap(i) ==
  /\ ~ garbled
  /\ ~ copy.on
  /\ leaf
  /\ mem' = [a \in DOMAIN mem |-> IF a \in Slot(i) .. lower - 2 THEN mem[a + 1] ELSE mem[a]]
  /\ lower' = lower - 1
  /\ UNCHANGED <<upper, leaf, copyVars, garbled>>

\* delete_leaf_entry.  The size is read from the entry's own header.
Delete(i) ==
  LET o == OffsetAt(mem, Slot(i))
      n == NWords[EntryAt(mem, Slot(i))]
  IN  /\ ~ garbled
      /\ ~ copy.on
      /\ leaf
      /\ mem' = [a \in DOMAIN mem |->
                   IF a \in upper + n .. o + n - 1 THEN mem[a - n]
                   ELSE IF a \in HeaderEnd .. Slot(i) - 1 THEN Moved(mem[a], o, n)
                   ELSE IF a \in Slot(i) .. lower - 2 THEN Moved(mem[a + 1], o, n)
                   ELSE mem[a]]
      /\ lower' = lower - 1
      /\ upper' = upper + n
      /\ UNCHANGED <<leaf, copyVars, garbled>>

-----------------------------------------------------------------------------
(* A split.                                                                *)

\* The running cost of a page's entries in bytes, each with its slot.
PrefixCost(s) ==
  LET c[i \in 0 .. Len(s)] == IF i = 0 THEN 0 ELSE c[i - 1] + 2 * (NWords[s[i]] + 1)
  IN  c

\* The entries that psplit_loop leaves to the left page, with e at i.
LeftSlots(i, e) ==
  {n \in 0 .. NEntries :
     IsSplit(PrefixCost(InsertAt(Contents, i, e)), i - 1, NEntries,
             2 * (PageEnd - HeaderEnd), n)}

Copy(first, last, reserve, e) ==
  [on |-> TRUE, src |-> first, last |-> last, slot |-> 1, reserve |-> reserve, new |-> e]

\* Either half is copied to a page of its own; one of them is followed here.
BeginSplit(i, e) ==
  /\ ~ garbled
  /\ ~ copy.on
  /\ e \notin Held
  /\ ~ HasRoomFor(e)
  /\ \E n \in LeftSlots(i, e) :
       LET rightTarget == i - 1 >= n
           inLeft == IF rightTarget THEN n ELSE n - 1
       IN  copy' \in {Copy(1, inLeft, IF rightTarget THEN 0 ELSE i, e),
                      Copy(inLeft + 1, NEntries, IF rightTarget THEN i - n ELSE 0, e)}
  /\ bmem' = Blank
  /\ bupper' = PageEnd
  /\ UNCHANGED <<pageVars, garbled>>

\* The slot to use when s comes next: the reserved one is passed over.
Skipped(s) == IF s = copy.reserve THEN s + 1 ELSE s

\* copy_one, copy_internal_one
CopyOne ==
  LET e == EntryAt(mem, Slot(copy.src))
      s == Skipped(copy.slot)
  IN  /\ copy.on
      /\ copy.src <= copy.last
      /\ bmem' = WithEntry(WithLinp(bmem, Slot(s), bupper - NWords[e]), bupper - NWords[e], e)
      /\ bupper' = bupper - NWords[e]
      /\ copy' = [copy EXCEPT !.src = @ + 1, !.slot = s + 1]
      /\ UNCHANGED <<pageVars, garbled>>

\* set_lower at the end of copy_entries, and write_entry_at_slot.
CopiedLower == Slot(Skipped(copy.slot))
CopiedUpper == IF copy.reserve = 0 THEN bupper ELSE bupper - NWords[copy.new]
CopiedMem ==
  IF copy.reserve = 0 THEN bmem
  ELSE WithEntry(WithLinp(bmem, Slot(copy.reserve), CopiedUpper), CopiedUpper, copy.new)

AllCopied == copy.on /\ copy.src > copy.last

NoMoreCopy ==
  /\ copy' = NoCopy
  /\ bmem' = Blank
  /\ bupper' = PageEnd

\* Mutated form of CommitSplit: the page is not parsed again.
CommitSplitUnparsed ==
  /\ AllCopied
  /\ CopiedUpper >= 0
  /\ mem' = CopiedMem
  /\ lower' = CopiedLower
  /\ upper' = CopiedUpper
  /\ NoMoreCopy
  /\ UNCHANGED <<leaf, garbled>>

\* The fresh page passes parse, and becomes the page.
CommitSplit ==
  /\ AllCopied
  /\ CopiedLower <= CopiedUpper
  /\ mem' = CopiedMem
  /\ lower' = CopiedLower
  /\ upper' = CopiedUpper
  /\ NoMoreCopy
  /\ UNCHANGED <<leaf, garbled>>

\* upper has passed lower, which parse refuses, or would pass zero, which
\* panics: the page stays.
RefuseSplit ==
  /\ AllCopied
  /\ CopiedLower > CopiedUpper
  /\ NoMoreCopy
  /\ UNCHANGED <<pageVars, garbled>>

\* write_entry_at_slot has written over the header and, at these offsets, the
\* fields that parse judges (flags, lower, upper) are bytes that the caller
\* chose.  (With the entry at half-word 6 or 8 they are its two sizes, with a
\* field of zeros for lower or upper.)
HeaderGone == CopiedUpper \in {0, 2, 4}

GarbleSplit ==
  /\ AllCopied
  /\ HeaderGone
  /\ mem' = CopiedMem
  /\ lower' \in HeaderEnd .. PageEnd
  /\ upper' \in lower' .. PageEnd
  /\ garbled' = TRUE
  /\ NoMoreCopy
  /\ UNCHANGED leaf

\* convert_root_to_internal, on a page whose halves have gone elsewhere: what
\* was in it stays, beyond the two entries' reach.
ConvertRoot(e1, e2) ==
  /\ ~ garbled
  /\ ~ copy.on
  /\ e1 # e2
  /\ NWords[e1] + NWords[e2] + 2 <= PageEnd - HeaderEnd
  /\ LET o1 == PageEnd - NWords[e1]
         o2 == o1 - NWords[e2]
     IN  /\ mem' = WithLinp(WithLinp(WithEntry(WithEntry(mem, o1, e1), o2, e2),
                                     Slot(1), o1), Slot(2), o2)
         /\ lower' = Slot(3)
         /\ upper' = o2
  /\ leaf' = FALSE
  /\ UNCHANGED <<copyVars, garbled>>

Next ==
  \/ \E i \in 1 .. NEntries + 1, e \in PageEntries : Insert(i, e) \/ BeginSplit(i, e)
  \/ \E i \in 1 .. NEntries : Delete(i)
  \/ CopyOne \/ CommitSplit \/ RefuseSplit \/ GarbleSplit
  \/ \E e1, e2 \in PageEntries : ConvertRoot(e1, e2)

Spec == Init /\ [][Next]_layoutVars

-----------------------------------------------------------------------------
(* Properties.                                                             *)

\* The slot at a refers to a whole entry above up.
Intact(m, up, a) ==
  LET o == OffsetAt(m, a)
      e == EntryAt(m, a)
  IN  /\ m[a] = LinpTo(o)
      /\ o \in up .. PageEnd - 1
      /\ e \in PageEntries
      /\ o + NWords[e] <= PageEnd
      /\ \A j \in 0 .. NWords[e] - 1 : m[o + j] = Part(e, j)

\* Every slot of the page refers to an entry that is there in full, whatever
\* was moved since it was written, and the slots do not reach the entries.
SlotsIntact ==
  ~ garbled =>
    /\ lower <= upper
    /\ \A a \in HeaderEnd .. lower - 1 : Intact(mem, upper, a)

\* What is not free is taken by the entries that are there and their slots:
\* no deletion leaves a gap.
SpaceExact ==
  ~ garbled =>
    2 * (upper - lower)
      = 2 * (PageEnd - HeaderEnd) - PrefixCost(Contents)[NEntries]

C == INSTANCE PageContents WITH ents <- Contents

\* Moving bytes and offsets about, a page's entries change as a sequence
\* would: an insertion, a deletion or a split keeps the others in order,
\* until a header is written over.
ImplementsContents == C!Init /\ [][garbled' \/ C!Next]_Contents
=============================================================================
