----------------------------- MODULE PageDecode -----------------------------
(***************************************************************************)
(* How the reader takes one entry from a page it does not trust: parse     *)
(* checks the header, entry_offset reads linp, leaf_entry and              *)
(* internal_entry decode what is at the offset, and inline borrows bytes.  *)
(* Offsets and sizes in the page may be anything their fields can hold, so *)
(* a read that is inside the page returns any value here.                  *)
(***************************************************************************)
EXTENDS Integers

CONSTANTS
  PageSizes,
  U16, U32,   (* what a two-byte and a four-byte field may hold            *)
  UsizeMax    (* the greatest number usize holds                           *)

PAGE_HEADER_SIZE == 20
ENTRY_HEADER_SIZE == 9     (* BLEAF_HEADER_SIZE and BINTERNAL_HEADER_SIZE *)
NOVFLSIZE == 8

\* Every four-byte number fits usize, and a page is not longer than usize
\* can say.
ASSUME DecodeAssumption ==
  /\ UsizeMax \in Nat
  /\ PageSizes \subseteq PAGE_HEADER_SIZE .. UsizeMax
  /\ U16 \subseteq Nat
  /\ U32 \subseteq 0 .. UsizeMax

VARIABLES
  size,      (* bytes.len()                                                *)
  nentries,  (* NEXTINDEX, once the header is read                         *)
  pc,        (* the next step, "decoded", or "corrupt" for CorruptPage     *)
  off,       (* what linp says                                             *)
  ksize, dsize, bigkey, bigdata,   (* the entry's header; dsize is 0 in an *)
             (* internal entry                                             *)
  keyItem, dataItem                (* the items, when they are decoded     *)

decodeVars ==
  <<size, nentries, pc, off, ksize, dsize, bigkey, bigdata, keyItem, dataItem>>

NoItem == [is |-> "none"]
Inline(o, n) == [is |-> "inline", off |-> o, len |-> n]

\* A reference to a chain; which chain, the eight bytes at o say.
OverflowRef(o) == [is |-> "overflow", off |-> o, len |-> NOVFLSIZE]

DecodeInit ==
  /\ size \in PageSizes
  /\ nentries = 0
  /\ pc = "parse"
  /\ off = 0 /\ ksize = 0 /\ dsize = 0
  /\ bigkey = FALSE /\ bigdata = FALSE
  /\ keyItem = NoItem /\ dataItem = NoItem

\* slice::get of n bytes at o, the end found with checked_add.
InPage(o, n) == o + n <= UsizeMax /\ o + n <= size

\* Unchecked addition, as a release build has it.
Plus(a, b) == (a + b) % (UsizeMax + 1)

Corrupt ==
  /\ pc' = "corrupt"
  /\ UNCHANGED <<size, nentries, off, ksize, dsize, bigkey, bigdata, keyItem, dataItem>>

-----------------------------------------------------------------------------

\* The bounds parse accepts.
GoodBounds(lo, up) ==
  /\ lo >= PAGE_HEADER_SIZE
  /\ up <= size
  /\ lo <= up
  /\ (lo - PAGE_HEADER_SIZE) % 2 = 0

\* (The flags may also name no page type.)
ParseFails == pc = "parse" /\ Corrupt

Parse ==
  /\ pc = "parse"
  /\ \E lo, up \in U16 :
       /\ GoodBounds(lo, up)
       /\ nentries' = (lo - PAGE_HEADER_SIZE) \div 2
  /\ pc' = "offset"
  /\ UNCHANGED <<size, off, ksize, dsize, bigkey, bigdata, keyItem, dataItem>>

\* entry_offset: linp is in the page as far as nentries goes.
EntryOffset ==
  /\ pc = "offset"
  /\ nentries > 0
  /\ off' \in U16
  /\ pc' = "header"
  /\ UNCHANGED <<size, nentries, ksize, dsize, bigkey, bigdata, keyItem, dataItem>>

\* An index the page does not have.
EntryOffsetFails == pc = "offset" /\ Corrupt

\* u32_at(off), u32_at(off + 4), byte_at(off + 8).
HeaderInPage ==
  /\ InPage(off, 4)
  /\ InPage(Plus(off, 4), 4)
  /\ InPage(Plus(off, 8), 1)

ReadHeader ==
  /\ pc = "header"
  /\ HeaderInPage
  /\ ksize' \in U32
  /\ bigkey' \in BOOLEAN
  /\ \/ dsize' \in U32 /\ bigdata' \in BOOLEAN    (* leaf_entry     *)
     \/ dsize' = 0 /\ bigdata' = FALSE            (* internal_entry *)
  /\ pc' = "payload"
  /\ UNCHANGED <<size, nentries, off, keyItem, dataItem>>

ReadHeaderFails ==
  /\ pc = "header"
  /\ ~ HeaderInPage
  /\ Corrupt

Payload == Plus(off, ENTRY_HEADER_SIZE)

\* Mutated form of PayloadInPage: additions that may wrap.
PayloadInPageWrapping == Plus(Plus(Payload, ksize), dsize) <= size

\* The payload's end, with checked_add for both sizes.
PayloadInPage ==
  /\ Payload + ksize <= UsizeMax
  /\ Payload + ksize + dsize <= UsizeMax
  /\ Payload + ksize + dsize <= size

CheckPayload ==
  /\ pc = "payload"
  /\ PayloadInPage
  /\ pc' = "key"
  /\ UNCHANGED <<size, nentries, off, ksize, dsize, bigkey, bigdata, keyItem, dataItem>>

CheckPayloadFails ==
  /\ pc = "payload"
  /\ ~ PayloadInPage
  /\ Corrupt

\* decode_item: what the n bytes at o are, if they are an item.  One that is
\* not big is borrowed where it lies; a big one is a reference, unless it is
\* too short to be one.
Items(o, n, big) ==
  IF ~ big THEN {Inline(o, n)}
  ELSE IF n >= NOVFLSIZE /\ InPage(o, 4) /\ InPage(Plus(o, 4), 4) THEN {OverflowRef(o)}
  ELSE {}

KeyItems == Items(Payload, ksize, bigkey)
DataItems == Items(Plus(Payload, ksize), dsize, bigdata)

DecodeKey ==
  /\ pc = "key"
  /\ keyItem' \in KeyItems
  /\ pc' = "data"
  /\ UNCHANGED <<size, nentries, off, ksize, dsize, bigkey, bigdata, dataItem>>

DecodeKeyFails ==
  /\ pc = "key"
  /\ KeyItems = {}
  /\ Corrupt

DecodeData ==
  /\ pc = "data"
  /\ dataItem' \in DataItems
  /\ pc' = "decoded"
  /\ UNCHANGED <<size, nentries, off, ksize, dsize, bigkey, bigdata, keyItem>>

DecodeDataFails ==
  /\ pc = "data"
  /\ DataItems = {}
  /\ Corrupt

DecodeNext ==
  \/ ParseFails \/ Parse
  \/ EntryOffset \/ EntryOffsetFails
  \/ ReadHeader \/ ReadHeaderFails
  \/ CheckPayload \/ CheckPayloadFails
  \/ DecodeKey \/ DecodeKeyFails
  \/ DecodeData \/ DecodeDataFails

DecodeSpec == DecodeInit /\ [][DecodeNext]_decodeVars

-----------------------------------------------------------------------------
(* Properties.                                                             *)

\* Whatever the page holds, what is decoded from it lies in it, the key in
\* front of the data: inline, on the same page, always finds the bytes, and
\* no sum on the way has wrapped.
ItemsReadable ==
  pc = "decoded" =>
    /\ PAGE_HEADER_SIZE + 2 * nentries <= size
    /\ off + ENTRY_HEADER_SIZE = keyItem.off
    /\ keyItem.off + keyItem.len <= dataItem.off
    /\ dataItem.off + dataItem.len <= size
=============================================================================
