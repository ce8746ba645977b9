------------------------------ MODULE PageOps ------------------------------
(***************************************************************************)
(* How a page is searched and how it is divided: the outcome of the two    *)
(* binary searches and of the split loop, as conditions on the result.     *)
(* The loops themselves are in PageSearch and PageSplit.                   *)
(*                                                                         *)
(* An entry is a record with a field key, and keys are integers: the ranks *)
(* of byte strings (see ByteKeys).  Slots are counted from 1.              *)
(***************************************************************************)
EXTENDS Integers, Sequences

-----------------------------------------------------------------------------
(* Searching a page.                                                       *)

Holds(ents, k) == \E i \in DOMAIN ents : ents[i].key = k

\* Mutated form of IsLeafPos: no place behind the last entry.
IsLeafPosInside(ents, k, pos) ==
  /\ pos \in 1 .. Len(ents)
  /\ \A i \in DOMAIN ents : IF i < pos THEN ents[i].key < k ELSE k < ents[i].key

\* leaf_search, key absent: the slot before which every key is smaller and
\* from which every key is larger.
IsLeafPos(ents, k, pos) ==
  /\ pos \in 1 .. Len(ents) + 1
  /\ \A i \in DOMAIN ents : IF i < pos THEN ents[i].key < k ELSE k < ents[i].key

\* Mutated form of IsPick: an equal separator sends the key to its left.
IsPickStrict(ents, k, i) ==
  /\ i \in DOMAIN ents
  /\ i = 1 \/ ents[i].key < k
  /\ \A j \in DOMAIN ents : j > i => k <= ents[j].key

\* descend_internal_pick: the last slot whose separator is at or below the
\* key, or the first slot when there is none.
IsPick(ents, k, i) ==
  /\ i \in DOMAIN ents
  /\ i = 1 \/ ents[i].key <= k
  /\ \A j \in DOMAIN ents : j > i => k < ents[j].key

-----------------------------------------------------------------------------
(* Dividing a page.  pre gives the running cost of the page's entries with *)
(* the new one at its place (skip of them before it), top the number of    *)
(* entries without it.                                                     *)

\* The number of old entries among the first off of them all.
OldBefore(skip, off) == IF off <= skip THEN off ELSE off - 1

\* Where psplit_loop breaks: half the page is used, only the last old entry
\* is left, or the next entry would fill a page that has the new one.
SplitStops(pre, skip, top, full, off) ==
  \/ off > 0 /\ pre[off] >= full \div 2
  \/ OldBefore(skip, off) + 1 >= top
  \/ skip <= off /\ pre[off + 1] >= full

\* psplit_loop's left_slots: the first place where the loop stops.
IsSplit(pre, skip, top, full, n) ==
  /\ n \in 0 .. top
  /\ SplitStops(pre, skip, top, full, n)
  /\ \A m \in 0 .. n - 1 : ~ SplitStops(pre, skip, top, full, m)
=============================================================================
