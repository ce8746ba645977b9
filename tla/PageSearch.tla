----------------------------- MODULE PageSearch -----------------------------
(***************************************************************************)
(* The binary search loop of the writer, in its two uses: leaf_search on a *)
(* leaf and descend_internal_pick on an internal page.  base and lim are   *)
(* the C-style bounds: the slots that may still match are the lim slots    *)
(* after the first base ones.                                              *)
(***************************************************************************)
EXTENDS PageOps

CONSTANT
  Searches   (* the searches considered: records [ents, key, leaf,         *)
             (* leftmost]; leftmost is "the page has no left sibling"      *)

\* A page the writer searches is sorted, and an internal page has entries.
ASSUME SearchesAssumption ==
  \A s \in Searches :
    /\ s.ents \in Seq([key : Int])
    /\ \A i, j \in DOMAIN s.ents : i < j => s.ents[i].key < s.ents[j].key
    /\ s.key \in Int
    /\ s.leaf \in BOOLEAN
    /\ s.leftmost \in BOOLEAN
    /\ ~ s.leaf => s.ents # <<>>

VARIABLES
  search,   (* the search under way; it does not change                    *)
  base,
  lim,
  matched,  (* the slot of an equal entry, 0 as long as there is none      *)
  pc

vars == <<search, base, lim, matched, pc>>

Init ==
  /\ search \in Searches
  /\ base = 0
  /\ lim = Len(search.ents)
  /\ matched = 0
  /\ pc = "loop"

\* The slot looked at; the code's mid is one less.
Mid == base + lim \div 2 + 1
MidKey == search.ents[Mid].key

\* The first slot of a leftmost internal page is below every key, whatever
\* is stored in it.
BelowAll == ~ search.leaf /\ search.leftmost /\ Mid = 1

Looking == pc = "loop" /\ lim > 0

Equal ==
  /\ Looking
  /\ ~ BelowAll
  /\ search.key = MidKey
  /\ matched' = Mid
  /\ pc' = "done"
  /\ UNCHANGED <<search, base, lim>>

\* Mutated form of Greater: the slot looked at still counts.
GreaterKeepsLim ==
  /\ Looking
  /\ BelowAll \/ search.key > MidKey
  /\ base' = Mid
  /\ lim' = lim \div 2
  /\ UNCHANGED <<search, matched, pc>>

Greater ==
  /\ Looking
  /\ BelowAll \/ search.key > MidKey
  /\ base' = Mid
  /\ lim' = (lim - 1) \div 2
  /\ UNCHANGED <<search, matched, pc>>

\* Mutated form of Less: one slot too many is given up.
LessDropsSlot ==
  /\ Looking
  /\ ~ BelowAll
  /\ search.key < MidKey
  /\ lim' = (lim - 1) \div 2
  /\ UNCHANGED <<search, base, matched, pc>>

\* Mutated form of Less: the slot looked at is kept.
LessKeepsMid ==
  /\ Looking
  /\ ~ BelowAll
  /\ search.key < MidKey
  /\ lim' = lim \div 2 + 1
  /\ UNCHANGED <<search, base, matched, pc>>

Less ==
  /\ Looking
  /\ ~ BelowAll
  /\ search.key < MidKey
  /\ lim' = lim \div 2
  /\ UNCHANGED <<search, base, matched, pc>>

Exhausted ==
  /\ pc = "loop"
  /\ lim = 0
  /\ pc' = "done"
  /\ UNCHANGED <<search, base, lim, matched>>

Next == Equal \/ Greater \/ Less \/ Exhausted

Spec == Init /\ [][Next]_vars

\* The loop runs in its caller's thread.
FairSpec == Spec /\ WF_vars(Next)

-----------------------------------------------------------------------------
(* What the two functions return, as slots counted from 1.                 *)

LeafIdx == IF matched # 0 THEN matched ELSE base + 1

Pick == IF matched # 0 THEN matched ELSE IF base = 0 THEN 1 ELSE base

\* leaf_search finds the key if it is there, and otherwise the slot where
\* it belongs.
LeafSearchCorrect ==
  pc = "done" /\ search.leaf =>
    /\ matched # 0 <=> Holds(search.ents, search.key)
    /\ matched # 0 => search.ents[LeafIdx].key = search.key
    /\ matched = 0 => IsLeafPos(search.ents, search.key, LeafIdx)

\* descend_internal_pick finds the last separator at or below the key.  The
\* special case for leftmost pages changes nothing on sorted pages.
PickCorrect ==
  pc = "done" /\ ~ search.leaf => IsPick(search.ents, search.key, Pick)

\* No turn of the loop reads a slot the page does not have.
ReadsInRange == Looking => Mid \in DOMAIN search.ents

\* The loop ends.
Terminates == <>(pc = "done")
=============================================================================
