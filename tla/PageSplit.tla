----------------------------- MODULE PageSplit -----------------------------
(***************************************************************************)
(* psplit_loop: the loop that walks the entries of a full page, with the   *)
(* new entry at its place among them, and decides how many of them stay in *)
(* the left page.                                                          *)
(*                                                                         *)
(* A page to be split is given by the running cost pre of all its entries  *)
(* (each with its linp slot): pre[i] is the cost of the first i.  skip is  *)
(* the number of entries before the new one, top the number of old ones.   *)
(***************************************************************************)
EXTENDS PageOps

CONSTANT
  FullPages   (* the pages considered: records [pre, skip, top, full]      *)

\* The page was in order, and the new entry does not fit (put and
\* try_insert_internal split no other page).
ASSUME FullPagesAssumption ==
  \A g \in FullPages :
    /\ g.top \in Nat \ {0}
    /\ g.skip \in 0 .. g.top
    /\ g.full \in Nat \ {0}
    /\ g.pre \in [0 .. g.top + 1 -> Nat]
    /\ g.pre[0] = 0
    /\ \A i, j \in 0 .. g.top + 1 : i <= j => g.pre[i] <= g.pre[j]
    /\ g.pre[g.top + 1] - (g.pre[g.skip + 1] - g.pre[g.skip]) <= g.full
    /\ g.pre[g.top + 1] > g.full

VARIABLES
  page,   (* the page being split; it does not change *)
  nxt,    (* the old entry looked at next             *)
  off,    (* the number of entries placed so far      *)
  used,   (* what they cost                           *)
  pc

vars == <<page, nxt, off, used, pc>>

Init ==
  /\ page \in FullPages
  /\ nxt = 0
  /\ off = 0
  /\ used = 0
  /\ pc = "loop"

CostAt(i) == page.pre[i + 1] - page.pre[i]

\* nbytes + 2: ilen + 2 for the new entry, else entry_size(nxt) + 2.
NextCost ==
  IF page.skip = off THEN CostAt(page.skip)
  ELSE CostAt(IF nxt < page.skip THEN nxt ELSE nxt + 1)

\* Mutated form of MustStop: the new entry's page may overflow.
MustStopUnguarded ==
  \/ nxt >= page.top
  \/ nxt + 1 = page.top

\* The breaks at the top of the loop: no old entry is left, the next entry
\* would fill a page that has the new one, or the last old entry comes next.
MustStop ==
  \/ nxt >= page.top
  \/ page.skip <= off /\ used + NextCost >= page.full
  \/ nxt + 1 = page.top

Stop ==
  /\ pc = "loop"
  /\ MustStop
  /\ pc' = "done"
  /\ UNCHANGED <<page, nxt, off, used>>

\* Mutated form of Place: the page may be filled, not half filled.
PlaceUntilFull ==
  /\ pc = "loop"
  /\ ~ MustStop
  /\ nxt' = IF page.skip = off THEN nxt ELSE nxt + 1
  /\ used' = used + NextCost
  /\ off' = off + 1
  /\ pc' = IF used' >= page.full THEN "done" ELSE "loop"
  /\ UNCHANGED page

\* Mutated form of Place: the loop ends at a quarter of the page.
PlaceUntilQuarter ==
  /\ pc = "loop"
  /\ ~ MustStop
  /\ nxt' = IF page.skip = off THEN nxt ELSE nxt + 1
  /\ used' = used + NextCost
  /\ off' = off + 1
  /\ pc' = IF used' >= page.full \div 4 THEN "done" ELSE "loop"
  /\ UNCHANGED page

\* Mutated form of Place: the loop never advances past the new entry.
PlaceStuck ==
  /\ pc = "loop"
  /\ ~ MustStop
  /\ nxt' = IF page.skip = off THEN nxt ELSE nxt + 1
  /\ used' = IF page.skip = off THEN used ELSE used + NextCost
  /\ off' = IF page.skip = off THEN off ELSE off + 1
  /\ pc' = IF used' >= page.full \div 2 THEN "done" ELSE "loop"
  /\ UNCHANGED page

\* An entry goes left; the loop ends once half the page is used.
Place ==
  /\ pc = "loop"
  /\ ~ MustStop
  /\ nxt' = IF page.skip = off THEN nxt ELSE nxt + 1
  /\ used' = used + NextCost
  /\ off' = off + 1
  /\ pc' = IF used' >= page.full \div 2 THEN "done" ELSE "loop"
  /\ UNCHANGED page

Next == Stop \/ Place

Spec == Init /\ [][Next]_vars

\* The loop runs in its caller's thread.
FairSpec == Spec /\ WF_vars(Next)

-----------------------------------------------------------------------------
(* The SplitPlan, and what it is worth.                                    *)

LeftSlots == off
RightTarget == page.skip >= LeftSlots

LeftCost == page.pre[LeftSlots]
RightCost == page.pre[page.top + 1] - page.pre[LeftSlots]

\* The loop finds the first place where the page may be divided.
PlanIsFirstStop ==
  pc = "done" => IsSplit(page.pre, page.skip, page.top, page.full, LeftSlots)

\* The left page always fits, however large the entries are.
LeftHalfFits == pc = "done" => LeftCost <= page.full

HalfBounded == \A i \in 0 .. page.top : CostAt(i) <= page.full \div 2

\* When no entry takes more than half a page, both pages fit and neither
\* is left empty.
HalfBoundedFits ==
  pc = "done" /\ HalfBounded =>
    /\ LeftSlots \in 1 .. page.top
    /\ LeftCost <= page.full
    /\ RightCost <= page.full

\* psplit_loop returns.
Terminates == <>(pc = "done")
=============================================================================
