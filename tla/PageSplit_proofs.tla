-------------------------- MODULE PageSplit_proofs --------------------------
(***************************************************************************)
(* The split loop, for every page size, every number of entries and every  *)
(* cost they may have: it finds the first place to divide the page, the    *)
(* left page fits, and both fit when no entry takes more than half a page. *)
(***************************************************************************)
EXTENDS PageSplit, TLAPS

\* Every variable of the split loop keeps its shape.
TypeOK ==
  /\ page \in FullPages
  /\ nxt \in Nat
  /\ off \in Nat
  /\ used \in Nat
  /\ pc \in {"loop", "done"}

\* nxt and used follow from off, and no place before off was one to stop at.
Walk ==
  /\ off <= page.top
  /\ nxt = OldBefore(page.skip, off)
  /\ used = page.pre[off]
  /\ \A m \in 0 .. off - 1 :
       ~ SplitStops(page.pre, page.skip, page.top, page.full, m)

\* The loop goes on while less than half a page is used.
Phase ==
  /\ pc = "loop" => off = 0 \/ used < page.full \div 2
  /\ pc = "done" =>
       SplitStops(page.pre, page.skip, page.top, page.full, off)

IInv == TypeOK /\ Walk /\ Phase

\* Halving rounds down.
LEMMA HalfFacts ==
  ASSUME NEW n \in Nat
  PROVE  n \div 2 \in Nat /\ 2 * (n \div 2) <= n
  OBVIOUS

\* What FullPagesAssumption says of the page being split.
LEMMA PageFacts ==
  ASSUME page \in FullPages
  PROVE  /\ page.top \in Nat
         /\ page.top > 0
         /\ page.skip \in Nat
         /\ page.skip <= page.top
         /\ page.full \in Nat
         /\ page.full > 0
         /\ page.full \div 2 \in Nat
         /\ 2 * (page.full \div 2) <= page.full
         /\ \A i \in 0 .. page.top + 1 : page.pre[i] \in Nat
         /\ page.pre[0] = 0
         /\ \A i, j \in 0 .. page.top + 1 :
              i <= j => page.pre[i] <= page.pre[j]
         /\ page.pre[page.top + 1]
              - (page.pre[page.skip + 1] - page.pre[page.skip]) <= page.full
         /\ page.pre[page.top + 1] > page.full
<1>1. /\ page.top \in Nat \ {0}
      /\ page.skip \in 0 .. page.top
      /\ page.full \in Nat \ {0}
      /\ page.pre \in [0 .. page.top + 1 -> Nat]
      /\ page.pre[0] = 0
      /\ \A i, j \in 0 .. page.top + 1 : i <= j => page.pre[i] <= page.pre[j]
      /\ page.pre[page.top + 1]
           - (page.pre[page.skip + 1] - page.pre[page.skip]) <= page.full
      /\ page.pre[page.top + 1] > page.full
  BY FullPagesAssumption
<1>2. page.full \div 2 \in Nat /\ 2 * (page.full \div 2) <= page.full
  BY <1>1, HalfFacts
<1>3. \A i \in 0 .. page.top + 1 : page.pre[i] \in Nat
  BY <1>1
<1>4. page.full > 0 /\ page.top \in Nat /\ page.top > 0 /\ page.skip \in Nat /\ page.skip <= page.top
  BY <1>1
<1> QED
  BY <1>1, <1>2, <1>3, <1>4

\* The invariant at the start, where nothing has been placed.
LEMMA InitIInv == Init => IInv
<1> SUFFICES ASSUME Init PROVE IInv
  OBVIOUS
<1>1. page \in FullPages
  BY DEF Init
<1> QED
  BY <1>1, PageFacts DEF Init, IInv, TypeOK, Walk, Phase, OldBefore

\* The entry the loop looks at is entry off of the whole page: the next old
\* one, or the new one when off = skip.
LEMMA NextCostIsCost ==
  ASSUME IInv, pc = "loop", off <= page.top
  PROVE  NextCost = page.pre[off + 1] - page.pre[off]
<1>1. page.skip \in Nat /\ off \in Nat
  BY PageFacts DEF IInv, TypeOK
<1>2. nxt = IF off <= page.skip THEN off ELSE off - 1
  BY DEF IInv, Walk, OldBefore
<1> QED
  BY <1>1, <1>2 DEF NextCost, CostAt

\* The breaks at the top of the loop are the last two cases of SplitStops.
LEMMA MustStopIsStops ==
  ASSUME IInv, pc = "loop"
  PROVE  MustStop <=> SplitStops(page.pre, page.skip, page.top, page.full, off)
<1>1. /\ page.skip \in Nat /\ page.top \in Nat /\ page.full \in Nat
      /\ page.full \div 2 \in Nat
      /\ off \in Nat /\ off <= page.top /\ nxt \in Nat
  BY PageFacts DEF IInv, TypeOK, Walk
<1>2. page.pre[off] \in Nat /\ page.pre[off + 1] \in Nat
  BY <1>1, PageFacts DEF IInv, TypeOK
<1>3. used + NextCost = page.pre[off + 1]
  BY <1>1, <1>2, NextCostIsCost DEF IInv, Walk
<1>4. nxt = OldBefore(page.skip, off)
  BY DEF IInv, Walk
<1>5. ~ (off > 0 /\ page.pre[off] >= page.full \div 2)
  BY <1>1, <1>2 DEF IInv, Phase, Walk
<1>6. nxt >= page.top \/ nxt + 1 = page.top <=> nxt + 1 >= page.top
  BY <1>1
<1> QED
  BY <1>3, <1>4, <1>5, <1>6 DEF MustStop, SplitStops

\* Every turn of the loop keeps the invariant.
LEMMA NextIInv == IInv /\ [Next]_vars => IInv'
<1> SUFFICES ASSUME IInv, [Next]_vars PROVE IInv'
  OBVIOUS
<1>1. CASE Stop
  BY <1>1, MustStopIsStops DEF Stop, IInv, TypeOK, Walk, Phase
<1>2. CASE Place
  <2>1. ~ SplitStops(page.pre, page.skip, page.top, page.full, off)
    BY <1>2, MustStopIsStops DEF Place
  <2>2. /\ page.skip \in Nat /\ page.top \in Nat /\ page.full \in Nat
        /\ page.full \div 2 \in Nat /\ page.skip <= page.top
        /\ off \in Nat /\ off <= page.top /\ nxt \in Nat /\ used \in Nat
    BY PageFacts DEF IInv, TypeOK, Walk
  <2>3. nxt = IF off <= page.skip THEN off ELSE off - 1
    BY DEF IInv, Walk, OldBefore
  <2>4. off + 1 <= page.top
    BY <2>1, <2>2 DEF SplitStops, OldBefore
  <2>5. page.pre[off] \in Nat /\ page.pre[off + 1] \in Nat
    BY <2>2, PageFacts DEF IInv, TypeOK
  <2>6. used + NextCost = page.pre[off + 1]
    BY <1>2, <2>2, <2>5, NextCostIsCost DEF Place, IInv, Walk
  <2>7. /\ page' = page
        /\ off' = off + 1
        /\ used' = page.pre[off + 1]
        /\ nxt' = IF page.skip = off THEN nxt ELSE nxt + 1
        /\ pc' = IF used' >= page.full \div 2 THEN "done" ELSE "loop"
    BY <1>2, <2>6 DEF Place
  <2>8. TypeOK'
    BY <2>2, <2>5, <2>7 DEF IInv, TypeOK
  <2>9. Walk'
    <3>1. nxt' = OldBefore(page.skip, off + 1)
      BY <2>2, <2>3, <2>7 DEF OldBefore
    <3>2. ASSUME NEW m \in 0 .. off' - 1
          PROVE  ~ SplitStops(page.pre, page.skip, page.top, page.full, m)
      <4>1. m = off \/ m \in 0 .. off - 1
        BY <2>2, <2>7
      <4> QED
        BY <4>1, <2>1 DEF IInv, Walk
    <3>3. off' <= page'.top /\ nxt' = OldBefore(page'.skip, off')
          /\ used' = page'.pre[off']
      BY <2>4, <2>7, <3>1
    <3>4. page' = page
      BY <2>7
    <3> QED
      BY <3>2, <3>3, <3>4 DEF Walk
  <2>10. Phase'
    <3>1. CASE page.pre[off + 1] >= page.full \div 2
      BY <2>2, <2>7, <3>1 DEF Phase, SplitStops
    <3>2. CASE ~ (page.pre[off + 1] >= page.full \div 2)
      BY <2>2, <2>5, <2>7, <3>2 DEF Phase
    <3> QED
      BY <3>1, <3>2
  <2> QED
    BY <2>8, <2>9, <2>10 DEF IInv
<1>3. CASE UNCHANGED vars
  BY <1>3 DEF vars, IInv, TypeOK, Walk, Phase
<1> QED
  BY <1>1, <1>2, <1>3 DEF Next

\* The inductive invariant of the split loop holds in every reachable state.
THEOREM InvariantHolds == Spec => []IInv
  BY InitIInv, NextIInv, PTL DEF Spec

-----------------------------------------------------------------------------

\* The plan is the first place where a page of any size and content may be
\* divided: the rule BTreeWriter uses is what the loop computes.
THEOREM PlanIsCorrect == Spec => []PlanIsFirstStop
<1>1. IInv => PlanIsFirstStop
  <2> SUFFICES ASSUME IInv, pc = "done"
               PROVE  IsSplit(page.pre, page.skip, page.top, page.full, off)
    BY DEF PlanIsFirstStop, LeftSlots
  <2>1. off \in 0 .. page.top
    BY PageFacts DEF IInv, TypeOK, Walk
  <2> QED
    BY <2>1 DEF IInv, Walk, Phase, IsSplit
<1> QED
  BY <1>1, InvariantHolds, PTL

\* The left page fits, for entries of any size.
LEMMA LeftCostBound ==
  ASSUME IInv
  PROVE  page.pre[off] <= page.full
<1>1. /\ page.skip \in Nat /\ page.top \in Nat /\ page.full \in Nat
      /\ page.skip <= page.top
      /\ off \in Nat /\ off <= page.top
  BY PageFacts DEF IInv, TypeOK, Walk
<1>2. CASE off <= page.skip
  <2>1. /\ page.pre[off] <= page.pre[page.skip]
        /\ page.pre[page.skip + 1] <= page.pre[page.top + 1]
    BY <1>1, <1>2, PageFacts DEF IInv, TypeOK
  <2>2. /\ page.pre[off] \in Nat
        /\ page.pre[page.skip] \in Nat
        /\ page.pre[page.skip + 1] \in Nat
        /\ page.pre[page.top + 1] \in Nat
        /\ page.pre[page.top + 1]
             - (page.pre[page.skip + 1] - page.pre[page.skip]) <= page.full
    BY <1>1, PageFacts DEF IInv, TypeOK
  <2> QED
    BY <1>1, <2>1, <2>2
<1>3. CASE off > page.skip
  <2>1. /\ off - 1 \in 0 .. off - 1
        /\ page.skip <= off - 1
        /\ off - 1 + 1 = off
    BY <1>1, <1>3
  <2>2. ~ SplitStops(page.pre, page.skip, page.top, page.full, off - 1)
    BY <2>1 DEF IInv, Walk
  <2>3. ~ (page.pre[off] >= page.full)
    BY <2>1, <2>2 DEF SplitStops
  <2>4. page.pre[off] \in Nat
    BY <1>1, PageFacts DEF IInv, TypeOK
  <2> QED
    BY <1>1, <2>3, <2>4
<1> QED
  BY <1>1, <1>2, <1>3

\* The left page of a split fits, on every page psplit_loop is called for, whatever
\* the sizes of its entries.
THEOREM LeftHalfAlwaysFits == Spec => []LeftHalfFits
<1>1. IInv => LeftHalfFits
  BY LeftCostBound DEF LeftHalfFits, LeftCost, LeftSlots
<1> QED
  BY <1>1, InvariantHolds, PTL

\* Two entries of at most half a page each fit one page together.
LEMMA TwoFit ==
  ASSUME page \in FullPages, HalfBounded, NEW i \in 0 .. page.top
  PROVE  /\ page.pre[i + 1] - page.pre[i] <= page.full \div 2
         /\ i > 0 => page.pre[i + 1] - page.pre[i - 1] <= page.full
<1>1. page.top \in Nat /\ page.full \in Nat /\ page.full \div 2 \in Nat
      /\ 2 * (page.full \div 2) <= page.full
  BY PageFacts
<1>2. page.pre[i + 1] - page.pre[i] <= page.full \div 2
  BY DEF HalfBounded, CostAt
<1>3. CASE i > 0
  <2>1. i - 1 \in 0 .. page.top /\ i - 1 + 1 = i
    BY <1>1, <1>3
  <2>2. page.pre[i] - page.pre[i - 1] <= page.full \div 2
    BY <2>1 DEF HalfBounded, CostAt
  <2>3. page.pre[i + 1] \in Nat /\ page.pre[i] \in Nat /\ page.pre[i - 1] \in Nat
    BY <1>1, <2>1, PageFacts
  <2> QED
    BY <1>1, <1>2, <2>2, <2>3
<1> QED
  BY <1>2, <1>3

\* put's comment says that splits cannot go wrong.  This is the condition
\* under which it is so: when no entry takes more than half a page (with its
\* linp slot), both pages of every split fit and neither is left empty,
\* for every page size.
THEOREM SplitOfHalfBoundedFits == Spec => []HalfBoundedFits
<1>1. IInv => HalfBoundedFits
  <2> SUFFICES ASSUME IInv, pc = "done", HalfBounded
               PROVE  /\ off \in 1 .. page.top
                      /\ page.pre[off] <= page.full
                      /\ page.pre[page.top + 1] - page.pre[off] <= page.full
    BY DEF HalfBoundedFits, LeftSlots, LeftCost, RightCost
  <2>0. page \in FullPages
    BY DEF IInv, TypeOK
  <2>1. /\ page.skip \in Nat /\ page.top \in Nat /\ page.top > 0
        /\ page.full \in Nat /\ page.full > 0 /\ page.skip <= page.top
        /\ page.full \div 2 \in Nat /\ 2 * (page.full \div 2) <= page.full
        /\ off \in Nat /\ off <= page.top
    BY <2>0, PageFacts DEF IInv, TypeOK, Walk
  <2>2. SplitStops(page.pre, page.skip, page.top, page.full, off)
    BY DEF IInv, Phase
  <2>3. /\ page.pre[off] \in Nat /\ page.pre[off + 1] \in Nat
        /\ page.pre[page.top + 1] \in Nat
        /\ page.pre[page.skip] \in Nat /\ page.pre[page.skip + 1] \in Nat
        /\ page.pre[page.top + 1] > page.full
        /\ page.pre[0] = 0
    BY <2>0, <2>1, PageFacts
  <2>4. page.pre[off + 1] - page.pre[off] <= page.full \div 2
    BY <2>0, <2>1, TwoFit
  <2>5. off # 0
    <3> SUFFICES ASSUME off = 0 PROVE FALSE
      OBVIOUS
    <3>1. CASE page.top = 1
      BY <2>0, <2>1, <2>3, <3>1, TwoFit
    <3>2. CASE page.pre[1] >= page.full
      BY <2>1, <2>3, <2>4, <3>2
    <3> QED
      BY <2>1, <2>2, <3>1, <3>2 DEF SplitStops, OldBefore
  <2>6. page.pre[page.top + 1] - page.pre[off] <= page.full
    <3>1. CASE page.pre[off] >= page.full \div 2
      <4>1. page.pre[page.skip + 1] - page.pre[page.skip] <= page.full \div 2
        BY <2>0, <2>1, TwoFit
      <4>2. page.pre[page.top + 1]
              - (page.pre[page.skip + 1] - page.pre[page.skip]) <= page.full
        BY <2>0, PageFacts
      <4> QED
        BY <2>1, <2>3, <3>1, <4>1, <4>2
    <3>2. CASE OldBefore(page.skip, off) + 1 >= page.top
      <4>1. off = page.top \/ off = page.top - 1
        BY <2>1, <3>2 DEF OldBefore
      <4>2. CASE off = page.top
        BY <2>1, <2>3, <2>4, <4>2
      <4>3. CASE off = page.top - 1
        BY <2>0, <2>1, <4>3, TwoFit
      <4> QED
        BY <4>1, <4>2, <4>3
    <3>3. CASE /\ ~ (page.pre[off] >= page.full \div 2)
               /\ page.pre[off + 1] >= page.full
      BY <2>1, <2>3, <2>4, <3>3
    <3> QED
      BY <2>2, <3>1, <3>2, <3>3 DEF SplitStops
  <2> QED
    BY <2>1, <2>5, <2>6, LeftCostBound
<1> QED
  BY <1>1, InvariantHolds, PTL
=============================================================================
