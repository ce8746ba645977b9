-------------------------- MODULE PageSearch_proofs --------------------------
(***************************************************************************)
(* The binary search loop is right on every sorted page, whatever its      *)
(* length: proofs of the invariants that MCPageSearch checks on pages of   *)
(* up to seven entries.                                                    *)
(***************************************************************************)
EXTENDS PageSearch, TLAPS

\* Every variable of the search loop keeps its shape.
TypeOK ==
  /\ search \in Searches
  /\ base \in Nat
  /\ lim \in Nat
  /\ matched \in Nat
  /\ pc \in {"loop", "done"}

\* The loop's bounds stay on the page, the slots before base hold smaller
\* keys (the first slot of a leftmost internal page is not compared), and
\* the slots after the lim candidates hold larger ones.
Bounds ==
  /\ base + lim <= Len(search.ents)
  /\ \A i \in DOMAIN search.ents :
       /\ i <= base =>
            \/ search.ents[i].key < search.key
            \/ ~ search.leaf /\ i = 1
       /\ i > base + lim => search.key < search.ents[i].key

\* How the loop ends: on an equal key, or with no candidate left.
Outcome ==
  /\ matched # 0 =>
       /\ matched \in DOMAIN search.ents
       /\ search.ents[matched].key = search.key
  /\ pc = "done" => matched # 0 \/ lim = 0

IInv == TypeOK /\ Bounds /\ Outcome

\* The length, the domain and the elements of a sequence.
LEMMA SeqFacts ==
  ASSUME NEW S, NEW s \in Seq(S)
  PROVE  /\ Len(s) \in Nat
         /\ DOMAIN s = 1 .. Len(s)
         /\ \A i \in DOMAIN s : s[i] \in S
  OBVIOUS

\* What SearchesAssumption says of the search under way.
LEMMA SearchFacts ==
  ASSUME search \in Searches
  PROVE  /\ Len(search.ents) \in Nat
         /\ DOMAIN search.ents = 1 .. Len(search.ents)
         /\ \A i \in DOMAIN search.ents : search.ents[i].key \in Int
         /\ \A i, j \in DOMAIN search.ents :
              i < j => search.ents[i].key < search.ents[j].key
         /\ search.key \in Int
         /\ search.leaf \in BOOLEAN
         /\ ~ search.leaf => Len(search.ents) # 0
<1>1. /\ search.ents \in Seq([key : Int])
      /\ \A i, j \in DOMAIN search.ents :
           i < j => search.ents[i].key < search.ents[j].key
      /\ search.key \in Int
      /\ search.leaf \in BOOLEAN
      /\ ~ search.leaf => search.ents # <<>>
  BY SearchesAssumption
<1>2. /\ Len(search.ents) \in Nat
      /\ DOMAIN search.ents = 1 .. Len(search.ents)
      /\ \A i \in DOMAIN search.ents : search.ents[i] \in [key : Int]
  BY <1>1, SeqFacts
<1>3. ~ search.leaf => Len(search.ents) # 0
  BY <1>1
<1> QED
  BY <1>1, <1>2, <1>3

\* Half of lim rounded down, as the two branches need it.
LEMMA HalfOfLim ==
  ASSUME NEW n \in Nat, n > 0
  PROVE  /\ n \div 2 \in Nat
         /\ (n - 1) \div 2 \in Nat
         /\ n \div 2 < n
         /\ n \div 2 + 1 + (n - 1) \div 2 = n
  OBVIOUS

\* The slot looked at is on the page.
LEMMA MidOnPage ==
  ASSUME IInv, Looking
  PROVE  /\ Mid \in DOMAIN search.ents
         /\ Mid = base + lim \div 2 + 1
         /\ lim \div 2 \in Nat
         /\ Mid > base
         /\ Mid <= base + lim
<1>1. lim \in Nat /\ lim > 0 /\ base \in Nat
  BY DEF IInv, TypeOK, Looking
<1>2. lim \div 2 \in Nat /\ lim \div 2 < lim
  BY <1>1, HalfOfLim
<1>3. base + lim <= Len(search.ents)
  BY DEF IInv, Bounds
<1> QED
  BY <1>1, <1>2, <1>3, SearchFacts DEF IInv, TypeOK, Mid

\* The invariant holds at the start, where every slot is a candidate.
LEMMA InitIInv == Init => IInv
<1> SUFFICES ASSUME Init PROVE IInv
  OBVIOUS
<1>1. search \in Searches
  BY DEF Init
<1> QED
  BY <1>1, SearchFacts DEF Init, IInv, TypeOK, Bounds, Outcome

\* Every turn of the loop keeps it.
LEMMA NextIInv == IInv /\ [Next]_vars => IInv'
<1> SUFFICES ASSUME IInv, [Next]_vars PROVE IInv'
  OBVIOUS
<1>0. search \in Searches
  BY DEF IInv, TypeOK
<1>1. CASE Equal
  <2>1. Mid \in DOMAIN search.ents /\ search.ents[Mid].key = search.key
    BY <1>1, MidOnPage DEF Equal, MidKey
  <2>2. Mid \in Nat
    BY <1>0, <2>1, SearchFacts
  <2> QED
    BY <1>1, <2>1, <2>2 DEF Equal, IInv, TypeOK, Bounds, Outcome
<1>2. CASE Greater
  <2>1. /\ Mid \in DOMAIN search.ents
        /\ Mid = base + lim \div 2 + 1
        /\ Mid > base
        /\ Mid <= base + lim
    BY <1>2, MidOnPage DEF Greater
  <2>2. /\ (lim - 1) \div 2 \in Nat
        /\ lim \div 2 + 1 + (lim - 1) \div 2 = lim
    BY <1>2, HalfOfLim DEF Greater, Looking, IInv, TypeOK
  <2>3. base \in Nat /\ lim \in Nat /\ Mid \in Nat /\ lim \div 2 \in Nat
    BY <1>0, <1>2, <2>1, SearchFacts, MidOnPage DEF IInv, TypeOK, Greater
  <2>4. base' + lim' = base + lim
    BY <1>2, <2>1, <2>2, <2>3 DEF Greater
  <2>5. \A i \in DOMAIN search.ents : i <= Mid =>
          \/ search.ents[i].key < search.key
          \/ ~ search.leaf /\ i = 1
    <3> SUFFICES ASSUME NEW i \in DOMAIN search.ents, i <= Mid
                 PROVE  \/ search.ents[i].key < search.key
                        \/ ~ search.leaf /\ i = 1
      OBVIOUS
    <3>1. CASE BelowAll
      BY <3>1, <1>0, SearchFacts DEF BelowAll
    <3>2. CASE search.key > MidKey
      <4>1. search.ents[Mid].key < search.key
        BY <3>2, <1>0, <2>1, SearchFacts DEF MidKey
      <4>2. i = Mid \/ search.ents[i].key < search.ents[Mid].key
        BY <1>0, <2>1, SearchFacts
      <4> QED
        BY <4>1, <4>2, <1>0, <2>1, SearchFacts
    <3> QED
      BY <3>1, <3>2, <1>2 DEF Greater
  <2>6. UNCHANGED <<search, matched, pc>> /\ base' = Mid
        /\ lim' = (lim - 1) \div 2 /\ pc = "loop"
    BY <1>2 DEF Greater, Looking
  <2>7. TypeOK'
    BY <2>2, <2>3, <2>6 DEF IInv, TypeOK
  <2>8. Bounds'
    BY <2>4, <2>5, <2>6 DEF IInv, Bounds
  <2>9. Outcome'
    BY <2>6 DEF IInv, Outcome
  <2> QED
    BY <2>7, <2>8, <2>9 DEF IInv
<1>3. CASE Less
  <2>1. /\ Mid \in DOMAIN search.ents
        /\ Mid = base + lim \div 2 + 1
        /\ lim \div 2 \in Nat
        /\ Mid <= base + lim
    BY <1>3, MidOnPage DEF Less
  <2>2. base \in Nat /\ lim \in Nat
    BY DEF IInv, TypeOK
  <2>3. UNCHANGED <<search, base, matched, pc>>
        /\ lim' = lim \div 2 /\ pc = "loop" /\ search.key < MidKey
    BY <1>3 DEF Less, Looking
  <2>4. \A i \in DOMAIN search.ents : i > base + lim \div 2 =>
          search.key < search.ents[i].key
    <3> SUFFICES ASSUME NEW i \in DOMAIN search.ents, i > base + lim \div 2
                 PROVE  search.key < search.ents[i].key
      OBVIOUS
    <3>1. i = Mid \/ search.ents[Mid].key < search.ents[i].key
      BY <1>0, <2>1, <2>2, SearchFacts
    <3> QED
      BY <3>1, <1>0, <2>1, <2>3, SearchFacts DEF MidKey
  <2>5. TypeOK'
    BY <2>1, <2>3 DEF IInv, TypeOK
  <2>6. Bounds'
    BY <1>0, <2>1, <2>2, <2>3, <2>4, SearchFacts DEF IInv, Bounds
  <2>7. Outcome'
    BY <2>3 DEF IInv, Outcome
  <2> QED
    BY <2>5, <2>6, <2>7 DEF IInv
<1>4. CASE Exhausted
  BY <1>4 DEF Exhausted, IInv, TypeOK, Bounds, Outcome
<1>5. CASE UNCHANGED vars
  BY <1>5 DEF vars, IInv, TypeOK, Bounds, Outcome
<1> QED
  BY <1>1, <1>2, <1>3, <1>4, <1>5 DEF Next

\* The inductive invariant of the search loop holds in every reachable state.
THEOREM InvariantHolds == Spec => []IInv
  BY InitIInv, NextIInv, PTL DEF Spec

-----------------------------------------------------------------------------

\* On every sorted leaf, of any length, leaf_search finds the key if it is
\* there and otherwise the slot where it belongs.
THEOREM LeafSearchIsCorrect == Spec => []LeafSearchCorrect
<1>1. IInv => LeafSearchCorrect
  <2> SUFFICES ASSUME IInv, pc = "done", search.leaf
               PROVE  /\ matched # 0 <=> Holds(search.ents, search.key)
                      /\ matched # 0 => search.ents[LeafIdx].key = search.key
                      /\ matched = 0 => IsLeafPos(search.ents, search.key, LeafIdx)
    BY DEF LeafSearchCorrect
  <2>0. search \in Searches /\ base \in Nat /\ lim \in Nat /\ matched \in Nat
    BY DEF IInv, TypeOK
  <2>1. CASE matched # 0
    BY <2>0, <2>1 DEF IInv, Outcome, LeafIdx, Holds
  <2>2. CASE matched = 0
    <3>1. lim = 0
      BY <2>2 DEF IInv, Outcome
    <3>2. \A i \in DOMAIN search.ents :
            /\ i <= base => search.ents[i].key < search.key
            /\ i > base => search.key < search.ents[i].key
      BY <2>0, <3>1, SearchFacts DEF IInv, Bounds
    <3>3. base <= Len(search.ents)
      BY <2>0, <3>1, SearchFacts DEF IInv, Bounds
    <3>4. ~ Holds(search.ents, search.key)
      BY <2>0, <3>2, SearchFacts DEF Holds
    <3>5. IsLeafPos(search.ents, search.key, base + 1)
      BY <2>0, <3>2, <3>3, SearchFacts DEF IsLeafPos
    <3> QED
      BY <2>2, <3>4, <3>5 DEF LeafIdx
  <2> QED
    BY <2>1, <2>2
<1> QED
  BY <1>1, InvariantHolds, PTL

\* On every sorted internal page, of any length and leftmost or not,
\* descend_internal_pick finds the last separator at or below the key.
THEOREM PickIsCorrect == Spec => []PickCorrect
<1>1. IInv => PickCorrect
  <2> SUFFICES ASSUME IInv, pc = "done", ~ search.leaf
               PROVE  IsPick(search.ents, search.key, Pick)
    BY DEF PickCorrect
  <2>0. search \in Searches /\ base \in Nat /\ lim \in Nat /\ matched \in Nat
    BY DEF IInv, TypeOK
  <2>1. CASE matched # 0
    <3>1. matched \in DOMAIN search.ents /\ search.ents[matched].key = search.key
      BY <2>1 DEF IInv, Outcome
    <3> QED
      BY <2>0, <2>1, <3>1, SearchFacts DEF IsPick, Pick
  <2>2. CASE matched = 0
    <3>1. lim = 0
      BY <2>2 DEF IInv, Outcome
    <3>2. \A i \in DOMAIN search.ents :
            /\ i <= base => search.ents[i].key < search.key \/ i = 1
            /\ i > base => search.key < search.ents[i].key
      BY <2>0, <3>1, SearchFacts DEF IInv, Bounds
    <3>3. base <= Len(search.ents)
      BY <2>0, <3>1, SearchFacts DEF IInv, Bounds
    <3> QED
      BY <2>0, <2>2, <3>2, <3>3, SearchFacts DEF IsPick, Pick
  <2> QED
    BY <2>1, <2>2
<1> QED
  BY <1>1, InvariantHolds, PTL

\* No turn of the loop reads a slot the page does not have.
THEOREM ReadsStayInRange == Spec => []ReadsInRange
<1>1. IInv => ReadsInRange
  BY MidOnPage DEF ReadsInRange
<1> QED
  BY <1>1, InvariantHolds, PTL
=============================================================================
