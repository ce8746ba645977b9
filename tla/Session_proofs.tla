--------------------------- MODULE Session_proofs ---------------------------
(***************************************************************************)
(* The life of a file, for every set of keys and values, every page size,  *)
(* every arena and every kind of damage: that a finished file opens, that  *)
(* what is mapped stays, and what lookups and scans of a whole or damaged  *)
(* file return.                                                            *)
(***************************************************************************)
EXTENDS Session, BTreeKeys_proofs

-----------------------------------------------------------------------------
(* The tree as a reader walks through it.                                  *)

\* ps is a tree of all its pages between two calls.
Planted(ps, lo, lv) ==
  /\ ps \in Seq(AnyPage)
  /\ Shape(ps, DOMAIN ps, lo, lv)
  /\ Attached(ps, DOMAIN ps, P_INVALID)
  /\ Kinds(ps) /\ InOrder(ps) /\ Linked(ps)

\* d follows c on its level, or c is its last page.
NextOnLevel(ps, lo, lv, c) ==
  LET d == ps[c].next
  IN  /\ d # P_INVALID =>
           /\ d \in DOMAIN ps /\ lv[d] = lv[c] /\ lo[c] < lo[d]
           /\ \A q \in DOMAIN ps : lv[q] = lv[c] /\ lo[c] < lo[q] => lo[d] <= lo[q]
      /\ d = P_INVALID => \A q \in DOMAIN ps : lv[q] = lv[c] => lo[q] <= lo[c]

\* The numbers a tree consists of.
LEMMA PlantedNumbers ==
  ASSUME NEW ps, NEW lo, NEW lv, Planted(ps, lo, lv)
  PROVE  /\ P_ROOT \in DOMAIN ps /\ lo[P_ROOT] = 0 /\ P_INVALID \notin DOMAIN ps
         /\ \A p \in DOMAIN ps : /\ lo[p] \in Nat /\ lv[p] \in Nat
                                 /\ lv[p] <= lv[P_ROOT]
                                 /\ ps[p].leaf \in BOOLEAN
                                 /\ (ps[p].leaf <=> lv[p] = 0)
                                 /\ DOMAIN ps[p].ents = 1 .. Len(ps[p].ents)
                                 /\ Len(ps[p].ents) \in Nat
<1>1. ps \in Seq(AnyPage) /\ Shape(ps, DOMAIN ps, lo, lv)
  BY DEF Planted
<1>2. P_INVALID \notin DOMAIN ps
  BY <1>1, SeqFacts DEF P_INVALID
<1>3. \A p \in DOMAIN ps : /\ ps[p].leaf \in BOOLEAN
                           /\ DOMAIN ps[p].ents = 1 .. Len(ps[p].ents)
                           /\ Len(ps[p].ents) \in Nat
  BY <1>1, EntsFacts, SeqFacts
<1> QED
  BY <1>1, <1>2, <1>3 DEF Shape, Measured

\* The first key of an internal page is the least it may hold.
LEMMA FirstIsLeast ==
  ASSUME NEW ps, NEW lo, NEW lv, Planted(ps, lo, lv), NEW p \in DOMAIN ps, ~ ps[p].leaf
  PROVE  /\ 1 \in DOMAIN ps[p].ents /\ ps[p].ents[1].key = lo[p]
         /\ \A i \in DOMAIN ps[p].ents : /\ ps[p].ents[i].child \in DOMAIN ps
                                         /\ lv[ps[p].ents[i].child] + 1 = lv[p]
                                         /\ lo[ps[p].ents[i].child] = ps[p].ents[i].key
                                         /\ lo[p] <= ps[p].ents[i].key
                                         /\ ps[p].ents[i].key \in Nat
<1>1. Shape(ps, DOMAIN ps, lo, lv) /\ ps \in Seq(AnyPage)
  BY DEF Planted
<1>2. \A i \in DOMAIN ps[p].ents : /\ ps[p].ents[i].child \in DOMAIN ps
                                   /\ lv[ps[p].ents[i].child] + 1 = lv[p]
                                   /\ lo[ps[p].ents[i].child] = ps[p].ents[i].key
                                   /\ lo[p] <= ps[p].ents[i].key
                                   /\ ps[p].ents[i].key \in Nat
  BY <1>1, KeysNat DEF Shape, Hanging, FirstKeys
<1>3. PICK j \in DOMAIN ps[p].ents : ps[p].ents[j].key = lo[p]
  BY <1>1 DEF Shape, FirstKeys
<1>4. PICK n : n = Len(ps[p].ents) /\ n \in Nat /\ DOMAIN ps[p].ents = 1 .. n
  BY PlantedNumbers
<1>5. j \in 1 .. n /\ 1 \in 1 .. n
  BY <1>3, <1>4
<1>6. lo[p] \in Nat /\ lo[p] <= ps[p].ents[1].key /\ ps[p].ents[1].key \in Nat
  BY <1>2, <1>4, <1>5, PlantedNumbers
<1>7. 1 < j => ps[p].ents[1].key < ps[p].ents[j].key
  BY <1>1, <1>4, <1>5 DEF Shape, Ordered, Ascending
<1>8. ps[p].ents[1].key = lo[p]
  BY <1>3, <1>5, <1>6, <1>7
<1> QED
  BY <1>2, <1>4, <1>5, <1>8

\* Alone on its level is the root.
LEMMA RootAlone ==
  ASSUME NEW ps, NEW lo, NEW lv, Planted(ps, lo, lv),
         NEW q \in DOMAIN ps, lv[q] = lv[P_ROOT]
  PROVE  q = P_ROOT
<1> SUFFICES ASSUME q # P_ROOT PROVE FALSE
  OBVIOUS
<1>1. q \in DOMAIN ps \ {P_ROOT, P_INVALID}
  BY PlantedNumbers
<1>2. PICK p \in DOMAIN ps : ~ ps[p].leaf /\
             \E i \in DOMAIN ps[p].ents : ps[p].ents[i].child = q
  BY <1>1 DEF Planted, Attached
<1>3. lv[q] + 1 = lv[p]
  BY <1>2, FirstIsLeast
<1>4. lv[p] <= lv[P_ROOT] /\ lv[p] \in Nat /\ lv[q] \in Nat /\ lv[P_ROOT] \in Nat
  BY PlantedNumbers
<1> QED
  BY <1>3, <1>4

\* A page of the level below hangs from a page of this level.
LEMMA HangsFrom ==
  ASSUME NEW ps, NEW lo, NEW lv, Planted(ps, lo, lv),
         NEW c \in DOMAIN ps, c # P_ROOT
  PROVE  \E q \in DOMAIN ps : /\ ~ ps[q].leaf /\ lv[q] = lv[c] + 1
                              /\ \E i \in DOMAIN ps[q].ents :
                                   ps[q].ents[i].child = c /\ lo[c] = ps[q].ents[i].key
<1>1. c \in DOMAIN ps \ {P_ROOT, P_INVALID}
  BY PlantedNumbers
<1>2. PICK q \in DOMAIN ps : ~ ps[q].leaf /\
             \E i \in DOMAIN ps[q].ents : ps[q].ents[i].child = c
  BY <1>1 DEF Planted, Attached
<1> QED
  BY <1>2, FirstIsLeast

\* The pages of a level are apart: what hangs from a later one begins later.
LEMMA LaterBelow ==
  ASSUME NEW ps, NEW lo, NEW lv, Planted(ps, lo, lv),
         NEW p \in DOMAIN ps, NEW q \in DOMAIN ps,
         ~ ps[p].leaf, ~ ps[q].leaf, lv[p] = lv[q], lo[p] < lo[q],
         NEW i \in DOMAIN ps[p].ents, NEW j \in DOMAIN ps[q].ents
  PROVE  ps[p].ents[i].key < lo[q] /\ ps[p].ents[i].key < ps[q].ents[j].key
<1>1. lo[p] \in Nat /\ lo[q] \in Nat /\ lv[p] \in Nat /\ lv[q] \in Nat
  BY PlantedNumbers
<1>2. ps[p].ents[i].key \in Nat /\ ps[q].ents[j].key \in Nat /\ lo[q] <= ps[q].ents[j].key
  BY FirstIsLeast
<1>3. ps[p].ents[i].key < lo[q]
  BY <1>1 DEF Planted, Shape, Below
<1> QED
  BY <1>1, <1>2, <1>3

\* The step down: what the next links are to a level they are to the one below.
LEMMA LevelBelow ==
  ASSUME NEW ps, NEW lo, NEW lv, Planted(ps, lo, lv), NEW n \in Nat,
         \A q \in DOMAIN ps : lv[q] = n + 1 => NextOnLevel(ps, lo, lv, q),
         NEW c \in DOMAIN ps, lv[c] = n, c # P_ROOT
  PROVE  NextOnLevel(ps, lo, lv, c)
<1>1. PICK q \in DOMAIN ps : /\ ~ ps[q].leaf /\ lv[q] = n + 1
                             /\ \E i \in DOMAIN ps[q].ents :
                                  ps[q].ents[i].child = c /\ lo[c] = ps[q].ents[i].key
  BY HangsFrom
<1>2. PICK i \in DOMAIN ps[q].ents : ps[q].ents[i].child = c /\ lo[c] = ps[q].ents[i].key
  BY <1>1
<1>3. ps[c].next = ChildAfter(ps, q, i)
  BY <1>1, <1>2, PlantedNumbers DEF Planted, InOrder, Follows, EndOf
<1>4. NextOnLevel(ps, lo, lv, q)
  BY <1>1
<1>5. PICK m : m = Len(ps[q].ents) /\ m \in Nat /\ DOMAIN ps[q].ents = 1 .. m
  BY PlantedNumbers
<1>6. /\ lo[c] \in Nat /\ lo[q] \in Nat /\ lo[q] <= lo[c]
      /\ \A d \in DOMAIN ps : lo[d] \in Nat
  BY <1>2, FirstIsLeast, <1>1, PlantedNumbers
\* A page d that comes after c hangs from q, or from a page after q.
<1>7. ASSUME NEW d \in DOMAIN ps, lv[d] = n, lo[c] < lo[d]
      PROVE  \/ \E j \in DOMAIN ps[q].ents : i < j /\ lo[d] = ps[q].ents[j].key
             \/ \E r \in DOMAIN ps : lv[r] = n + 1 /\ lo[q] < lo[r] /\ lo[r] <= lo[d]
  <2>1. d # P_ROOT
    <3>1. lv[q] <= lv[P_ROOT] /\ lv[P_ROOT] \in Nat
      BY PlantedNumbers
    <3> QED
      BY <1>1, <1>7, <3>1
  <2>2. PICK r \in DOMAIN ps : /\ ~ ps[r].leaf /\ lv[r] = lv[d] + 1
                               /\ \E j \in DOMAIN ps[r].ents :
                                    ps[r].ents[j].child = d /\ lo[d] = ps[r].ents[j].key
    BY <2>1, HangsFrom
  <2>3. PICK j \in DOMAIN ps[r].ents : ps[r].ents[j].child = d /\ lo[d] = ps[r].ents[j].key
    BY <2>2
  <2>4. lo[r] \in Nat /\ lo[d] \in Nat /\ lo[r] <= lo[d] /\ lv[r] = n + 1
    BY <1>6, <1>7, <2>2, <2>3, FirstIsLeast
  <2>5. CASE r = q
    <3>1. i \in 1 .. m /\ j \in 1 .. m
      BY <1>5, <2>5
    <3>2. ~ (j <= i)
      <4>1. j < i => ps[q].ents[j].key < ps[q].ents[i].key
        BY <2>5 DEF Planted, Shape, Ordered, Ascending
      <4>2. ps[q].ents[j].key = lo[d] /\ ps[q].ents[i].key = lo[c]
        BY <1>2, <2>3, <2>5
      <4>3. j # i
        BY <1>6, <1>7, <2>4, <4>2
      <4>4. ~ (j < i)
        BY <1>6, <1>7, <2>4, <4>1, <4>2
      <4> QED
        BY <3>1, <4>3, <4>4
    <3> QED
      BY <2>3, <2>5, <3>1, <3>2
  <2>6. CASE lo[q] < lo[r]
    BY <2>4, <2>6
  <2>7. CASE lo[r] < lo[q]
    <3>1. ps[r].ents[j].key < ps[q].ents[i].key
      BY <1>1, <2>2, <2>4, <2>7, LaterBelow
    <3> QED
      BY <1>2, <1>6, <1>7, <2>3, <2>4, <3>1
  <2>8. CASE lo[r] = lo[q]
    <3>1. r = q
      BY <1>1, <2>4, <2>8 DEF Planted, Shape, Apart
    <3> QED
      BY <2>5, <3>1
  <2> QED
    BY <1>6, <2>4, <2>6, <2>7, <2>8
<1>8. CASE i < m
  <2>1. i + 1 \in DOMAIN ps[q].ents /\ i \in Nat
    BY <1>5, <1>8
  <2>2. ps[c].next = ps[q].ents[i + 1].child
    BY <1>3, <1>5, <1>8 DEF ChildAfter
  <2>3. PICK d : d = ps[c].next
    OBVIOUS
  <2>4. d \in DOMAIN ps /\ lv[d] + 1 = lv[q] /\ lo[d] = ps[q].ents[i + 1].key
    BY <1>1, <2>1, <2>2, <2>3, FirstIsLeast
  <2>5. lv[d] = n
    BY <1>1, <2>4, PlantedNumbers
  <2>6. lo[c] < lo[d]
    <3>1. i < i + 1
      BY <2>1
    <3>2. ps[q].ents[i].key < ps[q].ents[i + 1].key
      BY <2>1, <3>1 DEF Planted, Shape, Ordered, Ascending
    <3> QED
      BY <1>2, <2>4, <3>2
  <2>7. ASSUME NEW e \in DOMAIN ps, lv[e] = n, lo[c] < lo[e]
        PROVE  lo[d] <= lo[e]
    <3>1. lo[d] \in Nat /\ lo[e] \in Nat
      BY <1>6, <2>4
    <3>2. CASE \E j \in DOMAIN ps[q].ents : i < j /\ lo[e] = ps[q].ents[j].key
      <4>1. PICK j \in DOMAIN ps[q].ents : i < j /\ lo[e] = ps[q].ents[j].key
        BY <3>2
      <4>2. j = i + 1 \/ i + 1 < j
        BY <1>5, <2>1, <4>1
      <4>3. i + 1 < j => ps[q].ents[i + 1].key < ps[q].ents[j].key
        BY <2>1 DEF Planted, Shape, Ordered, Ascending
      <4> QED
        BY <2>4, <3>1, <4>1, <4>2, <4>3
    <3>3. CASE \E r \in DOMAIN ps : lv[r] = n + 1 /\ lo[q] < lo[r] /\ lo[r] <= lo[e]
      <4>1. PICK r \in DOMAIN ps : lv[r] = n + 1 /\ lo[q] < lo[r] /\ lo[r] <= lo[e]
        BY <3>3
      <4>2. ps[q].ents[i + 1].key < lo[r]
        BY <1>1, <2>1, <4>1 DEF Planted, Shape, Below
      <4>3. lo[r] \in Nat
        BY <1>6
      <4> QED
        BY <2>4, <3>1, <4>1, <4>2, <4>3
    <3> QED
      BY <1>7, <2>7, <3>2, <3>3
  <2>8. d # P_INVALID
    BY <2>4, PlantedNumbers
  <2> QED
    BY <2>3, <2>4, <2>5, <2>6, <2>7, <2>8 DEF NextOnLevel
<1>9. CASE ~ (i < m) /\ ps[q].next = P_INVALID
  <2>1. ps[c].next = P_INVALID
    BY <1>3, <1>5, <1>9 DEF ChildAfter
  <2>2. \A r \in DOMAIN ps : lv[r] = n + 1 => lo[r] <= lo[q]
    BY <1>1, <1>4, <1>9 DEF NextOnLevel
  <2>3. ASSUME NEW e \in DOMAIN ps, lv[e] = n, lo[c] < lo[e] PROVE FALSE
    <3>1. ~ \E j \in DOMAIN ps[q].ents : i < j /\ lo[e] = ps[q].ents[j].key
      BY <1>5, <1>9
    <3>2. PICK r \in DOMAIN ps : lv[r] = n + 1 /\ lo[q] < lo[r] /\ lo[r] <= lo[e]
      BY <1>7, <2>3, <3>1
    <3> QED
      BY <1>6, <2>2, <3>2
  <2>4. \A e \in DOMAIN ps : lv[e] = n => lo[e] <= lo[c]
    BY <1>6, <2>3
  <2> QED
    BY <2>1, <2>4 DEF NextOnLevel
<1>10. CASE ~ (i < m) /\ ps[q].next # P_INVALID
  <2>1. PICK r : r = ps[q].next
    OBVIOUS
  <2>2. /\ r \in DOMAIN ps /\ lv[r] = n + 1 /\ lo[q] < lo[r]
        /\ \A e \in DOMAIN ps : lv[e] = n + 1 /\ lo[q] < lo[e] => lo[r] <= lo[e]
    BY <1>1, <1>4, <1>10, <2>1 DEF NextOnLevel
  <2>3. PICK d : d = ps[r].ents[1].child
    OBVIOUS
  <2>4. ps[c].next = d
    BY <1>3, <1>5, <1>10, <2>1, <2>3 DEF ChildAfter, FirstChild
  <2>5. ~ ps[r].leaf
    BY <2>2, PlantedNumbers
  <2>6. d \in DOMAIN ps /\ lv[d] + 1 = n + 1 /\ lo[d] = lo[r]
    BY <2>2, <2>3, <2>5, FirstIsLeast
  <2>7. lv[d] = n
    BY <2>6, PlantedNumbers
  <2>8. lo[c] < lo[d]
    BY <1>1, <1>2, <2>2, <2>5, <2>6 DEF Planted, Shape, Below
  <2>9. ASSUME NEW e \in DOMAIN ps, lv[e] = n, lo[c] < lo[e]
        PROVE  lo[d] <= lo[e]
    <3>1. ~ \E j \in DOMAIN ps[q].ents : i < j /\ lo[e] = ps[q].ents[j].key
      BY <1>5, <1>10
    <3>2. PICK s \in DOMAIN ps : lv[s] = n + 1 /\ lo[q] < lo[s] /\ lo[s] <= lo[e]
      BY <1>7, <2>9, <3>1
    <3>3. lo[r] <= lo[s]
      BY <2>2, <3>2
    <3> QED
      BY <1>6, <2>2, <2>6, <3>2, <3>3
  <2>10. d # P_INVALID
    BY <2>6, PlantedNumbers
  <2> QED
    BY <2>4, <2>6, <2>7, <2>8, <2>9, <2>10 DEF NextOnLevel
<1> QED
  BY <1>8, <1>9, <1>10

\* The next links of every level visit its pages in the order of their keys.
LEMMA LevelsInOrder ==
  ASSUME NEW ps, NEW lo, NEW lv, Planted(ps, lo, lv), NEW c \in DOMAIN ps
  PROVE  NextOnLevel(ps, lo, lv, c)
<1> DEFINE h == lv[P_ROOT]
           T == {k \in Nat : \A q \in DOMAIN ps : lv[q] + k = h => NextOnLevel(ps, lo, lv, q)}
<1>1. h \in Nat /\ \A q \in DOMAIN ps : lv[q] \in Nat /\ lv[q] <= h
  BY PlantedNumbers
<1>2. 0 \in T
  <2> SUFFICES ASSUME NEW q \in DOMAIN ps, lv[q] + 0 = h PROVE NextOnLevel(ps, lo, lv, q)
    OBVIOUS
  <2>1. lv[q] = h
    BY <1>1
  <2>2. q = P_ROOT
    BY <2>1, RootAlone
  <2>3. ps[q].next = P_INVALID
    BY <2>2 DEF Planted, Kinds
  <2>4. \A r \in DOMAIN ps : lv[r] = lv[q] => lo[r] <= lo[q]
    <3> SUFFICES ASSUME NEW r \in DOMAIN ps, lv[r] = lv[q] PROVE lo[r] <= lo[q]
      OBVIOUS
    <3>1. r = q
      BY <2>1, <2>2, RootAlone
    <3> QED
      BY <3>1, PlantedNumbers
  <2> QED
    BY <2>3, <2>4 DEF NextOnLevel
<1>3. ASSUME NEW k \in T PROVE k + 1 \in T
  <2> SUFFICES ASSUME NEW q \in DOMAIN ps, lv[q] + (k + 1) = h
               PROVE  NextOnLevel(ps, lo, lv, q)
    OBVIOUS
  <2>1. k \in Nat /\ \A r \in DOMAIN ps : lv[r] + k = h => NextOnLevel(ps, lo, lv, r)
    OBVIOUS
  <2>2. PICK n : n = lv[q]
    OBVIOUS
  <2>3. n \in Nat /\ n # h /\ q # P_ROOT
    BY <1>1, <2>1, <2>2
  <2>4. \A r \in DOMAIN ps : lv[r] = n + 1 => lv[r] + k = h
    BY <1>1, <2>1, <2>2, <2>3
  <2>5. \A r \in DOMAIN ps : lv[r] = n + 1 => NextOnLevel(ps, lo, lv, r)
    BY <2>1, <2>4
  <2> QED
    BY <2>2, <2>3, <2>5, LevelBelow
<1>4. T = Nat
  <2>1. T \in SUBSET Nat
    OBVIOUS
  <2> HIDE DEF T
  <2> QED
    BY <1>2, <1>3, <2>1, NatInd
<1>5. h - lv[c] \in T /\ lv[c] + (h - lv[c]) = h
  BY <1>1, <1>4
<1> QED
  BY <1>5

-----------------------------------------------------------------------------
(* What is stored, in the order of keys.                                   *)

\* The list s is what a scan has returned when the entry of key k comes next.
Returned(ps, s, k) ==
  /\ Ascending(s)
  /\ Pairs(s) = {kv \in StoredIn(ps) : kv[1] < k}

\* Between the keys k1 and k2 nothing is stored.
NoneBetween(ps, k1, k2) ==
  \A kv \in StoredIn(ps) : ~ (k1 < kv[1] /\ kv[1] < k2)

\* A pair that is stored is in an entry of a leaf.
LEMMA StoredPlace ==
  ASSUME NEW ps, NEW lo, NEW lv, Planted(ps, lo, lv), NEW kv \in StoredIn(ps)
  PROVE  \E q \in DOMAIN ps : /\ ps[q].leaf
                              /\ \E j \in DOMAIN ps[q].ents :
                                   /\ kv = KV(ps[q].ents[j]) /\ kv[1] = ps[q].ents[j].key
                                   /\ kv[1] \in Nat /\ lo[q] <= kv[1]
<1>1. PICK q \in DOMAIN ps : ps[q].leaf /\ kv \in Pairs(ps[q].ents)
  BY DEF StoredIn
<1>2. PICK j \in DOMAIN ps[q].ents : kv = KV(ps[q].ents[j])
  BY <1>1 DEF Pairs
<1>3. kv[1] = ps[q].ents[j].key
  BY <1>2 DEF KV
<1>4. ps[q].ents[j].key \in Nat
  BY KeysNat DEF Planted
<1>5. lo[q] <= ps[q].ents[j].key
  BY DEF Planted, Shape, FirstKeys
<1> QED
  BY <1>1, <1>2, <1>3, <1>4, <1>5

\* An entry of a leaf is stored.
LEMMA PlaceStored ==
  ASSUME NEW ps, NEW q \in DOMAIN ps, ps[q].leaf, NEW j \in DOMAIN ps[q].ents
  PROVE  KV(ps[q].ents[j]) \in StoredIn(ps)
  BY DEF StoredIn, Pairs

\* Where leaf q lies beside leaf p, its keys do.
LEMMA LeavesApart ==
  ASSUME NEW ps, NEW lo, NEW lv, Planted(ps, lo, lv),
         NEW p \in DOMAIN ps, NEW q \in DOMAIN ps, ps[p].leaf, ps[q].leaf
  PROVE  /\ lo[p] \in Nat /\ lo[q] \in Nat
         /\ lo[p] = lo[q] => p = q
         /\ lo[p] < lo[q] => \A i \in DOMAIN ps[p].ents : ps[p].ents[i].key < lo[q]
<1>1. /\ lo[p] \in Nat /\ lo[q] \in Nat /\ lv[p] = 0 /\ lv[q] = 0
  BY PlantedNumbers
<1> QED
  BY <1>1 DEF Planted, Shape, Apart, Below

\* There is one pair for a key.
LEMMA OnePerKey ==
  ASSUME NEW ps, NEW lo, NEW lv, Planted(ps, lo, lv),
         NEW x \in StoredIn(ps), NEW y \in StoredIn(ps), x[1] = y[1]
  PROVE  x = y
<1>1. PICK p \in DOMAIN ps : /\ ps[p].leaf
                             /\ \E j \in DOMAIN ps[p].ents :
                                  /\ x = KV(ps[p].ents[j]) /\ x[1] = ps[p].ents[j].key
                                  /\ x[1] \in Nat /\ lo[p] <= x[1]
  BY StoredPlace
<1>2. PICK i \in DOMAIN ps[p].ents :
        /\ x = KV(ps[p].ents[i]) /\ x[1] = ps[p].ents[i].key
        /\ x[1] \in Nat /\ lo[p] <= x[1]
  BY <1>1
<1>3. PICK q \in DOMAIN ps : /\ ps[q].leaf
                             /\ \E j \in DOMAIN ps[q].ents :
                                  /\ y = KV(ps[q].ents[j]) /\ y[1] = ps[q].ents[j].key
                                  /\ y[1] \in Nat /\ lo[q] <= y[1]
  BY StoredPlace
<1>4. PICK j \in DOMAIN ps[q].ents :
        /\ y = KV(ps[q].ents[j]) /\ y[1] = ps[q].ents[j].key
        /\ y[1] \in Nat /\ lo[q] <= y[1]
  BY <1>3
<1>5. /\ lo[p] \in Nat /\ lo[q] \in Nat
      /\ lo[p] = lo[q] => p = q
      /\ lo[p] < lo[q] => x[1] < lo[q]
      /\ lo[q] < lo[p] => y[1] < lo[p]
  BY <1>1, <1>2, <1>3, <1>4, LeavesApart
<1>6. p = q
  BY <1>2, <1>4, <1>5
<1>7. i < j => ps[p].ents[i].key < ps[p].ents[j].key
  BY <1>2, <1>4, <1>6 DEF Planted, Shape, Ordered, Ascending
<1>8. j < i => ps[p].ents[j].key < ps[p].ents[i].key
  BY <1>2, <1>4, <1>6 DEF Planted, Shape, Ordered, Ascending
<1>9. i \in Nat /\ j \in Nat
  BY <1>2, <1>4, PlantedNumbers
<1>10. i = j
  BY <1>2, <1>4, <1>6, <1>7, <1>8, <1>9
<1> QED
  BY <1>2, <1>4, <1>6, <1>10

\* In a leaf nothing is between two entries.
LEMMA InsideLeaf ==
  ASSUME NEW ps, NEW lo, NEW lv, Planted(ps, lo, lv),
         NEW p \in DOMAIN ps, ps[p].leaf,
         NEW i \in DOMAIN ps[p].ents, i + 1 \in DOMAIN ps[p].ents
  PROVE  /\ ps[p].ents[i].key < ps[p].ents[i + 1].key
         /\ NoneBetween(ps, ps[p].ents[i].key, ps[p].ents[i + 1].key)
<1>1. i \in Nat
  BY PlantedNumbers
<1>2. i < i + 1
  BY <1>1
<1>3. ps[p].ents[i].key < ps[p].ents[i + 1].key
  BY <1>2 DEF Planted, Shape, Ordered, Ascending
<1>4. ASSUME NEW kv \in StoredIn(ps),
             ps[p].ents[i].key < kv[1], kv[1] < ps[p].ents[i + 1].key
      PROVE  FALSE
  <2>1. PICK q \in DOMAIN ps : /\ ps[q].leaf
                               /\ \E j \in DOMAIN ps[q].ents :
                                    /\ kv = KV(ps[q].ents[j]) /\ kv[1] = ps[q].ents[j].key
                                    /\ kv[1] \in Nat /\ lo[q] <= kv[1]
    BY StoredPlace
  <2>2. PICK j \in DOMAIN ps[q].ents :
          kv[1] = ps[q].ents[j].key /\ kv[1] \in Nat /\ lo[q] <= kv[1]
    BY <2>1
  <2>3. /\ lo[p] \in Nat /\ lo[q] \in Nat
        /\ lo[p] = lo[q] => p = q
        /\ lo[p] < lo[q] => ps[p].ents[i + 1].key < lo[q]
        /\ lo[q] < lo[p] => kv[1] < lo[p]
    BY <2>1, <2>2, LeavesApart
  <2>4. /\ lo[p] <= ps[p].ents[i].key
        /\ ps[p].ents[i].key \in Nat /\ ps[p].ents[i + 1].key \in Nat
    BY KeysNat DEF Planted, Shape, FirstKeys
  <2>5. p = q
    BY <1>4, <2>2, <2>3, <2>4
  <2>6. j \in Nat
    BY <2>2, PlantedNumbers
  <2>7. j < i => ps[p].ents[j].key < ps[p].ents[i].key
    BY <2>2, <2>5 DEF Planted, Shape, Ordered, Ascending
  <2>8. i + 1 < j => ps[p].ents[i + 1].key < ps[p].ents[j].key
    BY <2>2, <2>5 DEF Planted, Shape, Ordered, Ascending
  <2>9. j < i \/ j = i \/ j = i + 1 \/ i + 1 < j
    BY <1>1, <2>6
  <2> QED
    BY <1>4, <2>2, <2>4, <2>5, <2>7, <2>8, <2>9
<1> QED
  BY <1>3, <1>4 DEF NoneBetween

\* From the last entry of leaf p to the first of leaf r, when the leaves
\* between them are empty.
LEMMA AcrossLeaves ==
  ASSUME NEW ps, NEW lo, NEW lv, Planted(ps, lo, lv),
         NEW p \in DOMAIN ps, ps[p].leaf, NEW r \in DOMAIN ps, ps[r].leaf,
         lo[p] < lo[r],
         \A q \in DOMAIN ps : ps[q].leaf /\ lo[p] < lo[q] /\ lo[q] < lo[r] =>
           ps[q].ents = <<>>,
         NEW i \in DOMAIN ps[p].ents, i = Len(ps[p].ents), 1 \in DOMAIN ps[r].ents
  PROVE  /\ ps[p].ents[i].key < ps[r].ents[1].key
         /\ NoneBetween(ps, ps[p].ents[i].key, ps[r].ents[1].key)
<1>1. /\ lo[p] \in Nat /\ lo[r] \in Nat /\ i \in Nat
  BY PlantedNumbers
<1>2. ps[p].ents[i].key \in Nat /\ ps[r].ents[1].key \in Nat
  BY KeysNat DEF Planted
<1>3. lo[r] <= ps[r].ents[1].key /\ lo[p] <= ps[p].ents[i].key
  BY DEF Planted, Shape, FirstKeys
<1>4. ps[p].ents[i].key < lo[r]
  BY LeavesApart
<1>5. /\ lo[p] \in Nat /\ lo[r] \in Nat /\ i \in Nat
      /\ ps[p].ents[i].key \in Nat /\ ps[r].ents[1].key \in Nat
      /\ ps[p].ents[i].key < lo[r] /\ lo[r] <= ps[r].ents[1].key
      /\ lo[p] <= ps[p].ents[i].key
  BY <1>1, <1>2, <1>3, <1>4
<1>6. ASSUME NEW kv \in StoredIn(ps),
             ps[p].ents[i].key < kv[1], kv[1] < ps[r].ents[1].key
      PROVE  FALSE
  <2>1. PICK q \in DOMAIN ps : /\ ps[q].leaf
                               /\ \E j \in DOMAIN ps[q].ents :
                                    /\ kv = KV(ps[q].ents[j]) /\ kv[1] = ps[q].ents[j].key
                                    /\ kv[1] \in Nat /\ lo[q] <= kv[1]
    BY StoredPlace
  <2>2. PICK j \in DOMAIN ps[q].ents :
          kv[1] = ps[q].ents[j].key /\ kv[1] \in Nat /\ lo[q] <= kv[1]
    BY <2>1
  <2>3. /\ lo[q] \in Nat
        /\ lo[p] = lo[q] => p = q
        /\ lo[r] = lo[q] => r = q
        /\ lo[q] < lo[p] => kv[1] < lo[p]
        /\ lo[r] < lo[q] => ps[r].ents[1].key < lo[q]
    BY <2>1, <2>2, LeavesApart
  <2>4. DOMAIN ps[q].ents = 1 .. Len(ps[q].ents) /\ Len(ps[q].ents) \in Nat /\ j \in Nat
    BY <2>2, PlantedNumbers
  <2>5. p # q
    <3> SUFFICES ASSUME p = q PROVE FALSE
      OBVIOUS
    <3>1. j < i => ps[p].ents[j].key < ps[p].ents[i].key
      BY <2>2 DEF Planted, Shape, Ordered, Ascending
    <3>2. j < i \/ j = i
      BY <1>5, <2>2, <2>4
    <3> QED
      BY <1>5, <1>6, <2>2, <3>1, <3>2
  <2>6. r # q
    <3> SUFFICES ASSUME r = q PROVE FALSE
      OBVIOUS
    <3>1. 1 < j => ps[r].ents[1].key < ps[r].ents[j].key
      BY <2>2 DEF Planted, Shape, Ordered, Ascending
    <3>2. 1 < j \/ j = 1
      BY <2>2, <2>4
    <3> QED
      BY <1>5, <1>6, <2>2, <3>1, <3>2
  <2>7. lo[p] < lo[q] /\ lo[q] < lo[r]
    BY <1>5, <1>6, <2>2, <2>3, <2>5, <2>6
  <2>8. ps[q].ents = <<>>
    BY <2>1, <2>7
  <2> QED
    BY <2>2, <2>4, <2>8
<1> QED
  BY <1>5, <1>6 DEF NoneBetween

\* After the last entry of a leaf that only empty leaves follow.
LEMMA AfterLeaf ==
  ASSUME NEW ps, NEW lo, NEW lv, Planted(ps, lo, lv),
         NEW p \in DOMAIN ps, ps[p].leaf,
         \A q \in DOMAIN ps : ps[q].leaf /\ lo[p] < lo[q] => ps[q].ents = <<>>,
         NEW i \in DOMAIN ps[p].ents, i = Len(ps[p].ents),
         NEW kv \in StoredIn(ps)
  PROVE  kv[1] <= ps[p].ents[i].key
<1>1. /\ lo[p] \in Nat /\ i \in Nat /\ ps[p].ents[i].key \in Nat
      /\ lo[p] <= ps[p].ents[i].key
  BY KeysNat, PlantedNumbers DEF Planted, Shape, FirstKeys
<1>2. PICK q \in DOMAIN ps : /\ ps[q].leaf
                             /\ \E j \in DOMAIN ps[q].ents :
                                  /\ kv = KV(ps[q].ents[j]) /\ kv[1] = ps[q].ents[j].key
                                  /\ kv[1] \in Nat /\ lo[q] <= kv[1]
  BY StoredPlace
<1>3. PICK j \in DOMAIN ps[q].ents :
        kv[1] = ps[q].ents[j].key /\ kv[1] \in Nat /\ lo[q] <= kv[1]
  BY <1>2
<1>4. /\ lo[q] \in Nat
      /\ lo[p] = lo[q] => p = q
      /\ lo[q] < lo[p] => kv[1] < lo[p]
  BY <1>2, <1>3, LeavesApart
<1>5. DOMAIN ps[q].ents = 1 .. Len(ps[q].ents) /\ Len(ps[q].ents) \in Nat /\ j \in Nat
  BY <1>3, PlantedNumbers
<1>6. ps[q].ents # <<>>
  BY <1>3, <1>5
<1>7. ~ (lo[p] < lo[q])
  BY <1>2, <1>6
<1>8. CASE p = q
  <2>1. j < i => ps[p].ents[j].key < ps[p].ents[i].key
    BY <1>3, <1>8 DEF Planted, Shape, Ordered, Ascending
  <2>2. j < i \/ j = i
    BY <1>1, <1>3, <1>5, <1>8
  <2> QED
    BY <1>1, <1>3, <1>8, <2>1, <2>2
<1> QED
  BY <1>1, <1>3, <1>4, <1>7, <1>8

\* Nothing is stored before the first entry of the first leaf.
LEMMA FirstOfAll ==
  ASSUME NEW ps, NEW lo, NEW lv, Planted(ps, lo, lv),
         NEW p \in DOMAIN ps, ps[p].leaf, lo[p] = 0, 1 \in DOMAIN ps[p].ents
  PROVE  Returned(ps, <<>>, ps[p].ents[1].key)
<1>1. ps[p].ents[1].key \in Nat
  BY KeysNat DEF Planted
<1>2. ASSUME NEW kv \in StoredIn(ps), kv[1] < ps[p].ents[1].key PROVE FALSE
  <2>1. PICK q \in DOMAIN ps : /\ ps[q].leaf
                               /\ \E j \in DOMAIN ps[q].ents :
                                    /\ kv = KV(ps[q].ents[j]) /\ kv[1] = ps[q].ents[j].key
                                    /\ kv[1] \in Nat /\ lo[q] <= kv[1]
    BY StoredPlace
  <2>2. PICK j \in DOMAIN ps[q].ents :
          kv[1] = ps[q].ents[j].key /\ kv[1] \in Nat /\ lo[q] <= kv[1]
    BY <2>1
  <2>3. /\ lo[q] \in Nat
        /\ lo[p] = lo[q] => p = q
        /\ lo[p] < lo[q] => ps[p].ents[1].key < lo[q]
    BY <2>1, <2>2, LeavesApart
  <2>4. p = q
    BY <1>1, <1>2, <2>2, <2>3
  <2>5. j \in Nat /\ j >= 1
    BY <2>2, PlantedNumbers
  <2>6. 1 < j => ps[p].ents[1].key < ps[p].ents[j].key
    BY <2>2, <2>4 DEF Planted, Shape, Ordered, Ascending
  <2>7. 1 < j \/ j = 1
    BY <2>5
  <2> QED
    BY <1>1, <1>2, <2>2, <2>4, <2>6, <2>7
<1>3. Pairs(<<>>) = {} /\ Ascending(<<>>)
  BY DEF Pairs, Ascending
<1> QED
  BY <1>2, <1>3 DEF Returned

\* One more entry is returned.
LEMMA OneMoreReturned ==
  ASSUME NEW ps, NEW lo, NEW lv, Planted(ps, lo, lv),
         NEW S, NEW s \in Seq(S), NEW e \in S,
         KV(e) \in StoredIn(ps), Returned(ps, s, e.key)
  PROVE  /\ Ascending(Append(s, e))
         /\ Pairs(Append(s, e)) = {kv \in StoredIn(ps) : kv[1] <= e.key}
<1>0. PICK n, t : n = Len(s) /\ t = Append(s, e)
  OBVIOUS
<1>1. /\ n = Len(s) /\ n \in Nat /\ DOMAIN s = 1 .. n
      /\ t = Append(s, e) /\ DOMAIN t = 1 .. n + 1
      /\ \A i \in 1 .. n : t[i] = s[i]
      /\ t[n + 1] = e
  BY <1>0
<1>2. KV(e)[1] = e.key /\ \A i \in DOMAIN s : KV(s[i])[1] = s[i].key
  BY DEF KV
<1>3. \A kv \in StoredIn(ps) : kv[1] \in Nat
  BY StoredPlace
<1>4. e.key \in Nat
  BY <1>2, <1>3
<1>5. \A i \in 1 .. n : s[i].key < e.key
  BY <1>1, <1>2 DEF Returned, Pairs
<1>6. ASSUME NEW i \in 1 .. n + 1, NEW j \in 1 .. n + 1, i < j
      PROVE  t[i].key < t[j].key
  <2>1. i \in 1 .. n
    BY <1>1, <1>6
  <2>2. CASE j = n + 1
    BY <1>1, <1>5, <2>1, <2>2
  <2>3. CASE j # n + 1
    <3>1. j \in 1 .. n
      BY <1>1, <2>3
    <3> QED
      BY <1>1, <1>6, <2>1, <3>1 DEF Returned, Ascending
  <2> QED
    BY <2>2, <2>3
<1>7. Ascending(t)
  BY <1>1, <1>6 DEF Ascending
<1>8. ASSUME NEW kv \in Pairs(t) PROVE kv \in StoredIn(ps) /\ kv[1] <= e.key
  <2>1. PICK i \in 1 .. n + 1 : kv = KV(t[i])
    BY <1>1 DEF Pairs
  <2>2. CASE i = n + 1
    BY <1>1, <1>2, <1>4, <2>1, <2>2
  <2>3. CASE i # n + 1
    <3>1. i \in 1 .. n
      BY <1>1, <2>3
    <3>2. kv \in Pairs(s)
      BY <1>1, <2>1, <3>1 DEF Pairs
    <3> QED
      BY <1>3, <1>4, <3>2 DEF Returned
  <2> QED
    BY <2>2, <2>3
<1>9. ASSUME NEW kv \in StoredIn(ps), kv[1] <= e.key PROVE kv \in Pairs(t)
  <2>1. CASE kv[1] = e.key
    <3>1. kv = KV(e)
      BY <1>2, <2>1, OnePerKey
    <3>2. n + 1 \in DOMAIN t /\ t[n + 1] = e
      BY <1>1
    <3> QED
      BY <3>1, <3>2 DEF Pairs
  <2>2. CASE kv[1] # e.key
    <3>1. kv[1] < e.key
      BY <1>3, <1>4, <1>9, <2>2
    <3>2. kv \in Pairs(s)
      BY <3>1 DEF Returned
    <3>3. PICK i \in DOMAIN s : kv = KV(s[i])
      BY <3>2 DEF Pairs
    <3>4. i \in 1 .. n + 1 /\ t[i] = s[i]
      BY <1>1, <3>3
    <3> QED
      BY <1>1, <3>3, <3>4 DEF Pairs
  <2> QED
    BY <2>1, <2>2
<1> QED
  BY <1>1, <1>7, <1>8, <1>9

\* The entry after it comes next.
LEMMA ReturnedMore ==
  ASSUME NEW ps, NEW lo, NEW lv, Planted(ps, lo, lv),
         NEW S, NEW s \in Seq(S), NEW e \in S,
         KV(e) \in StoredIn(ps), Returned(ps, s, e.key),
         NEW k \in Nat, e.key < k, NoneBetween(ps, e.key, k)
  PROVE  Returned(ps, Append(s, e), k)
<1>1. \A kv \in StoredIn(ps) : kv[1] \in Nat
  BY StoredPlace
<1>2. e.key \in Nat
  BY <1>1 DEF KV
<1>3. \A kv \in StoredIn(ps) : kv[1] <= e.key <=> kv[1] < k
  BY <1>1, <1>2 DEF NoneBetween
<1>4. {kv \in StoredIn(ps) : kv[1] <= e.key} = {kv \in StoredIn(ps) : kv[1] < k}
  BY <1>3
<1> QED
  BY <1>4, OneMoreReturned DEF Returned

\* There is no entry after it.
LEMMA ReturnedAll ==
  ASSUME NEW ps, NEW lo, NEW lv, Planted(ps, lo, lv),
         NEW S, NEW s \in Seq(S), NEW e \in S,
         KV(e) \in StoredIn(ps), Returned(ps, s, e.key),
         \A kv \in StoredIn(ps) : kv[1] <= e.key
  PROVE  Ascending(Append(s, e)) /\ Pairs(Append(s, e)) = StoredIn(ps)
<1>1. {kv \in StoredIn(ps) : kv[1] <= e.key} = StoredIn(ps)
  OBVIOUS
<1>2. /\ Ascending(Append(s, e))
      /\ Pairs(Append(s, e)) = {kv \in StoredIn(ps) : kv[1] <= e.key}
  BY OneMoreReturned
<1> QED
  BY <1>1, <1>2, Zenon

\* The pairs of the set d with keys above those of the list s.
AheadOf(s, d) == IF s = <<>> THEN d ELSE {kv \in d : kv[1] > s[Len(s)].key}

\* What comes next is the least of what is ahead.
LEMMA LeastAhead ==
  ASSUME NEW ps, NEW lo, NEW lv, Planted(ps, lo, lv),
         NEW S, NEW s \in Seq(S), NEW e \in S,
         KV(e) \in StoredIn(ps), Returned(ps, s, e.key)
  PROVE  /\ KV(e) \in AheadOf(s, StoredIn(ps))
         /\ \A kv \in AheadOf(s, StoredIn(ps)) : e.key <= kv[1]
<1>1. PICK n : n = Len(s) /\ n \in Nat /\ DOMAIN s = 1 .. n
  OBVIOUS
<1>2. KV(e)[1] = e.key /\ \A i \in DOMAIN s : KV(s[i])[1] = s[i].key
  BY DEF KV
<1>3. e.key \in Nat /\ \A kv \in StoredIn(ps) : kv[1] \in Nat
  BY <1>2, StoredPlace
<1>4. CASE s = <<>>
  <2>1. Pairs(s) = {}
    BY <1>4 DEF Pairs
  <2>2. \A kv \in StoredIn(ps) : ~ (kv[1] < e.key)
    BY <2>1 DEF Returned
  <2> QED
    BY <1>3, <1>4, <2>2 DEF AheadOf
<1>5. CASE s # <<>>
  <2>1. n \in 1 .. n
    BY <1>1, <1>5
  <2>2. PICK m : m = s[n].key
    OBVIOUS
  <2>3. AheadOf(s, StoredIn(ps)) = {kv \in StoredIn(ps) : kv[1] > m}
    BY <1>1, <1>5, <2>2 DEF AheadOf
  <2>4. KV(s[n]) \in Pairs(s) /\ KV(s[n])[1] = m
    BY <1>1, <1>2, <2>1, <2>2 DEF Pairs
  <2>5. m < e.key /\ m \in Nat
    BY <1>3, <2>4 DEF Returned
  <2>6. ASSUME NEW kv \in StoredIn(ps), kv[1] > m PROVE e.key <= kv[1]
    <3> SUFFICES ASSUME kv[1] < e.key PROVE FALSE
      BY <1>3
    <3>1. kv \in Pairs(s)
      BY DEF Returned
    <3>2. PICK i \in 1 .. n : kv = KV(s[i])
      BY <1>1, <3>1 DEF Pairs
    <3>3. kv[1] = s[i].key
      BY <1>1, <1>2, <3>2
    <3>4. i < n => s[i].key < s[n].key
      BY <1>1, <2>1, <3>2 DEF Returned, Ascending
    <3>5. i = n \/ i < n
      BY <1>1, <3>2
    <3> QED
      BY <1>3, <2>2, <2>5, <2>6, <3>3, <3>4, <3>5
  <2> QED
    BY <1>2, <1>3, <2>3, <2>5, <2>6
<1> QED
  BY <1>4, <1>5

\* When everything has been returned nothing is ahead.
LEMMA NothingAhead ==
  ASSUME NEW ps, NEW lo, NEW lv, Planted(ps, lo, lv),
         NEW S, NEW s \in Seq(S), Ascending(s), Pairs(s) = StoredIn(ps), s # <<>>
  PROVE  AheadOf(s, StoredIn(ps)) = {}
<1>1. PICK n : n = Len(s) /\ n \in Nat /\ DOMAIN s = 1 .. n
  OBVIOUS
<1>2. n \in 1 .. n
  BY <1>1
<1>3. ASSUME NEW kv \in StoredIn(ps), kv[1] > s[n].key PROVE FALSE
  <2>1. PICK i \in 1 .. n : kv = KV(s[i])
    BY <1>1 DEF Pairs
  <2>2. kv[1] = s[i].key /\ kv[1] \in Nat
    BY <1>1, <2>1, StoredPlace DEF KV
  <2>3. KV(s[n]) \in StoredIn(ps)
    BY <1>1, <1>2 DEF Pairs
  <2>4. s[n].key \in Nat
    BY <2>3, StoredPlace DEF KV
  <2>5. i < n => s[i].key < s[n].key
    BY <1>1, <1>2, <2>1 DEF Ascending
  <2>6. i = n \/ i < n
    BY <1>1, <2>1
  <2> QED
    BY <1>3, <2>2, <2>4, <2>5, <2>6
<1> QED
  BY <1>1, <1>3 DEF AheadOf

-----------------------------------------------------------------------------
(* Going down and going along.                                             *)

\* Every lookup begins at the root.
LEMMA RootArrives ==
  ASSUME NEW ps, NEW lo, NEW lv, Planted(ps, lo, lv), NEW k \in Nat
  PROVE  Arrives(DOMAIN ps, lo, lv, P_ROOT, k)
<1>1. P_ROOT \in DOMAIN ps /\ lo[P_ROOT] = 0
  BY PlantedNumbers
<1>2. ASSUME NEW q \in DOMAIN ps, lv[P_ROOT] <= lv[q], lo[P_ROOT] < lo[q] PROVE FALSE
  <2>1. lv[q] <= lv[P_ROOT] /\ lv[q] \in Nat /\ lv[P_ROOT] \in Nat
    BY PlantedNumbers
  <2>2. q = P_ROOT
    BY <1>2, <2>1, RootAlone
  <2> QED
    BY <1>1, <1>2, <2>2
<1> QED
  BY <1>1, <1>2 DEF Arrives

\* And it comes to the leaf that has the key, if any has.
LEMMA LookupLeaf ==
  ASSUME NEW ps, NEW lo, NEW lv, Planted(ps, lo, lv),
         NEW c, NEW k, Arrives(DOMAIN ps, lo, lv, c, k), ps[c].leaf,
         NEW kv \in StoredIn(ps), kv[1] = k
  PROVE  \E j \in DOMAIN ps[c].ents : ps[c].ents[j].key = k
<1>1. PICK q \in DOMAIN ps : /\ ps[q].leaf
                             /\ \E j \in DOMAIN ps[q].ents :
                                  /\ kv = KV(ps[q].ents[j]) /\ kv[1] = ps[q].ents[j].key
                                  /\ kv[1] \in Nat /\ lo[q] <= kv[1]
  BY StoredPlace
<1>2. PICK j \in DOMAIN ps[q].ents :
        kv[1] = ps[q].ents[j].key /\ kv[1] \in Nat /\ lo[q] <= kv[1]
  BY <1>1
<1>3. c \in DOMAIN ps /\ lo[c] <= k
  BY DEF Arrives
<1>4. /\ lo[c] \in Nat /\ lo[q] \in Nat
      /\ lo[c] = lo[q] => c = q
      /\ lo[q] < lo[c] => kv[1] < lo[c]
  BY <1>1, <1>2, <1>3, LeavesApart
<1>5. lv[c] = 0 /\ lv[q] = 0
  BY <1>1, <1>3, PlantedNumbers
<1>6. lo[c] < lo[q] => k < lo[q]
  BY <1>5 DEF Arrives
<1>7. c = q
  BY <1>2, <1>3, <1>4, <1>6
<1> QED
  BY <1>2, <1>7

\* Between leaf p and page c, or from p on if c is none, the leaves are empty.
Toward(ps, lo, p, c) ==
  /\ c # P_INVALID =>
       /\ c \in DOMAIN ps /\ ps[c].leaf /\ lo[p] < lo[c]
       /\ \A q \in DOMAIN ps : ps[q].leaf /\ lo[p] < lo[q] /\ lo[q] < lo[c] =>
            ps[q].ents = <<>>
  /\ c = P_INVALID =>
       \A q \in DOMAIN ps : ps[q].leaf /\ lo[p] < lo[q] => ps[q].ents = <<>>

\* The links of the leaves.
LEMMA NextLeaf ==
  ASSUME NEW ps, NEW lo, NEW lv, Planted(ps, lo, lv), NEW c \in DOMAIN ps, ps[c].leaf
  PROVE  LET d == ps[c].next
         IN  /\ d # P_INVALID =>
                  /\ d \in DOMAIN ps /\ ps[d].leaf /\ lo[c] < lo[d]
                  /\ \A q \in DOMAIN ps : ps[q].leaf /\ lo[c] < lo[q] => lo[d] <= lo[q]
             /\ d = P_INVALID => \A q \in DOMAIN ps : ps[q].leaf => lo[q] <= lo[c]
<1>1. NextOnLevel(ps, lo, lv, c)
  BY LevelsInOrder
<1>2. lv[c] = 0 /\ \A q \in DOMAIN ps : ps[q].leaf <=> lv[q] = 0
  BY PlantedNumbers
<1> QED
  BY <1>1, <1>2 DEF NextOnLevel

\* advance_leaf begins with the next leaf ...
LEMMA TowardStart ==
  ASSUME NEW ps, NEW lo, NEW lv, Planted(ps, lo, lv), NEW p \in DOMAIN ps, ps[p].leaf
  PROVE  Toward(ps, lo, p, ps[p].next)
<1>1. \A q \in DOMAIN ps : lo[q] \in Nat
  BY PlantedNumbers
<1>2. PICK d : d = ps[p].next
  OBVIOUS
<1>3. CASE d # P_INVALID
  <2>1. /\ d \in DOMAIN ps /\ ps[d].leaf /\ lo[p] < lo[d]
        /\ \A q \in DOMAIN ps : ps[q].leaf /\ lo[p] < lo[q] => lo[d] <= lo[q]
    BY <1>2, <1>3, NextLeaf
  <2>2. \A q \in DOMAIN ps : ~ (ps[q].leaf /\ lo[p] < lo[q] /\ lo[q] < lo[d])
    BY <1>1, <2>1
  <2> QED
    BY <1>2, <1>3, <2>1, <2>2 DEF Toward
<1>4. CASE d = P_INVALID
  <2>1. \A q \in DOMAIN ps : ps[q].leaf => lo[q] <= lo[p]
    BY <1>2, <1>4, NextLeaf
  <2>2. \A q \in DOMAIN ps : ~ (ps[q].leaf /\ lo[p] < lo[q])
    BY <1>1, <2>1
  <2> QED
    BY <1>2, <1>4, <2>2 DEF Toward
<1> QED
  BY <1>3, <1>4

\* ... and goes on to the next one when a leaf is empty.
LEMMA TowardOn ==
  ASSUME NEW ps, NEW lo, NEW lv, Planted(ps, lo, lv), NEW p \in DOMAIN ps, ps[p].leaf,
         NEW c, c # P_INVALID, Toward(ps, lo, p, c), ps[c].ents = <<>>
  PROVE  Toward(ps, lo, p, ps[c].next)
<1>1. \A q \in DOMAIN ps : lo[q] \in Nat
  BY PlantedNumbers
<1>2. /\ c \in DOMAIN ps /\ ps[c].leaf /\ lo[p] < lo[c]
      /\ \A q \in DOMAIN ps : ps[q].leaf /\ lo[p] < lo[q] /\ lo[q] < lo[c] =>
           ps[q].ents = <<>>
  BY DEF Toward
<1>3. \A q \in DOMAIN ps : ps[q].leaf /\ lo[q] = lo[c] => q = c
  BY <1>2, LeavesApart
<1>4. PICK d : d = ps[c].next
  OBVIOUS
<1>5. CASE d # P_INVALID
  <2>1. /\ d \in DOMAIN ps /\ ps[d].leaf /\ lo[c] < lo[d]
        /\ \A q \in DOMAIN ps : ps[q].leaf /\ lo[c] < lo[q] => lo[d] <= lo[q]
    BY <1>2, <1>4, <1>5, NextLeaf
  <2>2. ASSUME NEW q \in DOMAIN ps, ps[q].leaf, lo[p] < lo[q], lo[q] < lo[d]
        PROVE  ps[q].ents = <<>>
    <3>1. ~ (lo[c] < lo[q])
      BY <1>1, <2>1, <2>2
    <3>2. lo[q] < lo[c] \/ lo[q] = lo[c]
      BY <1>1, <1>2, <3>1
    <3> QED
      BY <1>2, <1>3, <2>2, <3>2
  <2>3. lo[p] < lo[d]
    BY <1>1, <1>2, <2>1
  <2> QED
    BY <1>4, <1>5, <2>1, <2>2, <2>3 DEF Toward
<1>6. CASE d = P_INVALID
  <2>1. \A q \in DOMAIN ps : ps[q].leaf => lo[q] <= lo[c]
    BY <1>2, <1>4, <1>6, NextLeaf
  <2>2. ASSUME NEW q \in DOMAIN ps, ps[q].leaf, lo[p] < lo[q]
        PROVE  ps[q].ents = <<>>
    <3>1. lo[q] < lo[c] \/ lo[q] = lo[c]
      BY <1>1, <1>2, <2>1, <2>2
    <3> QED
      BY <1>2, <1>3, <2>2, <3>1
  <2> QED
    BY <1>4, <1>6, <2>2 DEF Toward
<1> QED
  BY <1>5, <1>6

\* The leftmost leaf is the only one with nothing before it.
LEMMA FirstLeaf ==
  ASSUME NEW ps, NEW lo, NEW lv, Planted(ps, lo, lv),
         NEW p \in DOMAIN ps, ps[p].leaf, lo[p] = 0,
         NEW q \in DOMAIN ps, ps[q].leaf
  PROVE  ps[q].prev = P_INVALID <=> q = p
<1>1. \A r \in DOMAIN ps : lo[r] \in Nat
  BY PlantedNumbers
<1>2. P_INVALID \notin DOMAIN ps
  BY PlantedNumbers
<1>3. Linked(ps)
  BY DEF Planted
<1>4. ASSUME q = p, ps[q].prev # P_INVALID PROVE FALSE
  <2>1. PICK r : r = ps[p].prev /\ r \in DOMAIN ps /\ ps[r].next = p
    BY <1>3, <1>4 DEF Linked
  <2>2. NextOnLevel(ps, lo, lv, r)
    BY <2>1, LevelsInOrder
  <2>3. lo[r] < lo[p]
    BY <1>2, <2>1, <2>2 DEF NextOnLevel
  <2> QED
    BY <1>1, <2>1, <2>3
<1>5. ASSUME q # p, ps[q].prev = P_INVALID PROVE FALSE
  <2>1. lo[p] < lo[q]
    <3>1. lo[p] # lo[q]
      BY <1>5, LeavesApart
    <3> QED
      BY <1>1, <3>1
  <2> DEFINE T == {m \in Nat : \E r \in DOMAIN ps :
                     ps[r].leaf /\ lo[r] < lo[q] /\ m = lo[q] - lo[r]}
  <2>2. lo[q] - lo[p] \in T
    BY <1>1, <2>1
  <2>3. T \in SUBSET Nat /\ T # {}
    BY <2>2
  <2>4. PICK m \in T : \A o \in T : m <= o
    <3> HIDE DEF T
    <3> QED
      BY <2>3, LeastNat
  <2>5. PICK r \in DOMAIN ps : ps[r].leaf /\ lo[r] < lo[q] /\ m = lo[q] - lo[r]
    BY <2>4
  <2>6. PICK d : d = ps[r].next
    OBVIOUS
  <2>7. d # P_INVALID
    <3> SUFFICES ASSUME d = P_INVALID PROVE FALSE
      OBVIOUS
    <3>1. lo[q] <= lo[r]
      BY <2>5, <2>6, NextLeaf
    <3> QED
      BY <1>1, <2>5, <3>1
  <2>8. d \in DOMAIN ps /\ ps[d].leaf /\ lo[r] < lo[d] /\ lo[d] <= lo[q]
    BY <2>5, <2>6, <2>7, NextLeaf
  <2>9. ~ (lo[d] < lo[q])
    <3> SUFFICES ASSUME lo[d] < lo[q] PROVE FALSE
      OBVIOUS
    <3>1. PICK x, y, z : x = lo[d] /\ y = lo[q] /\ z = lo[r]
      OBVIOUS
    <3>2. x \in Nat /\ y \in Nat /\ z \in Nat
      BY <1>1, <2>5, <2>8, <3>1
    <3>3. y - x \in Nat /\ y - x < y - z
      BY <2>8, <3>1, <3>2
    <3>4. y - x \in T
      BY <2>8, <3>1, <3>3
    <3>5. y - z <= y - x
      BY <2>4, <2>5, <3>1, <3>4
    <3> QED
      BY <3>2, <3>3, <3>5
  <2>10. lo[d] = lo[q]
    BY <1>1, <2>8, <2>9
  <2>11. d = q
    BY <2>8, <2>10, LeavesApart
  <2>12. ps[q].prev = r
    BY <1>3, <2>5, <2>6, <2>7, <2>11 DEF Linked
  <2> QED
    BY <1>2, <1>5, <2>5, <2>12
<1> QED
  BY <1>4, <1>5

-----------------------------------------------------------------------------
(* The writer's end: what becomes of the file.                             *)

\* What of the file there is at each stage of the writer.
DiskFollowsWriter ==
  /\ wst = "none" => disk = NoFile
  /\ wst = "open" => disk = EmptyFile
  /\ wst = "finishing" =>
       \E n \in 0 .. Total, tail \in BOOLEAN :
         /\ disk = File(n, tail, {})
         /\ n = Total => ~ tail
  /\ wst = "finished" => disk = File(Total, FALSE, {})

\* There is a first page in the arena, so a file is never without its meta page.
ArenaOK == Len(pages) \in Nat

\* A file, once there, has a number of whole pages.
PagesCounted == wst # "none" => disk.pages \in Nat

\* Nobody has mapped a file that finish has not begun to write.
MappedLate == db \in Nat /\ (db > 0 => wst \notin {"none", "open"})

SessionIInv ==
  /\ wst \in {"none", "open", "finishing", "finished", "gone"}
  /\ DiskFollowsWriter
  /\ PagesCounted
  /\ MappedLate
  /\ FinishedOpens

\* What DiskFollowsWriter says of a file's parts.
LEMMA FileParts ==
  ASSUME NEW n, NEW tail, NEW lost, disk = File(n, tail, lost)
  PROVE  disk.pages = n /\ disk.tail = tail /\ disk.lost = lost
  BY DEF File

\* Files differ from no file.
LEMMA FileIsThere ==
  ASSUME NEW n, NEW tail, NEW lost
  PROVE  File(n, tail, lost) # NoFile
<1>1. "absent" \notin DOMAIN File(n, tail, lost)  BY DEF File
<1>2. "absent" \in DOMAIN NoFile  BY DEF NoFile
<1> QED  BY <1>1, <1>2

\* A file of no bytes does not open.
LEMMA EmptyDoesNotOpen == disk = EmptyFile => "ok" \notin OpenOutcomes
<1> SUFFICES ASSUME disk = EmptyFile PROVE "ok" \notin OpenOutcomes  OBVIOUS
<1>1. disk.pages = 0 /\ disk.tail = FALSE  BY FileParts DEF EmptyFile
<1>2. disk # NoFile  BY FileIsThere DEF EmptyFile
<1> QED  BY <1>1, <1>2 DEF OpenOutcomes

\* A whole file opens.
LEMMA WholeOpens ==
  ASSUME ArenaOK, disk = File(Total, FALSE, {})
  PROVE  OpenOutcomes = {"ok"}
<1>1. /\ disk.pages = Total
      /\ disk.tail = FALSE
      /\ disk.lost = {}
  BY FileParts
<1>2. disk # NoFile  BY FileIsThere
<1>3. Total # 0  BY DEF Total, ArenaOK
<1> QED  BY <1>1, <1>2, <1>3 DEF OpenOutcomes

\* The session's steps, and what each leaves alone.
LEMMA OnlyWriterCallsChangePages ==
  ASSUME [SessionNext]_sessionVars, wst # "open"
  PROVE  pages' = pages
  BY DEF SessionNext, sessionVars, vars, CreateNew, CreateNewFails, WriterCall, Drop,
         FinishBegin, FinishWrite, FinishDone, FinishFails, Open, OpenFails, Close,
         Lookup, Scan, Crash

\* The session starts in the invariant.
LEMMA SessionInitEstablishes == SessionInit => SessionIInv
  BY DEF SessionInit, SessionIInv, DiskFollowsWriter, PagesCounted, MappedLate, FinishedOpens

\* A file grows, and keeps its length in a crash.
LEMMA PagesStayCounted ==
  ASSUME ArenaOK, SessionIInv, [SessionNext]_sessionVars
  PROVE  PagesCounted'
<1> USE DEF SessionIInv
<1>1. CASE CreateNew
  BY <1>1 DEF CreateNew, PagesCounted, EmptyFile, File
<1>2. CASE FinishWrite
  <2>1. PICK n \in disk.pages .. Total, tail \in BOOLEAN : disk' = File(n, tail, {})
    BY <1>2 DEF FinishWrite
  <2>2. disk.pages \in Nat /\ Total \in Nat
    BY <1>2 DEF FinishWrite, PagesCounted, Total, ArenaOK
  <2>3. disk'.pages = n  BY <2>1 DEF File
  <2> QED  BY <2>2, <2>3 DEF PagesCounted
<1>3. CASE Crash
  <2>1. PICK lost : disk' = File(disk.pages, disk.tail, lost)
    BY <1>3 DEF Crash
  <2>2. disk'.pages = disk.pages  BY <2>1 DEF File
  <2> QED  BY <1>3, <2>2 DEF Crash, PagesCounted
<1>4. CASE ~ (CreateNew \/ FinishWrite \/ Crash)
  BY <1>4
  DEF SessionNext, sessionVars, CreateNewFails, WriterCall, Drop, FinishBegin,
      FinishDone, FinishFails, Open, OpenFails, Close, Lookup, Scan, fileVars,
      PagesCounted
<1> QED  BY <1>1, <1>2, <1>3, <1>4

\* Every step keeps the file in step with the writer.
LEMMA SessionNextPreserves ==
  ArenaOK /\ SessionIInv /\ [SessionNext]_sessionVars => SessionIInv'
<1> SUFFICES ASSUME ArenaOK, SessionIInv, [SessionNext]_sessionVars
             PROVE  SessionIInv'
  OBVIOUS
<1> USE DEF SessionIInv
<1>0. PagesCounted'  BY PagesStayCounted
<1>1. wst # "open" => Total' = Total
  BY OnlyWriterCallsChangePages DEF Total
<1>2. Total \in Nat  BY DEF Total, ArenaOK
<1>3. CASE CreateNew
  BY <1>0, <1>3 DEF CreateNew, DiskFollowsWriter, MappedLate, FinishedOpens
<1>4. CASE CreateNewFails
  BY <1>0, <1>1, <1>4 DEF CreateNewFails, DiskFollowsWriter, MappedLate, FinishedOpens, OpenErrors
<1>5. CASE WriterCall
  BY <1>0, <1>5 DEF WriterCall, fileVars, DiskFollowsWriter, MappedLate, FinishedOpens
<1>6. CASE Drop
  BY <1>0, <1>6 DEF Drop, DiskFollowsWriter, MappedLate, FinishedOpens
<1>7. CASE FinishBegin
  <2>1. disk' = File(0, FALSE, {}) /\ 0 \in 0 .. Total'
    BY <1>2, <1>7 DEF FinishBegin, DiskFollowsWriter, EmptyFile, vars, Total
  <2> QED
    BY <1>0, <1>7, <2>1 DEF FinishBegin, DiskFollowsWriter, MappedLate, FinishedOpens
<1>8. CASE FinishWrite
  <2>1. PICK n \in disk.pages .. Total, tail \in BOOLEAN :
          disk' = File(n, tail, {}) /\ (n = Total => ~ tail)
    BY <1>8 DEF FinishWrite
  <2>2. disk.pages \in 0 .. Total
    BY <1>8, FileParts DEF FinishWrite, DiskFollowsWriter
  <2>3. n \in 0 .. Total'
    BY <1>1, <1>2, <1>8, <2>1, <2>2 DEF FinishWrite
  <2>4. Total' = Total  BY <1>1, <1>8 DEF FinishWrite
  <2>5. DiskFollowsWriter'
    BY <1>8, <2>1, <2>3, <2>4 DEF FinishWrite, DiskFollowsWriter
  <2> QED
    BY <1>0, <1>8, <2>5 DEF FinishWrite, MappedLate, FinishedOpens
<1>9. CASE FinishDone
  <2>1. PICK n \in 0 .. Total, tail \in BOOLEAN :
          disk = File(n, tail, {}) /\ (n = Total => ~ tail)
    BY <1>9 DEF FinishDone, DiskFollowsWriter
  <2>2. n = Total /\ tail = FALSE
    BY <1>9, <2>1, FileParts DEF FinishDone
  <2>3. Total' = Total  BY <1>1, <1>9 DEF FinishDone
  <2>4. DiskFollowsWriter'
    BY <1>9, <2>1, <2>2, <2>3 DEF FinishDone, DiskFollowsWriter
  <2> QED
    BY <1>0, <1>9, <2>4 DEF FinishDone, MappedLate, FinishedOpens, OpenErrors
<1>10. CASE FinishFails
  BY <1>0, <1>10 DEF FinishFails, DiskFollowsWriter, MappedLate, FinishedOpens
<1>11. CASE Open
  <2>1. wst # "none"
    BY <1>11 DEF Open, OpenOutcomes, DiskFollowsWriter
  <2>2. wst # "open"
    BY <1>11, EmptyDoesNotOpen DEF Open, DiskFollowsWriter
  <2> QED
    BY <1>0, <1>1, <1>11, <2>1, <2>2
    DEF Open, PagesCounted, DiskFollowsWriter, MappedLate, FinishedOpens, OpenErrors
<1>12. CASE OpenFails
  <2>1. wst = "finished" => OpenOutcomes = {"ok"}
    BY WholeOpens DEF DiskFollowsWriter
  <2> QED
    BY <1>0, <1>1, <1>12, <2>1 DEF OpenFails, DiskFollowsWriter, MappedLate, FinishedOpens
<1>13. CASE Close
  BY <1>0, <1>1, <1>13 DEF Close, DiskFollowsWriter, MappedLate, FinishedOpens
<1>14. CASE Lookup \/ Scan
  BY <1>0, <1>1, <1>14 DEF Lookup, Scan, fileVars, DiskFollowsWriter, MappedLate, FinishedOpens
<1>15. CASE Crash
  BY <1>0, <1>15 DEF Crash, DiskFollowsWriter, MappedLate, FinishedOpens
<1>16. CASE UNCHANGED sessionVars
  BY <1>0, <1>16 DEF sessionVars, vars, DiskFollowsWriter, MappedLate, FinishedOpens, Total
<1> QED
  BY <1>3, <1>4, <1>5, <1>6, <1>7, <1>8, <1>9, <1>10, <1>11, <1>12, <1>13, <1>14,
     <1>15, <1>16
  DEF SessionNext

-----------------------------------------------------------------------------

\* The writer's own invariant holds throughout the session.
LEMMA WriterInvariantInSession == SessionSpec => []IInv
<1>1. SessionInit => IInv
  BY InitEstablishes DEF SessionInit
<1>2. IInv /\ [SessionNext]_sessionVars => IInv'
  <2> SUFFICES ASSUME [SessionNext]_sessionVars PROVE [Next]_vars
    BY NextPreserves
  <2> QED
    BY DEF SessionNext, sessionVars, CreateNew, CreateNewFails, WriterCall, Drop,
           FinishBegin, FinishWrite, FinishDone, FinishFails, Open, OpenFails, Close,
           Lookup, Scan, Crash
<1> QED  BY <1>1, <1>2, PTL DEF SessionSpec

\* The writer's invariant says that its pages are a sequence.
LEMMA WriterHasArena == IInv => ArenaOK
  BY TypeFacts DEF IInv, ArenaOK

\* The session's invariant holds throughout.
LEMMA SessionInvariantHolds == SessionSpec => [](ArenaOK /\ SessionIInv)
<1>1. SessionSpec => []ArenaOK
  BY WriterInvariantInSession, WriterHasArena, PTL
<1> QED
  BY <1>1, SessionInitEstablishes, SessionNextPreserves, PTL DEF SessionSpec

\* A file whose finish returned Ok opens, as long as no crash has cost it a
\* page, whatever was put, deleted or refused before.
THEOREM FinishedAlwaysOpens == SessionSpec => []FinishedOpens
<1>1. SessionIInv => FinishedOpens  BY DEF SessionIInv
<1> QED  BY <1>1, SessionInvariantHolds, PTL

\* What a Db has mapped does not change while it is mapped: by the time there
\* is something to map the writer has been consumed, and what finish still
\* writes comes after it.
THEOREM MappingNeverChanges == SessionSpec => MappedStays
<1>1. ASSUME ArenaOK, SessionIInv, [SessionNext]_sessionVars, db > 0, db' > 0
      PROVE  Image' = Image
  <2>1. wst \notin {"none", "open"}
    BY <1>1 DEF SessionIInv, MappedLate
  <2>2. pages' = pages
    BY <1>1, <2>1, OnlyWriterCallsChangePages
  <2>3. db' = db
    BY <1>1, <2>1
    DEF SessionNext, sessionVars, CreateNew, CreateNewFails, WriterCall, Drop,
        FinishBegin, FinishWrite, FinishDone, FinishFails, Open, OpenFails, Close,
        Lookup, Scan, Crash, fileVars, SessionIInv, MappedLate
  <2>4. disk'.lost = disk.lost
    <3>1. CASE FinishWrite
      <4>1. PICK n \in disk.pages .. Total, tail \in BOOLEAN : disk' = File(n, tail, {})
        BY <3>1 DEF FinishWrite
      <4>2. disk'.lost = {}
        BY <4>1 DEF File
      <4>3. disk.lost = {}
        BY <1>1, <3>1, FileParts DEF FinishWrite, SessionIInv, DiskFollowsWriter
      <4> QED  BY <4>2, <4>3
    <3>2. CASE ~ FinishWrite
      BY <1>1, <2>1, <3>2
      DEF SessionNext, sessionVars, CreateNew, CreateNewFails, WriterCall, Drop,
          FinishBegin, FinishDone, FinishFails, Open, OpenFails, Close,
          Lookup, Scan, Crash, fileVars, SessionIInv, MappedLate
    <3> QED  BY <3>1, <3>2
  <2> QED  BY <2>2, <2>3, <2>4 DEF Image
<1> QED  BY <1>1, SessionInvariantHolds, PTL DEF SessionSpec, MappedStays

-----------------------------------------------------------------------------
(* The session's state.                                                    *)

\* A session's steps are steps of its writer, or leave the writer alone.
LEMMA WriterStep == [SessionNext]_sessionVars => [Next]_vars
  BY DEF SessionNext, sessionVars, CreateNew, CreateNewFails, WriterCall, Drop,
         FinishBegin, FinishWrite, FinishDone, FinishFails, Open, OpenFails, Close,
         Lookup, Scan, Crash

\* What holds of the writer holds throughout a session.
LEMMA SessionIsWriter == SessionSpec => Spec
<1>1. SessionInit => Init
  BY DEF SessionInit
<1> QED
  BY <1>1, WriterStep, PTL DEF SessionSpec, Spec

\* The records that are files.
FileShape == disk \in [pages : 0 .. Total, tail : BOOLEAN, lost : SUBSET (0 .. Total)]

\* What there is on the disk and what of it is mapped.
FileInv ==
  /\ wst \in {"none", "open", "finishing", "finished", "gone"}
  /\ wst = "none" => disk = NoFile
  /\ wst # "none" => FileShape /\ disk # NoFile
  /\ wst = "open" => disk = EmptyFile
  /\ io \in {"none", "ok", "Io", "ShortFile", "BadMagic", "UnalignedFileLength"}
  /\ db \in Nat
  /\ db > 0 => wst \notin {"none", "open"} /\ db <= disk.pages
  /\ wst \in {"finishing", "finished"} => pc = "idle"
  /\ wst = "gone" /\ disk.pages > 0 => pc = "idle"

\* f is a file of at most t pages.
FileOf(f, n, tail, lost, t) ==
  /\ f = File(n, tail, lost)
  /\ t \in Nat /\ n \in 0 .. t /\ tail \in BOOLEAN /\ lost \in SUBSET (0 .. t)

\* Its fields.
LEMMA FileMade ==
  ASSUME NEW f, NEW n, NEW tail, NEW lost, NEW t, FileOf(f, n, tail, lost, t)
  PROVE  /\ f \in [pages : 0 .. t, tail : BOOLEAN, lost : SUBSET (0 .. t)]
         /\ f.pages = n /\ f.tail = tail /\ f.lost = lost /\ f # NoFile
<1>1. f # NoFile
  BY FileIsThere DEF FileOf
<1>2. f = [pages |-> n, tail |-> tail, lost |-> lost]
  BY DEF File, FileOf
<1> QED
  BY <1>1, <1>2 DEF FileOf

\* There is no file to begin with.
LEMMA FileInit == SessionInit => FileInv
  BY DEF SessionInit, FileInv

\* A file is made empty.
LEMMA FileCreated ==
  ASSUME ArenaOK, FileInv, CreateNew
  PROVE  FileInv'
<1>1. /\ wst' = "open" /\ disk' = EmptyFile /\ io' = "ok"
      /\ pages' = pages /\ pc' = pc /\ db' = db
  BY DEF CreateNew, vars
<1>2. db = 0
  BY DEF CreateNew, FileInv
<1>3. PICK t, f : t = Total' /\ f = disk'
  OBVIOUS
<1>4. FileOf(f, 0, FALSE, {}, t)
  BY <1>1, <1>3 DEF ArenaOK, Total, EmptyFile, FileOf
<1>5. f \in [pages : 0 .. t, tail : BOOLEAN, lost : SUBSET (0 .. t)] /\ f # NoFile
  BY <1>4, FileMade
<1>6. FileShape' /\ disk' # NoFile
  BY <1>3, <1>5 DEF FileShape
<1> QED
  BY <1>1, <1>2, <1>6 DEF FileInv

\* A call of the writer.
LEMMA FileAside ==
  ASSUME ArenaOK, ArenaOK', FileInv, WriterCall
  PROVE  FileInv'
<1>1. wst = "open" /\ wst' = wst /\ disk' = disk /\ io' = io /\ db' = db
  BY DEF WriterCall, fileVars
<1>2. db = 0 /\ disk = EmptyFile /\ disk # NoFile
  BY <1>1 DEF FileInv
<1>3. PICK t, f : t = Total' /\ f = disk'
  OBVIOUS
<1>4. FileOf(f, 0, FALSE, {}, t)
  BY <1>1, <1>2, <1>3 DEF ArenaOK, Total, EmptyFile, FileOf
<1>5. f \in [pages : 0 .. t, tail : BOOLEAN, lost : SUBSET (0 .. t)]
  BY <1>4, FileMade
<1>6. FileShape'
  BY <1>3, <1>5 DEF FileShape
<1> QED
  BY <1>1, <1>2, <1>6 DEF FileInv

\* finish writes a part of the arena.
LEMMA FileWritten ==
  ASSUME ArenaOK, FileInv, FinishWrite
  PROVE  FileInv'
<1>1. wst = "finishing" /\ pages' = pages /\ pc' = pc /\ wst' = wst /\ io' = io /\ db' = db
  BY DEF FinishWrite, vars
<1>2. PICK n \in disk.pages .. Total, tail \in BOOLEAN : disk' = File(n, tail, {})
  BY DEF FinishWrite
<1>3. FileShape /\ disk # NoFile /\ disk.pages \in 0 .. Total
  BY <1>1 DEF FileInv, FileShape
<1>4. PICK t : t = Total
  OBVIOUS
<1>5. t \in Nat /\ Total' = t
  BY <1>1, <1>4 DEF ArenaOK, Total
<1>6. n \in 0 .. t /\ disk.pages <= n
  BY <1>2, <1>3, <1>4, <1>5
<1>7. PICK f : f = disk'
  OBVIOUS
<1>8. FileOf(f, n, tail, {}, t)
  BY <1>2, <1>5, <1>6, <1>7 DEF FileOf
<1>9. /\ f \in [pages : 0 .. t, tail : BOOLEAN, lost : SUBSET (0 .. t)]
       /\ f.pages = n /\ f # NoFile
  BY <1>8, FileMade
<1>10. FileShape' /\ disk'.pages = n /\ disk' # NoFile
  BY <1>5, <1>7, <1>9 DEF FileShape
<1>11. db > 0 => db <= disk'.pages
  BY <1>1, <1>3, <1>5, <1>6, <1>10, <1>4 DEF FileInv
<1> QED
  BY <1>1, <1>10, <1>11 DEF FileInv

\* A crash costs some pages.
LEMMA FileCrashed ==
  ASSUME ArenaOK, FileInv, Crash
  PROVE  FileInv'
<1>1. /\ wst \in {"finishing", "finished", "gone"}
      /\ pages' = pages /\ pc' = pc /\ wst' = "gone" /\ db' = 0 /\ io' = io
  BY DEF Crash, vars
<1>2. PICK lost \in SomePages : disk' = File(disk.pages, disk.tail, lost)
  BY DEF Crash
<1>3. lost \subseteq 0 .. disk.pages - 1
  BY <1>2 DEF SomePages, kSubset
<1>4. FileShape /\ disk.pages \in 0 .. Total /\ disk.tail \in BOOLEAN
  BY <1>1 DEF FileInv, FileShape
<1>5. PICK t : t = Total
  OBVIOUS
<1>6. t \in Nat /\ Total' = t
  BY <1>1, <1>5 DEF ArenaOK, Total
<1>7. lost \subseteq 0 .. t
  BY <1>3, <1>4, <1>5, <1>6
<1>8. PICK f, n, tail : f = disk' /\ n = disk.pages /\ tail = disk.tail
  OBVIOUS
<1>9. FileOf(f, n, tail, lost, t)
  BY <1>2, <1>4, <1>5, <1>6, <1>7, <1>8 DEF FileOf
<1>10. /\ f \in [pages : 0 .. t, tail : BOOLEAN, lost : SUBSET (0 .. t)]
       /\ f.pages = n /\ f # NoFile
  BY <1>9, FileMade
<1>11. FileShape' /\ disk'.pages = disk.pages /\ disk' # NoFile
  BY <1>6, <1>8, <1>10 DEF FileShape
<1>12. disk'.pages > 0 => pc' = "idle"
  BY <1>1, <1>11 DEF FileInv
<1> QED
  BY <1>1, <1>11, <1>12 DEF FileInv

\* The file is opened.
LEMMA FileOpened ==
  ASSUME FileInv, Open
  PROVE  FileInv'
<1>1. /\ "ok" \in OpenOutcomes /\ db' = disk.pages /\ io' = "ok"
      /\ pages' = pages /\ pc' = pc /\ wst' = wst /\ disk' = disk
  BY DEF Open, vars
<1>2. disk # NoFile
  BY <1>1 DEF OpenOutcomes
<1>3. disk # EmptyFile
  BY <1>1, EmptyDoesNotOpen
<1>4. wst \notin {"none", "open"} /\ FileShape
  BY <1>2, <1>3 DEF FileInv
<1>5. disk.pages \in Nat
  BY <1>4 DEF FileShape
<1>6. FileShape' <=> FileShape
  BY <1>1 DEF FileShape, Total
<1> QED
  BY <1>1, <1>4, <1>5, <1>6 DEF FileInv

\* What the errors of open are.
LEMMA OpenErrorsAre ==
  ASSUME NEW e \in OpenOutcomes
  PROVE  e \in {"ok", "Io", "ShortFile", "BadMagic", "UnalignedFileLength"}
  BY DEF OpenOutcomes

\* Every step keeps it so.
LEMMA FileStep ==
  ASSUME ArenaOK, ArenaOK', FileInv, [SessionNext]_sessionVars
  PROVE  FileInv'
<1>0. pages' = pages => (FileShape' <=> disk' \in [pages : 0 .. Total, tail : BOOLEAN,
                                                   lost : SUBSET (0 .. Total)])
  BY DEF FileShape, Total
<1>1. CASE CreateNewFails
  BY <1>0, <1>1 DEF CreateNewFails, FileInv, FileShape, vars
<1>2. CASE Drop
  <2>1. disk.pages = 0
    BY <1>2, FileParts DEF Drop, FileInv, EmptyFile
  <2> QED
    BY <1>0, <1>2, <2>1 DEF Drop, FileInv, FileShape, vars
<1>3. CASE FinishBegin
  BY <1>0, <1>3 DEF FinishBegin, FileInv, FileShape, vars
<1>4. CASE FinishDone
  BY <1>0, <1>4 DEF FinishDone, FileInv, FileShape, vars
<1>5. CASE FinishFails
  BY <1>0, <1>5 DEF FinishFails, FileInv, FileShape, vars
<1>6. CASE OpenFails
  <2>1. io' \in {"ok", "Io", "ShortFile", "BadMagic", "UnalignedFileLength"}
    BY <1>6, OpenErrorsAre DEF OpenFails
  <2> QED
    BY <1>0, <1>6, <2>1 DEF OpenFails, FileInv, FileShape, vars
<1>7. CASE Close
  BY <1>0, <1>7 DEF Close, FileInv, FileShape, vars
<1>8. CASE Lookup \/ Scan
  BY <1>0, <1>8 DEF Lookup, Scan, fileVars, FileInv, FileShape, vars
<1>9. CASE UNCHANGED sessionVars
  BY <1>0, <1>9 DEF sessionVars, FileInv, FileShape, vars
<1> QED
  BY <1>1, <1>2, <1>3, <1>4, <1>5, <1>6, <1>7, <1>8, <1>9,
     FileCreated, FileAside, FileWritten, FileCrashed, FileOpened DEF SessionNext

-----------------------------------------------------------------------------
(* What a reader can read.                                                 *)

\* Page p has been mapped and was not lost.
Reads(p) == p \in DOMAIN pages /\ p < db /\ p \notin disk.lost

\* A page record is not a page of zeros.
LEMMA PagesNotZero ==
  ASSUME NEW x \in AnyPage
  PROVE  x # Zeros
<1>1. "zeros" \notin DOMAIN x
  <2>1. CASE x \in LeafPage
    <3>1. x = [leaf |-> x.leaf, prev |-> x.prev, next |-> x.next, ents |-> x.ents]
      BY <2>1 DEF LeafPage
    <3>2. DOMAIN x = {"leaf", "prev", "next", "ents"}
      BY <3>1, Zenon
    <3> QED
      BY <3>2
  <2>2. CASE x \in InternalPage
    <3>1. x = [leaf |-> x.leaf, prev |-> x.prev, next |-> x.next, ents |-> x.ents]
      BY <2>2 DEF InternalPage
    <3>2. DOMAIN x = {"leaf", "prev", "next", "ents"}
      BY <3>1, Zenon
    <3> QED
      BY <3>2
  <2> QED
    BY <2>1, <2>2 DEF AnyPage
<1>2. "zeros" \in DOMAIN Zeros
  BY DEF Zeros
<1> QED
  BY <1>1, <1>2

\* The pages of the arena, and those mapped.
LEMMA MappedPages ==
  ASSUME pages \in Seq(AnyPage), FileInv
  PROVE  /\ DOMAIN pages = 1 .. Len(pages) /\ Len(pages) \in Nat
         /\ db \in Nat /\ db <= Len(pages) + 1
<1>1. DOMAIN pages = 1 .. Len(pages) /\ Len(pages) \in Nat
  BY SeqFacts
<1>2. db > 0 => db <= disk.pages /\ disk.pages \in 0 .. Total
  BY DEF FileInv, FileShape
<1> QED
  BY <1>1, <1>2 DEF FileInv, Total

\* Parsing succeeds on exactly those pages, and sees what was written.
LEMMA ParseReads ==
  ASSUME pages \in Seq(AnyPage), FileInv, NEW p
  PROVE  /\ R!Parse(p) = "ok" <=> Reads(p)
         /\ Reads(p) => Image[p] = pages[p]
         /\ R!Parse(p) \in {"ok", "CorruptPage", "PageOutOfBounds"}
<1>1. PICK n : n = Len(pages) /\ n \in Nat /\ DOMAIN pages = 1 .. n /\ db <= n + 1 /\ db \in Nat
  BY MappedPages
<1>2. DOMAIN Image = 1 .. db - 1
  BY DEF Image
<1>3. \A q \in 1 .. db - 1 : q \in 1 .. n /\ q < db
  BY <1>1
<1>4. ASSUME Reads(p)
      PROVE  R!Parse(p) = "ok" /\ Image[p] = pages[p]
  <2>1. p \in 1 .. db - 1 /\ p # 0
    BY <1>1, <1>4 DEF Reads
  <2>2. Image[p] = pages[p]
    BY <1>4, <2>1 DEF Image, Reads
  <2>3. Image[p] # Zeros
    BY <1>1, <1>4, <2>2, PagesNotZero DEF Reads
  <2> QED
    BY <1>2, <2>1, <2>2, <2>3 DEF R!Parse, R!NoPage
<1>5. ASSUME R!Parse(p) = "ok" PROVE Reads(p)
  <2>1. p \in 1 .. db - 1 /\ Image[p] # Zeros
    BY <1>2, <1>5 DEF R!Parse
  <2>2. p \notin disk.lost
    BY <2>1 DEF Image
  <2> QED
    BY <1>1, <1>3, <2>1, <2>2 DEF Reads
<1>6. R!Parse(p) \in {"ok", "CorruptPage", "PageOutOfBounds"}
  BY DEF R!Parse
<1> QED
  BY <1>4, <1>5, <1>6

\* The other two parsers.
LEMMA ParseMore ==
  ASSUME pages \in Seq(AnyPage), FileInv, NEW p
  PROVE  /\ R!ParseForSearch(p) = "ok" <=>
              Reads(p) /\ (pages[p].leaf \/ pages[p].ents # <<>>)
         /\ R!ParseForSearch(p) \in {"ok", "CorruptPage", "PageOutOfBounds"}
         /\ R!ParseSibling(p) = "ok" <=> Reads(p) /\ pages[p].leaf
         /\ R!ParseSibling(p) \in {"ok", "CorruptPage", "PageOutOfBounds"}
  BY ParseReads DEF R!ParseForSearch, R!ParseSibling

\* The entries of a page that can be read.
LEMMA ReadsEnts ==
  ASSUME pages \in Seq(AnyPage), NEW p \in DOMAIN pages
  PROVE  /\ p \in Nat /\ pages[p].leaf \in BOOLEAN /\ pages[p].next \in Nat
         /\ DOMAIN pages[p].ents = 1 .. Len(pages[p].ents) /\ Len(pages[p].ents) \in Nat
         /\ pages[p].ents # <<>> <=> 1 \in DOMAIN pages[p].ents
         /\ pages[p].leaf => \A i \in DOMAIN pages[p].ents : pages[p].ents[i] \in LeafEntry
         /\ ~ pages[p].leaf => \A i \in DOMAIN pages[p].ents : pages[p].ents[i].child \in Nat
<1>1. PICK s : s = pages[p].ents
  OBVIOUS
<1>2. /\ s \in Seq(EntryOf(pages[p].leaf))
      /\ pages[p].leaf \in BOOLEAN /\ pages[p].next \in Nat /\ p \in Nat
  BY <1>1, EntsFacts
<1>3. DOMAIN s = 1 .. Len(s) /\ Len(s) \in Nat /\ (s # <<>> <=> 1 \in DOMAIN s)
  BY <1>2
<1>4. \A i \in DOMAIN s : s[i] \in EntryOf(pages[p].leaf)
  BY <1>2
<1>5. \A e \in SepEntry : e.child \in Nat
  BY DEF SepEntry
<1> QED
  BY <1>1, <1>2, <1>3, <1>4, <1>5 DEF EntryOf

\* What is mapped stays as it is.
SameMap == pages' = pages /\ db' = db /\ disk'.lost = disk.lost

\* The kinds of a session's steps, as a reader sees them.
LEMMA ReaderSteps ==
  ASSUME ArenaOK, SessionIInv, FileInv, [SessionNext]_sessionVars
  PROVE  \/ NoReader /\ (db' = 0 \/ Open)
         \/ UNCHANGED readVars /\ db' = db /\ (db > 0 => SameMap)
         \/ Lookup
         \/ Scan
<1>1. CASE Open \/ Close \/ Crash
  BY <1>1 DEF Open, Close, Crash
<1>2. CASE Lookup \/ Scan
  BY <1>2
<1>3. CASE CreateNew \/ WriterCall
  BY <1>3 DEF CreateNew, WriterCall, fileVars, readVars, FileInv
<1>4. CASE FinishWrite
  <2>1. PICK n \in disk.pages .. Total, tail \in BOOLEAN : disk' = File(n, tail, {})
    BY <1>4 DEF FinishWrite
  <2>2. disk'.lost = {}
    BY <2>1 DEF File
  <2>3. disk.lost = {}
    BY <1>4, FileParts DEF FinishWrite, SessionIInv, DiskFollowsWriter
  <2> QED
    BY <1>4, <2>2, <2>3 DEF FinishWrite, SameMap, vars, readVars
<1>5. CASE \/ CreateNewFails \/ Drop \/ FinishBegin \/ FinishDone \/ FinishFails \/ OpenFails
           \/ UNCHANGED sessionVars
  BY <1>5 DEF CreateNewFails, Drop, FinishBegin, FinishDone, FinishFails, OpenFails,
              sessionVars, SameMap, vars, readVars
<1> QED
  BY <1>1, <1>2, <1>3, <1>4, <1>5 DEF SessionNext

-----------------------------------------------------------------------------
(* The types of the reader's variables.                                    *)

\* A leaf has been read and the iterator is at one of its entries.
AtEntry ==
  /\ Reads(iter.pg) /\ pages[iter.pg].leaf
  /\ iter.idx \in DOMAIN pages[iter.pg].ents

LookupTyped ==
  /\ lookup \in [key : Strings, at : Nat] /\ answer \in R!Answer
  /\ lookup # R!NoLookup => lookup.key \in Keys

ReadTypes ==
  /\ R!ReaderTypeOK
  /\ lookup # R!NoLookup => lookup.key \in Keys
  /\ iter.st \in {"active", "advancing"} => AtEntry

\* The reader at rest.
LEMMA NoReaderTypes == NoReader => ReadTypes'
<1> SUFFICES ASSUME NoReader PROVE ReadTypes'
  OBVIOUS
<1>1. lookup' = R!NoLookup /\ lookup' \in [key : Strings, at : Nat]
  BY StringsAssumption DEF NoReader, R!NoLookup, R!NoPage
<1>2. answer' \in R!Answer
  BY DEF NoReader, R!NoAnswer, R!Answer
<1>3. iter' \in R!IterState /\ iter'.st = "pristine"
  BY DEF NoReader, R!Pristine, R!IterState, R!FirstPage, R!NoPage
<1>4. scanned' \in Seq([key : Strings, val : Values]) /\ scanEnd' = "open"
  BY DEF NoReader
<1> QED
  BY <1>1, <1>2, <1>3, <1>4 DEF ReadTypes, R!ReaderTypeOK

\* It begins so.
LEMMA ReadTypesInit == SessionInit => ReadTypes
<1> SUFFICES ASSUME SessionInit PROVE ReadTypes
  OBVIOUS
<1>1. lookup = R!NoLookup /\ lookup \in [key : Strings, at : Nat]
  BY StringsAssumption DEF SessionInit, R!ReaderInit, R!NoLookup, R!NoPage
<1>2. answer \in R!Answer
  BY DEF SessionInit, R!ReaderInit, R!NoAnswer, R!Answer
<1>3. iter \in R!IterState /\ iter.st = "pristine"
  BY DEF SessionInit, R!ReaderInit, R!Pristine, R!IterState, R!FirstPage, R!NoPage
<1>4. scanned \in Seq([key : Strings, val : Values]) /\ scanEnd = "open"
  BY DEF SessionInit, R!ReaderInit
<1> QED
  BY <1>1, <1>2, <1>3, <1>4 DEF ReadTypes, R!ReaderTypeOK

\* A step of a lookup.
LEMMA LookupTypes ==
  ASSUME pages \in Seq(AnyPage), FileInv, ReadTypes, Lookup
  PROVE  ReadTypes'
<1>1. SameMap
  BY DEF Lookup, vars, fileVars, SameMap
<1>2. iter' = iter /\ scanned' = scanned /\ scanEnd' = scanEnd
  BY DEF Lookup, R!LookupStep, R!Get, R!SearchInternal, R!SearchHit, R!SearchMiss,
         R!SearchFails, R!GetReturns
<1>3. AtEntry' <=> AtEntry
  BY <1>1, <1>2 DEF AtEntry, Reads, SameMap
<1>4. LookupTyped
  BY DEF ReadTypes, R!ReaderTypeOK, LookupTyped
<1>5. R!NoLookup \in [key : Strings, at : Nat]
  BY StringsAssumption DEF R!NoLookup, R!NoPage
<1>6. LookupTyped'
  <2> USE DEF LookupTyped
  <2>1. ASSUME NEW k \in Keys, R!Get(k) PROVE LookupTyped'
    <3>1. lookup' = [key |-> k, at |-> R!FirstPage] /\ answer' = R!NoAnswer
      BY <2>1 DEF R!Get
    <3> QED
      BY <3>1, StringsAssumption DEF R!FirstPage, R!NoAnswer, R!Answer
  <2>2. CASE R!SearchInternal
    <3>1. PICK i \in DOMAIN Image[lookup.at].ents :
            lookup' = [lookup EXCEPT !.at = Image[lookup.at].ents[i].child]
      BY <2>2 DEF R!SearchInternal
    <3>2. /\ lookup # R!NoLookup /\ Reads(lookup.at) /\ ~ Image[lookup.at].leaf
          /\ answer' = answer
      BY <2>2, ParseMore DEF R!SearchInternal, R!AtPage
    <3>3. Image[lookup.at] = pages[lookup.at] /\ lookup.at \in DOMAIN pages
      BY <3>2, ParseReads DEF Reads
    <3>4. Image[lookup.at].ents[i].child \in Nat
      BY <3>1, <3>2, <3>3, ReadsEnts
    <3>5. lookup' \in [key : Strings, at : Nat] /\ lookup'.key = lookup.key
      BY <1>4, <3>1, <3>4
    <3> QED
      BY <1>4, <3>2, <3>5
  <2>3. CASE R!SearchHit
    <3>1. PICK i \in DOMAIN Image[lookup.at].ents :
            R!GetReturns([is |-> "some", key |-> lookup.key,
                          val |-> Image[lookup.at].ents[i].val])
      BY <2>3 DEF R!SearchHit
    <3>2. lookup # R!NoLookup /\ Reads(lookup.at) /\ Image[lookup.at].leaf
      BY <2>3, ParseMore DEF R!SearchHit, R!AtPage
    <3>3. Image[lookup.at] = pages[lookup.at] /\ lookup.at \in DOMAIN pages
      BY <3>2, ParseReads DEF Reads
    <3>4. Image[lookup.at].ents[i] \in LeafEntry
      BY <3>1, <3>2, <3>3, ReadsEnts
    <3>5. Image[lookup.at].ents[i].val \in Values
      BY <3>4 DEF LeafEntry
    <3> QED
      BY <1>4, <1>5, <3>1, <3>2, <3>5 DEF R!GetReturns, R!Answer
  <2>4. CASE R!SearchMiss
    BY <1>4, <1>5, <2>4 DEF R!SearchMiss, R!AtPage, R!GetReturns, R!Answer
  <2>5. CASE R!SearchFails
    <3>1. R!ParseForSearch(lookup.at) \in {"CorruptPage", "PageOutOfBounds"}
      BY <2>5, ParseMore DEF R!SearchFails
    <3> QED
      BY <1>4, <1>5, <2>5, <3>1 DEF R!SearchFails, R!GetReturns, R!Answer
  <2> QED
    BY <2>1, <2>2, <2>3, <2>4, <2>5 DEF Lookup, R!LookupStep
<1> QED
  BY <1>2, <1>3, <1>6 DEF ReadTypes, R!ReaderTypeOK, LookupTyped

-----------------------------------------------------------------------------
(* The steps of a scan, by what they read.                                 *)

Here == pages[iter.pg].ents[iter.idx]

GoesTo(s) == iter' = s /\ scanned' = scanned /\ scanEnd' = scanEnd
Gives(s) == iter' = s /\ scanned' = Append(scanned, Here) /\ scanEnd' = scanEnd
Stops(r) == iter' = R!Done /\ scanned' = scanned /\ scanEnd' = r

PageErrors == {"PageOutOfBounds", "CorruptPage"}

\* On the left spine.
OnEmpty == /\ R!OnSpine /\ Reads(iter.pg) /\ pages[iter.pg].ents = <<>>
           /\ Stops("None")
OnLeaf == /\ R!OnSpine /\ Reads(iter.pg) /\ pages[iter.pg].ents # <<>>
          /\ pages[iter.pg].leaf /\ GoesTo(R!Active(iter.pg, 1))
OnInternal == /\ R!OnSpine /\ Reads(iter.pg) /\ pages[iter.pg].ents # <<>>
              /\ ~ pages[iter.pg].leaf
              /\ GoesTo(R!Descending(pages[iter.pg].ents[1].child))
OnUnread == R!OnSpine /\ ~ Reads(iter.pg) /\ \E r \in PageErrors : Stops(r)

\* In a leaf.
InLeaf == /\ iter.st = "active" /\ iter.idx < Len(pages[iter.pg].ents)
          /\ Gives(R!Active(iter.pg, iter.idx + 1))
AtLast == /\ iter.st = "active" /\ iter.idx = Len(pages[iter.pg].ents)
          /\ GoesTo(R!Advancing(iter.pg, iter.idx, pages[iter.pg].next))

\* At a sibling.
BySibling == /\ iter.st = "advancing" /\ iter.to # P_INVALID
             /\ Reads(iter.to) /\ pages[iter.to].leaf
ByUnread == /\ iter.st = "advancing" /\ iter.to # P_INVALID
            /\ ~ (Reads(iter.to) /\ pages[iter.to].leaf)
            /\ \E r \in PageErrors : Stops(r)
ByEmpty == /\ BySibling /\ pages[iter.to].ents = <<>>
           /\ GoesTo(R!Advancing(iter.pg, iter.idx, pages[iter.to].next))
ByFound == /\ BySibling /\ pages[iter.to].ents # <<>>
           /\ Gives(R!Active(iter.to, 1))
ByNone == iter.st = "advancing" /\ iter.to = P_INVALID /\ Gives(R!Done)

\* At the end.
AtEnd == iter.st = "done" /\ scanEnd = "open" /\ Stops("None")

\* A step of a scan is one of these.
LEMMA ScanSteps ==
  ASSUME pages \in Seq(AnyPage), FileInv, ReadTypes, Scan
  PROVE  /\ SameMap /\ lookup' = lookup /\ answer' = answer
         /\ \/ OnEmpty \/ OnLeaf \/ OnInternal \/ OnUnread \/ InLeaf \/ AtLast
            \/ ByUnread \/ ByEmpty \/ ByFound \/ ByNone \/ AtEnd
<1>1. SameMap
  BY DEF Scan, vars, fileVars, SameMap
<1>2. R!IterStep
  BY DEF Scan
<1>3. iter.st \in {"active", "advancing"} =>
        Image[iter.pg] = pages[iter.pg] /\ R!Current = Here
  BY ParseReads DEF ReadTypes, AtEntry, R!Current, Here
<1>4. R!OnSpine /\ R!Parse(iter.pg) = "ok" => Reads(iter.pg) /\ Image[iter.pg] = pages[iter.pg]
  BY ParseReads
<1>5. /\ R!AtSibling => BySibling /\ Image[iter.to] = pages[iter.to]
      /\ R!NoPage = P_INVALID
  BY ParseMore, ParseReads DEF R!AtSibling, BySibling, R!NoPage, P_INVALID
<1>6. CASE R!InitialEmpty
  BY <1>1, <1>4, <1>6 DEF R!InitialEmpty, R!NextEnds, OnEmpty, Stops
<1>7. CASE R!InitialLeaf
  BY <1>1, <1>4, <1>7 DEF R!InitialLeaf, R!NextGoesOn, OnLeaf, GoesTo
<1>8. CASE R!InitialInternal
  BY <1>1, <1>4, <1>8 DEF R!InitialInternal, R!NextGoesOn, OnInternal, GoesTo
<1>9. CASE R!InitialFails
  BY <1>1, <1>9, ParseReads DEF R!InitialFails, R!NextEnds, OnUnread, Stops, PageErrors
<1>10. CASE R!YieldInside
  BY <1>1, <1>3, <1>10 DEF R!YieldInside, R!NextReturns, InLeaf, Gives
<1>11. CASE R!YieldLast
  BY <1>1, <1>3, <1>11 DEF R!YieldLast, R!NextGoesOn, AtLast, GoesTo
<1>12. CASE R!AdvanceFails
  BY <1>1, <1>5, <1>12, ParseMore DEF R!AdvanceFails, R!NextEnds, ByUnread, Stops, PageErrors
<1>13. CASE R!AdvanceEmpty
  BY <1>1, <1>5, <1>13 DEF R!AdvanceEmpty, R!NextGoesOn, ByEmpty, GoesTo
<1>14. CASE R!AdvanceFound
  <2>1. iter.st = "advancing"
    BY <1>14 DEF R!AdvanceFound, R!AtSibling
  <2> QED
    BY <1>1, <1>3, <1>5, <1>14, <2>1 DEF R!AdvanceFound, R!NextReturns, ByFound, Gives
<1>15. CASE R!AdvanceDone
  BY <1>1, <1>3, <1>5, <1>15 DEF R!AdvanceDone, R!NextReturns, ByNone, Gives
<1>16. CASE R!NextNone
  BY <1>1, <1>16 DEF R!NextNone, R!NextEnds, AtEnd, Stops
<1> QED
  BY <1>2, <1>6, <1>7, <1>8, <1>9, <1>10, <1>11, <1>12, <1>13, <1>14, <1>15, <1>16
  DEF R!IterStep

\* The states of an iterator.
LEMMA IterStates ==
  /\ \A p \in Nat, i \in Nat : /\ R!Active(p, i) \in R!IterState
                               /\ R!Active(p, i).st = "active"
                               /\ R!Active(p, i).pg = p /\ R!Active(p, i).idx = i
  /\ \A p \in Nat : /\ R!Descending(p) \in R!IterState
                    /\ R!Descending(p).st = "descending" /\ R!Descending(p).pg = p
  /\ \A p \in Nat, i \in Nat, q \in Nat :
       /\ R!Advancing(p, i, q) \in R!IterState
       /\ R!Advancing(p, i, q).st = "advancing"
       /\ R!Advancing(p, i, q).pg = p /\ R!Advancing(p, i, q).idx = i
       /\ R!Advancing(p, i, q).to = q
  /\ R!Done \in R!IterState /\ R!Done.st = "done"
  /\ R!Pristine.st = "pristine" /\ R!Pristine.pg = P_ROOT
  BY DEF R!Active, R!Descending, R!Advancing, R!Done, R!Pristine, R!IterState, R!NoPage,
         R!FirstPage, P_ROOT

\* A step of a scan keeps the types.
LEMMA ScanTypes ==
  ASSUME pages \in Seq(AnyPage), FileInv, ReadTypes, Scan
  PROVE  ReadTypes'
<1>1. /\ SameMap /\ lookup' = lookup /\ answer' = answer
      /\ \/ OnEmpty \/ OnLeaf \/ OnInternal \/ OnUnread \/ InLeaf \/ AtLast
         \/ ByUnread \/ ByEmpty \/ ByFound \/ ByNone \/ AtEnd
  BY ScanSteps
<1>2. /\ lookup \in [key : Strings, at : Nat] /\ answer \in R!Answer
      /\ iter \in R!IterState
      /\ scanned \in Seq(LeafEntry)
      /\ scanEnd \in {"open", "None", "PageOutOfBounds", "CorruptPage"}
      /\ lookup # R!NoLookup => lookup.key \in Keys
  BY DEF ReadTypes, R!ReaderTypeOK, LeafEntry
<1>3. iter.pg \in Nat /\ iter.idx \in Nat /\ iter.to \in Nat
  BY <1>2 DEF R!IterState
<1>4. iter.st \in {"active", "advancing"} =>
        /\ AtEntry /\ Here \in LeafEntry /\ pages[iter.pg].next \in Nat
        /\ DOMAIN pages[iter.pg].ents = 1 .. Len(pages[iter.pg].ents)
        /\ Len(pages[iter.pg].ents) \in Nat
  BY ReadsEnts DEF ReadTypes, AtEntry, Here, Reads
<1>5. \A p : Reads(p)' <=> Reads(p)
  BY <1>1 DEF SameMap, Reads
<1>6. ASSUME NEW p, NEW i, iter' = R!Active(p, i), p \in Nat, i \in Nat,
             Reads(p), pages[p].leaf, i \in DOMAIN pages[p].ents
      PROVE  iter' \in R!IterState /\ (iter'.st \in {"active", "advancing"} => AtEntry')
  BY <1>1, <1>5, <1>6, IterStates DEF AtEntry, SameMap
<1>7. ASSUME NEW q \in Nat, iter' = R!Advancing(iter.pg, iter.idx, q), AtEntry
       PROVE  iter' \in R!IterState /\ (iter'.st \in {"active", "advancing"} => AtEntry')
  <2>1. PICK p, i, s : p = iter.pg /\ i = iter.idx /\ s = iter'
    OBVIOUS
  <2>2. p \in Nat /\ i \in Nat /\ s = R!Advancing(p, i, q)
    BY <1>3, <1>7, <2>1
  <2>3. s \in R!IterState /\ s.pg = p /\ s.idx = i
    BY <2>2, IterStates
  <2>4. Reads(p) /\ pages[p].leaf /\ i \in DOMAIN pages[p].ents
    BY <1>7, <2>1 DEF AtEntry
  <2>5. Reads(p)' /\ pages'[p].leaf /\ i \in DOMAIN pages'[p].ents
    BY <1>1, <2>4 DEF Reads, SameMap
  <2> QED
    BY <2>1, <2>3, <2>5 DEF AtEntry, Reads
<1>8. /\ iter' \in R!IterState
      /\ iter'.st \in {"active", "advancing"} => AtEntry'
  <2>1. CASE OnEmpty \/ OnUnread \/ ByUnread \/ ByNone \/ AtEnd
    <3>1. iter' = R!Done
      BY <2>1 DEF OnEmpty, OnUnread, ByUnread, ByNone, AtEnd, Stops, Gives
    <3> QED
      BY <3>1, IterStates
  <2>2. CASE OnLeaf
    <3>1. iter' = R!Active(iter.pg, 1) /\ Reads(iter.pg) /\ pages[iter.pg].leaf
      BY <2>2 DEF OnLeaf, GoesTo
    <3>2. 1 \in DOMAIN pages[iter.pg].ents
      BY <2>2, ReadsEnts DEF OnLeaf, Reads
    <3> QED
      BY <1>3, <1>6, <3>1, <3>2
  <2>3. CASE OnInternal
    <3>1. 1 \in DOMAIN pages[iter.pg].ents /\ pages[iter.pg].ents[1].child \in Nat
      BY <2>3, ReadsEnts DEF OnInternal, Reads
    <3> QED
      BY <2>3, <3>1, IterStates DEF OnInternal, GoesTo
  <2>4. CASE InLeaf
    <3>1. /\ iter' = R!Active(iter.pg, iter.idx + 1) /\ iter.st = "active"
          /\ iter.idx < Len(pages[iter.pg].ents)
      BY <2>4 DEF InLeaf, Gives
    <3>2. iter.idx + 1 \in DOMAIN pages[iter.pg].ents /\ iter.idx + 1 \in Nat
      BY <1>3, <1>4, <3>1 DEF AtEntry
    <3> QED
      BY <1>3, <1>4, <1>6, <3>1, <3>2 DEF AtEntry
  <2>5. CASE AtLast
    <3>1. /\ iter' = R!Advancing(iter.pg, iter.idx, pages[iter.pg].next)
          /\ iter.st = "active"
      BY <2>5 DEF AtLast, GoesTo
    <3> QED
      BY <1>4, <1>7, <3>1
  <2>6. CASE ByEmpty
    <3>1. /\ iter' = R!Advancing(iter.pg, iter.idx, pages[iter.to].next)
          /\ iter.st = "advancing" /\ Reads(iter.to)
      BY <2>6 DEF ByEmpty, BySibling, GoesTo
    <3>2. pages[iter.to].next \in Nat
      BY <3>1, ReadsEnts DEF Reads
    <3> QED
      BY <1>4, <1>7, <3>1, <3>2
  <2>7. CASE ByFound
    <3>1. iter' = R!Active(iter.to, 1) /\ Reads(iter.to) /\ pages[iter.to].leaf
      BY <2>7 DEF ByFound, BySibling, Gives
    <3>2. 1 \in DOMAIN pages[iter.to].ents
      BY <2>7, ReadsEnts DEF ByFound, BySibling, Reads
    <3> QED
      BY <1>3, <1>6, <3>1, <3>2
  <2> QED
    BY <1>1, <2>1, <2>2, <2>3, <2>4, <2>5, <2>6, <2>7
<1>9. scanned' \in Seq(LeafEntry)
  <2>1. CASE InLeaf \/ ByFound \/ ByNone
    <3>1. Here \in LeafEntry /\ scanned' = Append(scanned, Here)
      BY <1>4, <2>1 DEF InLeaf, ByFound, BySibling, ByNone, Gives
    <3> QED
      BY <1>2, <3>1
  <2>2. CASE ~ (InLeaf \/ ByFound \/ ByNone)
    <3>1. scanned' = scanned
      BY <1>1, <2>2 DEF OnEmpty, OnLeaf, OnInternal, OnUnread, AtLast, ByUnread, ByEmpty,
                        AtEnd, GoesTo, Stops
    <3> QED
      BY <1>2, <3>1
  <2> QED
    BY <2>1, <2>2
<1>10. scanEnd' \in {"open", "None", "PageOutOfBounds", "CorruptPage"}
  BY <1>1, <1>2 DEF OnEmpty, OnLeaf, OnInternal, OnUnread, InLeaf, AtLast, ByUnread, ByEmpty,
                    ByFound, ByNone, AtEnd, GoesTo, Gives, Stops, PageErrors
<1>11. lookup' \in [key : Strings, at : Nat] /\ answer' \in R!Answer
       /\ (lookup' # R!NoLookup => lookup'.key \in Keys)
  BY <1>1, <1>2
<1> QED
  BY <1>8, <1>9, <1>10, <1>11 DEF ReadTypes, R!ReaderTypeOK, LeafEntry

\* Every step keeps the types.
LEMMA ReadTypesStep ==
  ASSUME IInv, IInv', SessionIInv, FileInv, ReadTypes, [SessionNext]_sessionVars
  PROVE  ReadTypes'
<1>1. ArenaOK /\ pages \in Seq(AnyPage)
  BY WriterHasArena, ArenaFacts
<1>2. \/ NoReader /\ (db' = 0 \/ Open)
      \/ UNCHANGED readVars /\ db' = db /\ (db > 0 => SameMap)
      \/ Lookup
      \/ Scan
  BY <1>1, ReaderSteps
<1>3. CASE UNCHANGED readVars /\ db' = db /\ (db > 0 => SameMap)
  <2>1. /\ lookup' = lookup /\ answer' = answer /\ iter' = iter
        /\ scanned' = scanned /\ scanEnd' = scanEnd
    BY <1>3 DEF readVars
  <2>2. iter.st \in {"active", "advancing"} => db > 0
    <3> SUFFICES ASSUME iter.st \in {"active", "advancing"} PROVE db > 0
      OBVIOUS
    <3>1. Reads(iter.pg)
      BY DEF ReadTypes, AtEntry
    <3>2. iter.pg \in Nat /\ db \in Nat
      BY <1>1, <3>1, ReadsEnts DEF Reads, FileInv
    <3> QED
      BY <3>1, <3>2 DEF Reads
  <2>3. iter.st \in {"active", "advancing"} => AtEntry'
    BY <1>3, <2>1, <2>2 DEF ReadTypes, AtEntry, Reads, SameMap
  <2> QED
    BY <2>1, <2>3 DEF ReadTypes, R!ReaderTypeOK
<1> QED
  BY <1>1, <1>2, <1>3, NoReaderTypes, LookupTypes, ScanTypes

\* A session's inductive invariant.
WholeSession == IInv /\ SessionIInv /\ FileInv /\ ReadTypes

\* It holds throughout.
LEMMA WholeSessionHolds == SessionSpec => []WholeSession
<1>1. SessionInit => WholeSession
  BY SessionInitEstablishes, InitEstablishes, FileInit, ReadTypesInit
  DEF SessionInit, WholeSession
<1>2. WholeSession /\ [SessionNext]_sessionVars => WholeSession'
  <2> SUFFICES ASSUME WholeSession, [SessionNext]_sessionVars PROVE WholeSession'
    OBVIOUS
  <2>1. IInv /\ SessionIInv /\ FileInv /\ ReadTypes
    BY DEF WholeSession
  <2>2. IInv'
    BY <2>1, WriterStep, NextPreserves
  <2>3. ArenaOK /\ ArenaOK'
    <3>1. (IInv => ArenaOK)'
      BY WriterHasArena, PTL
    <3> QED
      BY <2>1, <2>2, <3>1, WriterHasArena
  <2>4. SessionIInv'
    BY <2>1, <2>3, SessionNextPreserves
  <2>5. FileInv'
    BY <2>1, <2>3, FileStep
  <2>6. ReadTypes'
    BY <2>1, <2>2, ReadTypesStep
  <2> QED
    BY <2>2, <2>4, <2>5, <2>6 DEF WholeSession
<1> QED
  BY <1>1, <1>2, PTL DEF SessionSpec

\* Every variable of a session keeps its shape, whatever a crash has left and
\* whatever is read.
THEOREM SessionTypeCorrect == SessionSpec => []SessionTypeOK
<1>1. WholeSession => SessionTypeOK
  <2> SUFFICES ASSUME WholeSession PROVE SessionTypeOK
    OBVIOUS
  <2>1. IInv /\ FileInv /\ ReadTypes
    BY DEF WholeSession
  <2>2. TypeOK /\ pages \in Seq(AnyPage)
    BY <2>1, ArenaFacts DEF IInv
  <2>3. db \in 0 .. Total
    BY <2>1, <2>2, MappedPages DEF Total
  <2>4. disk = NoFile \/ FileShape
    BY <2>1 DEF FileInv
  <2> QED
    BY <2>1, <2>2, <2>3, <2>4 DEF SessionTypeOK, FileInv, FileShape, ReadTypes
<1> QED
  BY <1>1, WholeSessionHolds, PTL

-----------------------------------------------------------------------------
(* A scan's way through the tree.                                          *)

\* FirstLeafEmpty, of the pages ps.
FirstEmptyIn(ps) ==
  \E p \in DOMAIN ps : ps[p].leaf /\ ps[p].prev = P_INVALID /\ ps[p].ents = <<>>

\* The list s is all there is.
AllOf(ps, s) == Ascending(s) /\ Pairs(s) = StoredIn(ps) /\ ~ FirstEmptyIn(ps)

\* Where the scan is, and what it has returned: on the left spine nothing; in
\* a leaf, or beyond its last entry, all that is stored before that entry; at
\* the end everything, or nothing if the first leaf is empty.
ScanInv(lo) ==
  /\ iter.st \in {"pristine", "descending"} =>
       iter.pg \in DOMAIN pages /\ lo[iter.pg] = 0 /\ scanned = <<>>
  /\ iter.st \in {"active", "advancing"} =>
       Returned(pages, scanned, Here.key) /\ ~ FirstEmptyIn(pages)
  /\ iter.st = "advancing" =>
       iter.idx = Len(pages[iter.pg].ents) /\ Toward(pages, lo, iter.pg, iter.to)
  /\ iter.st # "done" => scanEnd = "open"
  /\ iter.st = "done" /\ scanEnd = "open" => AllOf(pages, scanned)
  /\ iter.st = "done" /\ scanEnd = "None" =>
       AllOf(pages, scanned) \/ (scanned = <<>> /\ FirstEmptyIn(pages))

\* The iterator comes to the entry i of page p, ...
LEMMA ToActive ==
  ASSUME NEW lo, pages' = pages, NEW p \in Nat, NEW i \in Nat, iter' = R!Active(p, i),
         Returned(pages, scanned', pages[p].ents[i].key), ~ FirstEmptyIn(pages),
         scanEnd' = "open"
  PROVE  ScanInv(lo)'
<1>1. PICK s : s = iter'
  OBVIOUS
<1>2. s.st = "active" /\ s.pg = p /\ s.idx = i
  BY <1>1, IterStates
<1>3. Here' = pages[p].ents[i]
  BY <1>1, <1>2 DEF Here
<1> QED
  BY <1>1, <1>2, <1>3 DEF ScanInv

\* ... sets out for page q, ...
LEMMA ToAdvancing ==
  ASSUME NEW lo, pages' = pages, NEW p \in Nat, NEW i \in Nat, NEW q \in Nat,
         iter' = R!Advancing(p, i, q),
         Returned(pages, scanned', pages[p].ents[i].key), ~ FirstEmptyIn(pages),
         i = Len(pages[p].ents), Toward(pages, lo, p, q),
         scanEnd' = "open"
  PROVE  ScanInv(lo)'
<1>1. PICK s : s = iter'
  OBVIOUS
<1>2. s.st = "advancing" /\ s.pg = p /\ s.idx = i /\ s.to = q
  BY <1>1, IterStates
<1>3. Here' = pages[p].ents[i]
  BY <1>1, <1>2 DEF Here
<1> QED
  BY <1>1, <1>2, <1>3 DEF ScanInv

\* ... or comes to its end.
LEMMA ToDone ==
  ASSUME NEW lo, pages' = pages, iter' = R!Done,
         scanEnd' = "open" => AllOf(pages, scanned'),
         scanEnd' = "None" =>
           AllOf(pages, scanned') \/ (scanned' = <<>> /\ FirstEmptyIn(pages))
  PROVE  ScanInv(lo)'
  BY IterStates DEF ScanInv

\* On the left spine.
LEMMA SpineWalk ==
  ASSUME NEW lo, NEW lv, Planted(pages, lo, lv), ScanInv(lo), SameMap,
         pages \in Seq(AnyPage), OnEmpty \/ OnLeaf \/ OnInternal \/ OnUnread
  PROVE  ScanInv(lo)'
<1>1. iter.pg \in DOMAIN pages /\ lo[iter.pg] = 0 /\ scanned = <<>> /\ scanEnd = "open"
  BY DEF OnEmpty, OnLeaf, OnInternal, OnUnread, R!OnSpine, ScanInv
<1>2. pages' = pages
  BY DEF SameMap
<1>3. PICK p : p = iter.pg
  OBVIOUS
<1>4. p \in DOMAIN pages /\ lo[p] = 0 /\ p \in Nat
  BY <1>1, <1>3, ReadsEnts
<1>5. pages[p].leaf => \A q \in DOMAIN pages : pages[q].leaf =>
        (pages[q].prev = P_INVALID <=> q = p)
  BY <1>4, FirstLeaf
<1>6. CASE OnEmpty
  <2>1. pages[p].ents = <<>> /\ iter' = R!Done /\ scanEnd' = "None" /\ scanned' = <<>>
    BY <1>1, <1>3, <1>6 DEF OnEmpty, Stops
  <2>2. pages[p].leaf
    <3> SUFFICES ASSUME ~ pages[p].leaf PROVE FALSE
      OBVIOUS
    <3>1. 1 \in DOMAIN pages[p].ents
      BY <1>4, FirstIsLeast
    <3> QED
      BY <1>4, <2>1, <3>1, ReadsEnts
  <2>3. FirstEmptyIn(pages)
    BY <1>4, <1>5, <2>1, <2>2 DEF FirstEmptyIn
  <2> QED
    BY <1>2, <2>1, <2>3, ToDone
<1>7. CASE OnLeaf
  <2>1. /\ pages[p].ents # <<>> /\ pages[p].leaf
        /\ iter' = R!Active(p, 1) /\ scanned' = <<>> /\ scanEnd' = "open"
    BY <1>1, <1>3, <1>7 DEF OnLeaf, GoesTo
  <2>2. 1 \in DOMAIN pages[p].ents
    BY <1>4, <2>1, ReadsEnts
  <2>3. Returned(pages, <<>>, pages[p].ents[1].key)
    BY <1>4, <2>1, <2>2, FirstOfAll
  <2>4. ~ FirstEmptyIn(pages)
    BY <1>5, <2>1 DEF FirstEmptyIn
  <2> QED
    BY <1>2, <1>4, <2>1, <2>3, <2>4, ToActive
<1>8. CASE OnInternal
  <2>1. /\ ~ pages[p].leaf
        /\ iter' = R!Descending(pages[p].ents[1].child)
        /\ scanned' = <<>> /\ scanEnd' = "open"
    BY <1>1, <1>3, <1>8 DEF OnInternal, GoesTo
  <2>2. PICK d, s : d = pages[p].ents[1].child /\ s = iter'
    OBVIOUS
  <2>3. d \in DOMAIN pages /\ lo[d] = 0
    BY <1>4, <2>1, <2>2, FirstIsLeast
  <2>4. d \in Nat
    BY <2>3, ReadsEnts
  <2>5. s.st = "descending" /\ s.pg = d
    BY <2>1, <2>2, <2>4, IterStates
  <2> QED
    BY <1>2, <2>1, <2>2, <2>3, <2>5 DEF ScanInv
<1>9. CASE OnUnread
  <2>1. iter' = R!Done /\ scanEnd' \in PageErrors
    BY <1>9 DEF OnUnread, Stops
  <2> QED
    BY <1>2, <2>1, ToDone DEF PageErrors
<1> QED
  BY <1>6, <1>7, <1>8, <1>9

\* In a leaf, and on the way to the next.
LEMMA LeafWalk ==
  ASSUME NEW lo, NEW lv, Planted(pages, lo, lv), ScanInv(lo), SameMap,
         pages \in Seq(AnyPage), AtEntry, scanned \in Seq(LeafEntry),
         InLeaf \/ AtLast \/ ByUnread \/ ByEmpty \/ ByFound \/ ByNone
  PROVE  ScanInv(lo)'
<1>1. PICK p, i : p = iter.pg /\ i = iter.idx
  OBVIOUS
<1>2. iter.st \in {"active", "advancing"}
  BY DEF InLeaf, AtLast, ByUnread, ByEmpty, ByFound, ByNone, BySibling
<1>3. PICK e : e = pages[p].ents[i]
  OBVIOUS
<1>4. Here = e /\ pages' = pages
  BY <1>1, <1>3 DEF Here, SameMap
<1>5. p \in DOMAIN pages /\ pages[p].leaf /\ i \in DOMAIN pages[p].ents
  BY <1>1 DEF AtEntry, Reads
<1>6. p \in Nat /\ i \in Nat /\ e \in LeafEntry /\ pages[p].next \in Nat
  BY <1>3, <1>5, ReadsEnts
<1>7. Returned(pages, scanned, e.key) /\ ~ FirstEmptyIn(pages) /\ scanEnd = "open"
  BY <1>2, <1>4 DEF ScanInv
<1>8. KV(e) \in StoredIn(pages)
  BY <1>3, <1>5, PlaceStored
<1>9. iter.st = "advancing" => i = Len(pages[p].ents) /\ Toward(pages, lo, p, iter.to)
  BY <1>1 DEF ScanInv
<1>10. \A q \in DOMAIN pages : \A j \in DOMAIN pages[q].ents : pages[q].ents[j].key \in Nat
  BY KeysNat
<1>11. CASE InLeaf
  <2>1. /\ i < Len(pages[p].ents) /\ iter' = R!Active(p, i + 1)
        /\ scanned' = Append(scanned, e) /\ scanEnd' = "open"
    BY <1>1, <1>4, <1>7, <1>11 DEF InLeaf, Gives
  <2>2. i + 1 \in DOMAIN pages[p].ents /\ i + 1 \in Nat
    BY <1>5, <1>6, <2>1, ReadsEnts
  <2>3. PICK k : k = pages[p].ents[i + 1].key
    OBVIOUS
  <2>4. k \in Nat /\ e.key < k /\ NoneBetween(pages, e.key, k)
    BY <1>3, <1>5, <1>10, <2>2, <2>3, InsideLeaf
  <2>5. Returned(pages, Append(scanned, e), k)
    BY <1>6, <1>7, <1>8, <2>4, ReturnedMore
  <2> QED
    BY <1>4, <1>6, <1>7, <2>1, <2>2, <2>3, <2>5, ToActive
<1>12. CASE AtLast
  <2>1. /\ i = Len(pages[p].ents) /\ iter' = R!Advancing(p, i, pages[p].next)
        /\ scanned' = scanned /\ scanEnd' = "open"
    BY <1>1, <1>7, <1>12 DEF AtLast, GoesTo
  <2>2. Toward(pages, lo, p, pages[p].next)
    BY <1>5, TowardStart
  <2> QED
    BY <1>3, <1>4, <1>6, <1>7, <2>1, <2>2, ToAdvancing
<1>13. CASE ByUnread
  <2>1. iter' = R!Done /\ scanEnd' \in PageErrors
    BY <1>13 DEF ByUnread, Stops
  <2> QED
    BY <1>4, <2>1, ToDone DEF PageErrors
<1>14. CASE ByEmpty
  <2>1. PICK c : c = iter.to
    OBVIOUS
  <2>2. /\ c # P_INVALID /\ c \in DOMAIN pages /\ pages[c].ents = <<>>
        /\ iter' = R!Advancing(p, i, pages[c].next)
        /\ scanned' = scanned /\ scanEnd' = "open" /\ iter.st = "advancing"
    BY <1>1, <1>7, <1>14, <2>1 DEF ByEmpty, BySibling, GoesTo, Reads
  <2>3. Toward(pages, lo, p, pages[c].next)
    BY <1>5, <1>9, <2>1, <2>2, TowardOn
  <2>4. pages[c].next \in Nat
    BY <2>2, ReadsEnts
  <2> QED
    BY <1>3, <1>4, <1>6, <1>7, <1>9, <2>2, <2>3, <2>4, ToAdvancing
<1>15. CASE ByFound
  <2>1. PICK c : c = iter.to
    OBVIOUS
  <2>2. /\ c # P_INVALID /\ c \in DOMAIN pages /\ pages[c].leaf /\ pages[c].ents # <<>>
        /\ iter' = R!Active(c, 1)
        /\ scanned' = Append(scanned, e) /\ scanEnd' = "open" /\ iter.st = "advancing"
    BY <1>4, <1>7, <1>15, <2>1 DEF ByFound, BySibling, Gives, Reads
  <2>3. /\ lo[p] < lo[c]
        /\ \A q \in DOMAIN pages : pages[q].leaf /\ lo[p] < lo[q] /\ lo[q] < lo[c] =>
             pages[q].ents = <<>>
    BY <1>9, <2>1, <2>2 DEF Toward
  <2>4. 1 \in DOMAIN pages[c].ents /\ c \in Nat
    BY <2>2, ReadsEnts
  <2>5. PICK k : k = pages[c].ents[1].key
    OBVIOUS
  <2>6. i = Len(pages[p].ents)
    BY <1>9, <2>2
  <2>7. k \in Nat /\ e.key < k /\ NoneBetween(pages, e.key, k)
    BY <1>3, <1>5, <1>10, <2>2, <2>3, <2>4, <2>5, <2>6, AcrossLeaves
  <2>8. Returned(pages, Append(scanned, e), k)
    BY <1>6, <1>7, <1>8, <2>7, ReturnedMore
  <2> QED
    BY <1>4, <1>7, <2>2, <2>4, <2>5, <2>8, ToActive
<1>16. CASE ByNone
  <2>1. /\ iter.to = P_INVALID /\ iter.st = "advancing" /\ iter' = R!Done
        /\ scanned' = Append(scanned, e) /\ scanEnd' = "open"
    BY <1>4, <1>7, <1>16 DEF ByNone, Gives
  <2>2. /\ i = Len(pages[p].ents)
        /\ \A q \in DOMAIN pages : pages[q].leaf /\ lo[p] < lo[q] => pages[q].ents = <<>>
    BY <1>9, <2>1 DEF Toward
  <2>3. \A kv \in StoredIn(pages) : kv[1] <= e.key
    BY <1>3, <1>5, <2>2, AfterLeaf
  <2>4. AllOf(pages, Append(scanned, e))
    BY <1>6, <1>7, <1>8, <2>3, ReturnedAll DEF AllOf
  <2> QED
    BY <1>4, <2>1, <2>4, ToDone
<1> QED
  BY <1>11, <1>12, <1>13, <1>14, <1>15, <1>16

\* A step of a scan.
LEMMA ScanWalk ==
  ASSUME WholeSession, NEW lo, NEW lv, Planted(pages, lo, lv), ScanInv(lo), Scan
  PROVE  ScanInv(lo)'
<1>1. pages \in Seq(AnyPage) /\ FileInv /\ ReadTypes
  BY ArenaFacts DEF WholeSession
<1>2. /\ SameMap /\ lookup' = lookup /\ answer' = answer
      /\ \/ OnEmpty \/ OnLeaf \/ OnInternal \/ OnUnread \/ InLeaf \/ AtLast
         \/ ByUnread \/ ByEmpty \/ ByFound \/ ByNone \/ AtEnd
  BY <1>1, ScanSteps
<1>3. scanned \in Seq(LeafEntry) /\ (iter.st \in {"active", "advancing"} => AtEntry)
  BY <1>1 DEF ReadTypes, R!ReaderTypeOK, LeafEntry
<1>4. CASE OnEmpty \/ OnLeaf \/ OnInternal \/ OnUnread
  BY <1>1, <1>2, <1>4, SpineWalk
<1>5. CASE InLeaf \/ AtLast \/ ByUnread \/ ByEmpty \/ ByFound \/ ByNone
  <2>1. iter.st \in {"active", "advancing"}
    BY <1>5 DEF InLeaf, AtLast, ByUnread, ByEmpty, ByFound, ByNone, BySibling
  <2> QED
    BY <1>1, <1>2, <1>3, <1>5, <2>1, LeafWalk
<1>6. CASE AtEnd
  <2>1. AllOf(pages, scanned) /\ iter' = R!Done /\ scanned' = scanned /\ pages' = pages
    BY <1>2, <1>6 DEF AtEnd, Stops, ScanInv, SameMap
  <2> QED
    BY <2>1, ToDone
<1> QED
  BY <1>2, <1>4, <1>5, <1>6

-----------------------------------------------------------------------------
(* A lookup's way through the tree.                                        *)

LookupInv(lo, lv) ==
  lookup # R!NoLookup => Arrives(DOMAIN pages, lo, lv, lookup.at, lookup.key)

\* A step of a lookup.
LEMMA LookupWalk ==
  ASSUME WholeSession, NEW lo, NEW lv, Planted(pages, lo, lv), LookupInv(lo, lv), Lookup
  PROVE  /\ LookupInv(lo, lv)'
         /\ SameMap /\ iter' = iter /\ scanned' = scanned /\ scanEnd' = scanEnd
<1>1. pages \in Seq(AnyPage) /\ FileInv /\ ReadTypes
  BY ArenaFacts DEF WholeSession
<1>2. SameMap
  BY DEF Lookup, vars, fileVars, SameMap
<1>3. iter' = iter /\ scanned' = scanned /\ scanEnd' = scanEnd
  BY DEF Lookup, R!LookupStep, R!Get, R!SearchInternal, R!SearchHit, R!SearchMiss,
         R!SearchFails, R!GetReturns
<1>4. pages' = pages
  BY <1>2 DEF SameMap
<1>5. ASSUME NEW k \in Keys, R!Get(k) PROVE LookupInv(lo, lv)'
  <2>1. lookup'.at = P_ROOT /\ lookup'.key = k
    BY <1>5 DEF R!Get, R!FirstPage, P_ROOT
  <2>2. k \in Nat
    BY StringsAssumption
  <2>3. Arrives(DOMAIN pages, lo, lv, P_ROOT, k)
    BY <2>2, RootArrives
  <2> QED
    BY <1>4, <2>1, <2>3 DEF LookupInv
<1>6. ASSUME R!SearchInternal PROVE LookupInv(lo, lv)'
  <2>1. PICK c, k : c = lookup.at /\ k = lookup.key
    OBVIOUS
  <2>2. lookup # R!NoLookup /\ Reads(c) /\ ~ Image[c].leaf
    BY <1>1, <1>6, <2>1, ParseMore DEF R!SearchInternal, R!AtPage
  <2>3. Image[c] = pages[c] /\ c \in DOMAIN pages
    BY <1>1, <2>2, ParseReads DEF Reads
  <2>4. PICK i \in DOMAIN Image[c].ents :
          /\ R!IsPick(Image[c].ents, k, i)
          /\ lookup' = [lookup EXCEPT !.at = Image[c].ents[i].child]
    BY <1>6, <2>1 DEF R!SearchInternal
  <2>5. IsPick(pages[c].ents, k, i)
    BY <2>3, <2>4 DEF R!IsPick, IsPick
  <2>6. Arrives(DOMAIN pages, lo, lv, c, k)
    BY <2>1, <2>2 DEF LookupInv
  <2>7. Shape(pages, DOMAIN pages, lo, lv) /\ Attached(pages, DOMAIN pages, P_INVALID)
    BY DEF Planted
  <2>8. Arrives(DOMAIN pages, lo, lv, pages[c].ents[i].child, k)
    BY <1>1, <2>2, <2>3, <2>5, <2>6, <2>7, ArrivesChild
  <2>9. lookup'.at = pages[c].ents[i].child /\ lookup'.key = k
    BY <1>1, <2>1, <2>3, <2>4 DEF ReadTypes, R!ReaderTypeOK
  <2> QED
    BY <1>4, <2>8, <2>9 DEF LookupInv
<1>7. ASSUME R!SearchHit \/ R!SearchMiss \/ R!SearchFails PROVE LookupInv(lo, lv)'
  <2>1. lookup' = R!NoLookup
    BY <1>7 DEF R!SearchHit, R!SearchMiss, R!SearchFails, R!GetReturns
  <2> QED
    BY <2>1 DEF LookupInv
<1>8. LookupInv(lo, lv)'
  BY <1>5, <1>6, <1>7 DEF Lookup, R!LookupStep
<1> QED
  BY <1>2, <1>3, <1>8

-----------------------------------------------------------------------------
(* The tree that a reader walks through.                                   *)

\* The writer's invariants of the arena.
TreeReady == WholeInv /\ LinkInv /\ Linked(pages)

\* They hold throughout the session.
LEMMA TreeReadyHolds ==
  ASSUME HalfSeps
  PROVE  SessionSpec => []TreeReady
<1>1. Spec => [](WholeInv /\ LinkInv)
  BY LinksHold
<1>2. Spec => []Linked(pages)
  <2>1. IInv /\ Linked(pages) /\ [Next]_vars => (IInv /\ Linked(pages))'
    BY NextPreserves, NextLinked
  <2> QED
    BY <2>1, InitEstablishes, InitLinked, PTL DEF Spec
<1> QED
  BY <1>1, <1>2, SessionIsWriter, PTL DEF TreeReady

\* Whatever has been mapped is a tree.
LEMMA MappedTree ==
  ASSUME FileInv, TreeReady, db > 0
  PROVE  \E lo, lv : Planted(pages, lo, lv)
<1>1. pc = "idle"
  <2>1. wst \in {"finishing", "finished", "gone"} /\ db <= disk.pages /\ FileShape
    BY DEF FileInv
  <2>2. disk.pages > 0
    <3>1. disk.pages \in 0 .. Total /\ db \in Nat
      BY <2>1 DEF FileShape, FileInv
    <3>2. disk.pages \in Int
      BY <3>1
    <3> QED
      BY <2>1, <3>1, <3>2
  <2> QED
    BY <2>1, <2>2 DEF FileInv
<1>2. pages \in Seq(AnyPage)
  BY WholeFacts DEF TreeReady
<1>3. PICK A, lo, lv : A = DOMAIN pages /\ Shape(pages, A, lo, lv) /\ KeyCall(A, lo, lv)
  BY WholeFacts DEF TreeReady
<1>4. Attached(pages, DOMAIN pages, P_INVALID)
  BY <1>1, <1>3 DEF KeyCall
<1>5. Kinds(pages) /\ InOrder(pages) /\ Linked(pages)
  BY <1>1 DEF TreeReady, LinkInv
<1> QED
  BY <1>2, <1>3, <1>4, <1>5 DEF Planted

-----------------------------------------------------------------------------
(* The session's readers.                                                  *)

WalkInv ==
  /\ db > 0 => \E lo, lv : Planted(pages, lo, lv) /\ LookupInv(lo, lv) /\ ScanInv(lo)
  /\ db = 0 => scanEnd = "open"

\* A reader that has just begun.
LEMMA WalkBegins ==
  ASSUME NEW lo, NEW lv, NoReader, Planted(pages', lo, lv)
  PROVE  LookupInv(lo, lv)' /\ ScanInv(lo)'
<1>1. lookup' = R!NoLookup /\ iter' = R!Pristine /\ scanned' = <<>> /\ scanEnd' = "open"
  BY DEF NoReader
<1>2. P_ROOT \in DOMAIN pages' /\ lo[P_ROOT] = 0
  BY PlantedNumbers
<1>3. LookupInv(lo, lv)'
  BY <1>1 DEF LookupInv
<1>4. ScanInv(lo)'
  BY <1>1, <1>2, IterStates DEF ScanInv
<1> QED
  BY <1>3, <1>4

\* Every step keeps the readers on their way.
LEMMA WalkStep ==
  ASSUME WholeSession, WholeSession', TreeReady, TreeReady', WalkInv,
         [SessionNext]_sessionVars
  PROVE  WalkInv'
<1>1. \/ NoReader /\ (db' = 0 \/ Open)
      \/ UNCHANGED readVars /\ db' = db /\ (db > 0 => SameMap)
      \/ Lookup
      \/ Scan
  BY ReaderSteps, WriterHasArena DEF WholeSession
<1>2. CASE NoReader
  <2>1. scanEnd' = "open"
    BY <1>2 DEF NoReader
  <2>2. db' > 0 => \E lo, lv : Planted(pages', lo, lv)
    <3>1. (FileInv /\ TreeReady /\ db > 0 => \E lo, lv : Planted(pages, lo, lv))'
      BY MappedTree, PTL
    <3> QED
      BY <3>1 DEF WholeSession
  <2> QED
    BY <1>2, <2>1, <2>2, WalkBegins DEF WalkInv
<1>3. CASE UNCHANGED readVars /\ db' = db /\ (db > 0 => SameMap)
  <2>1. /\ lookup' = lookup /\ iter' = iter /\ scanned' = scanned /\ scanEnd' = scanEnd
    BY <1>3 DEF readVars
  <2>2. CASE db > 0
    <3>1. PICK lo, lv : Planted(pages, lo, lv) /\ LookupInv(lo, lv) /\ ScanInv(lo)
      BY <2>2 DEF WalkInv
    <3>2. pages' = pages
      BY <1>3, <2>2 DEF SameMap
    <3>3. LookupInv(lo, lv)' /\ ScanInv(lo)' /\ Planted(pages', lo, lv)
      BY <2>1, <3>1, <3>2 DEF LookupInv, ScanInv, Here
    <3> QED
      BY <1>3, <2>2, <3>3 DEF WalkInv, WholeSession, FileInv
  <2>3. CASE db = 0
    BY <1>3, <2>1, <2>3 DEF WalkInv
  <2> QED
    BY <2>2, <2>3 DEF WholeSession, FileInv
<1>4. CASE Lookup
  <2>1. db > 0
    BY <1>4 DEF Lookup
  <2>2. PICK lo, lv : Planted(pages, lo, lv) /\ LookupInv(lo, lv) /\ ScanInv(lo)
    BY <2>1 DEF WalkInv
  <2>3. /\ LookupInv(lo, lv)'
        /\ SameMap /\ iter' = iter /\ scanned' = scanned /\ scanEnd' = scanEnd
    BY <1>4, <2>2, LookupWalk
  <2>4. pages' = pages /\ db' = db
    BY <2>3 DEF SameMap
  <2>5. ScanInv(lo)' /\ Planted(pages', lo, lv)
    BY <2>2, <2>3, <2>4 DEF ScanInv, Here
  <2> QED
    BY <2>1, <2>3, <2>4, <2>5 DEF WalkInv, WholeSession, FileInv
<1>5. CASE Scan
  <2>1. db > 0
    BY <1>5 DEF Scan
  <2>2. PICK lo, lv : Planted(pages, lo, lv) /\ LookupInv(lo, lv) /\ ScanInv(lo)
    BY <2>1 DEF WalkInv
  <2>3. ScanInv(lo)'
    BY <1>5, <2>2, ScanWalk
  <2>4. pages \in Seq(AnyPage) /\ FileInv /\ ReadTypes
    BY ArenaFacts DEF WholeSession
  <2>5. SameMap /\ lookup' = lookup
    BY <1>5, <2>4, ScanSteps
  <2>6. LookupInv(lo, lv)' /\ Planted(pages', lo, lv) /\ db' = db
    BY <2>2, <2>5 DEF LookupInv, SameMap
  <2> QED
    BY <2>1, <2>3, <2>4, <2>6 DEF WalkInv, FileInv
<1> QED
  BY <1>1, <1>2, <1>3, <1>4, <1>5

\* A session's invariant, its readers included.
ReadersInv == WholeSession /\ TreeReady /\ WalkInv

\* It holds throughout.
LEMMA ReadersHold ==
  ASSUME HalfSeps
  PROVE  SessionSpec => []ReadersInv
<1>1. SessionInit => WalkInv
  BY DEF SessionInit, R!ReaderInit, WalkInv
<1>2. /\ WholeSession /\ WholeSession' /\ TreeReady /\ TreeReady' /\ WalkInv
      /\ [SessionNext]_sessionVars
      => WalkInv'
  BY WalkStep
<1>3. SessionSpec => [](WholeSession /\ TreeReady)
  BY WholeSessionHolds, TreeReadyHolds, PTL
<1> QED
  BY <1>1, <1>2, <1>3, PTL DEF SessionSpec, ReadersInv

-----------------------------------------------------------------------------
(* What callers of a Db see.                                               *)

\* What the snapshot is a snapshot of.
SnapDict == IF db > 0 THEN Stored ELSE {}
SnapWhole == db = Total /\ Whole

\* A step of the snapshot, or none.
SnapStep == [Snap!Next]_(Snap!vars)

\* A session's pages are a sequence.
LEMMA SessionArena == WholeSession => ArenaOK
  BY WriterHasArena DEF WholeSession

\* A file is whole when the last page has been mapped and none is lost.
LEMMA WholeMapped ==
  ASSUME WholeSession
  PROVE  SnapWhole = (db = Total /\ disk.lost = {})
<1>1. FileInv /\ Total \in Nat /\ Total > 0
  BY WriterHasArena DEF WholeSession, ArenaOK, Total
<1>2. db > 0 => disk # NoFile /\ FileShape /\ db <= disk.pages
  BY <1>1 DEF FileInv
<1>3. db > 0 => disk.pages \in 0 .. Total
  BY <1>2 DEF FileShape
<1>4. db = Total => db > 0 /\ disk # NoFile /\ disk.pages = Total
  BY <1>1, <1>2, <1>3
<1> QED
  BY <1>4 DEF SnapWhole, Whole

\* The snapshot changes only when a Db is opened or closed.
LEMMA SnapshotStays ==
  ASSUME WholeSession, WholeSession', db' = db, db > 0 => SameMap
  PROVE  SnapDict' = SnapDict /\ SnapWhole' = SnapWhole
<1>1. Total \in Nat /\ Total' \in Nat /\ Total > 0 /\ Total' > 0 /\ db \in Nat
  <2>1. ArenaOK
    BY WriterHasArena DEF WholeSession
  <2>2. (WholeSession => ArenaOK)'
    BY SessionArena, PTL
  <2> QED
    BY <2>1, <2>2 DEF ArenaOK, Total, WholeSession, FileInv
<1>2. SnapWhole = (db = Total /\ disk.lost = {})
  BY WholeMapped
<1>3. SnapWhole' = (db' = Total' /\ disk'.lost = {})
  <2>1. (WholeSession => SnapWhole = (db = Total /\ disk.lost = {}))'
    BY WholeMapped, PTL
  <2> QED
    BY <2>1
<1>4. CASE db > 0
  <2>1. pages' = pages /\ disk'.lost = disk.lost
    BY <1>4 DEF SameMap
  <2>2. Total' = Total /\ Stored' = Stored
    BY <2>1 DEF Total, Stored
  <2> QED
    BY <1>2, <1>3, <2>1, <2>2 DEF SnapDict
<1>5. CASE ~ (db > 0)
  <2>1. db # Total /\ db' # Total'
    BY <1>1, <1>5
  <2> QED
    BY <1>2, <1>3, <1>5, <2>1 DEF SnapDict
<1> QED
  BY <1>4, <1>5

\* On a file that is whole every page can be read.
LEMMA WholeReads ==
  ASSUME WholeSession, SnapWhole, NEW p \in DOMAIN pages
  PROVE  Reads(p)
<1>1. db = Total /\ disk.lost = {}
  BY WholeMapped
<1>2. PICK n : n = Len(pages) /\ n \in Nat /\ DOMAIN pages = 1 .. n
  BY MappedPages, ArenaFacts DEF WholeSession
<1> QED
  BY <1>1, <1>2 DEF Reads, Total

\* Nothing changes for the caller.
LEMMA SnapNothing ==
  ASSUME SnapDict' = SnapDict, SnapWhole' = SnapWhole,
         answer' = answer, scanned' = scanned, scanEnd' = scanEnd
  PROVE  SnapStep
  BY DEF SnapStep, Snap!vars, SnapDict, SnapWhole

\* A Db is opened or closed.
LEMMA SnapOpens ==
  ASSUME NoReader
  PROVE  SnapStep
<1>1. Snap!Open
  BY DEF NoReader, Snap!Open, R!NoAnswer
<1> QED
  BY <1>1 DEF SnapStep, Snap!Next

\* A lookup begins.
LEMMA SnapAsks ==
  ASSUME SnapDict' = SnapDict, SnapWhole' = SnapWhole,
         answer' = R!NoAnswer, scanned' = scanned, scanEnd' = scanEnd
  PROVE  SnapStep
<1>1. Snap!Ask
  BY DEF Snap!Ask, R!NoAnswer, SnapDict, SnapWhole
<1> QED
  BY <1>1 DEF SnapStep, Snap!Next

\* A lookup finds its key, ...
LEMMA SnapHits ==
  ASSUME SnapDict' = SnapDict, SnapWhole' = SnapWhole,
         NEW k \in Keys, NEW kv \in SnapDict, kv[1] = k,
         answer' = [is |-> "some", key |-> k, val |-> kv[2]],
         scanned' = scanned, scanEnd' = scanEnd
  PROVE  SnapStep
<1>1. Snap!Hit(k)
  BY DEF Snap!Hit, SnapDict, SnapWhole
<1> QED
  BY <1>1 DEF SnapStep, Snap!Next

\* ... or does not, ...
LEMMA SnapMisses ==
  ASSUME SnapDict' = SnapDict, SnapWhole' = SnapWhole,
         NEW k \in Keys, \A kv \in SnapDict : kv[1] # k,
         answer' = [is |-> "none", key |-> k],
         scanned' = scanned, scanEnd' = scanEnd
  PROVE  SnapStep
<1>1. Snap!Miss(k)
  BY DEF Snap!Miss, SnapDict, SnapWhole
<1> QED
  BY <1>1 DEF SnapStep, Snap!Next

\* ... or fails.
LEMMA SnapLookupFails ==
  ASSUME SnapDict' = SnapDict, SnapWhole' = SnapWhole, ~ SnapWhole,
         NEW k \in Keys, NEW e \in PageErrors,
         answer' = [is |-> e, key |-> k],
         scanned' = scanned, scanEnd' = scanEnd
  PROVE  SnapStep
<1>1. Snap!LookupError(k, e)
  BY DEF Snap!LookupError, SnapDict, SnapWhole
<1> QED
  BY <1>1 DEF SnapStep, Snap!Next, PageErrors

\* A scan returns an entry, ...
LEMMA SnapYields ==
  ASSUME SnapDict' = SnapDict, SnapWhole' = SnapWhole, answer' = answer,
         scanEnd = "open", scanEnd' = scanEnd,
         NEW e \in LeafEntry, scanned' = Append(scanned, e),
         KV(e) \in AheadOf(scanned, SnapDict),
         \A kv \in AheadOf(scanned, SnapDict) : e.key <= kv[1]
  PROVE  SnapStep
<1>1. Snap!Ahead = AheadOf(scanned, SnapDict)
  BY DEF Snap!Ahead, AheadOf, SnapDict
<1>2. PICK kv \in Snap!Ahead : kv = KV(e)
  BY <1>1
<1>3. kv[1] = e.key /\ kv[2] = e.val
  BY <1>2 DEF KV
<1>4. e = [key |-> kv[1], val |-> kv[2]]
  BY <1>3 DEF LeafEntry
<1>5. \A other \in Snap!Ahead : kv[1] <= other[1]
  BY <1>1, <1>3
<1>6. Snap!Yield
  BY <1>4, <1>5 DEF Snap!Yield, SnapDict, SnapWhole
<1> QED
  BY <1>6 DEF SnapStep, Snap!Next

\* ... comes to its end, ...
LEMMA SnapEnds ==
  ASSUME SnapDict' = SnapDict, SnapWhole' = SnapWhole, answer' = answer,
         scanEnd = "open", scanEnd' = "None", scanned' = scanned,
         scanned = <<>> \/ AheadOf(scanned, SnapDict) = {}
  PROVE  SnapStep
<1>1. Snap!Ahead = AheadOf(scanned, SnapDict)
  BY DEF Snap!Ahead, AheadOf, SnapDict
<1>2. Snap!End
  BY <1>1 DEF Snap!End, SnapDict, SnapWhole
<1> QED
  BY <1>2 DEF SnapStep, Snap!Next

\* ... or fails.
LEMMA SnapScanFails ==
  ASSUME SnapDict' = SnapDict, SnapWhole' = SnapWhole, answer' = answer, ~ SnapWhole,
         scanEnd = "open", scanEnd' \in PageErrors, scanned' = scanned
  PROVE  SnapStep
<1>1. Snap!ScanError(scanEnd')
  BY DEF Snap!ScanError, SnapDict, SnapWhole
<1> QED
  BY <1>1 DEF SnapStep, Snap!Next, PageErrors

\* A step of a lookup is a step of the snapshot.
LEMMA LookupSnap ==
  ASSUME WholeSession, NEW lo, NEW lv, Planted(pages, lo, lv), LookupInv(lo, lv), Lookup
  PROVE  SnapStep
<1>1. pages \in Seq(AnyPage) /\ FileInv /\ ReadTypes /\ db > 0
  BY ArenaFacts DEF WholeSession, Lookup
<1>2. SnapDict' = SnapDict /\ SnapWhole' = SnapWhole
  BY DEF Lookup, vars, fileVars, SnapDict, SnapWhole, Stored, Total, Whole
<1>3. iter' = iter /\ scanned' = scanned /\ scanEnd' = scanEnd
  BY LookupWalk
<1>4. SnapDict = StoredIn(pages)
  BY <1>1, StoredPairs DEF SnapDict
<1>5. PICK c, k : c = lookup.at /\ k = lookup.key
  OBVIOUS
<1>6. lookup # R!NoLookup =>
        k \in Keys /\ c \in DOMAIN pages /\ Arrives(DOMAIN pages, lo, lv, c, k)
  BY <1>1, <1>5 DEF ReadTypes, LookupInv, Arrives
<1>7. CASE \E key \in Keys : R!Get(key)
  BY <1>2, <1>3, <1>7, SnapAsks DEF R!Get
<1>8. CASE R!SearchInternal
  BY <1>2, <1>3, <1>8, SnapNothing DEF R!SearchInternal
<1>9. CASE R!SearchHit
  <2>1. lookup # R!NoLookup /\ Reads(c) /\ Image[c].leaf
    BY <1>1, <1>5, <1>9, ParseMore DEF R!SearchHit, R!AtPage
  <2>2. Image[c] = pages[c]
    BY <1>1, <2>1, ParseReads
  <2>3. PICK i \in DOMAIN Image[c].ents :
          /\ Image[c].ents[i].key = k
          /\ answer' = [is |-> "some", key |-> k, val |-> Image[c].ents[i].val]
    BY <1>5, <1>9 DEF R!SearchHit, R!GetReturns
  <2>4. PICK kv : kv = KV(pages[c].ents[i])
    OBVIOUS
  <2>5. kv[1] = k /\ answer' = [is |-> "some", key |-> k, val |-> kv[2]]
    BY <2>2, <2>3, <2>4 DEF KV
  <2>6. kv \in SnapDict
    BY <1>4, <1>6, <2>1, <2>2, <2>3, <2>4, PlaceStored
  <2> QED
    BY <1>2, <1>3, <1>6, <2>1, <2>5, <2>6, SnapHits
<1>10. CASE R!SearchMiss
  <2>1. lookup # R!NoLookup /\ Reads(c) /\ Image[c].leaf
    BY <1>1, <1>5, <1>10, ParseMore DEF R!SearchMiss, R!AtPage
  <2>2. Image[c] = pages[c]
    BY <1>1, <2>1, ParseReads
  <2>3. /\ ~ R!Holds(Image[c].ents, k)
        /\ answer' = [is |-> "none", key |-> k]
    BY <1>5, <1>10 DEF R!SearchMiss, R!GetReturns
  <2>4. \A j \in DOMAIN pages[c].ents : pages[c].ents[j].key # k
    BY <2>2, <2>3 DEF R!Holds
  <2>5. \A kv \in SnapDict : kv[1] # k
    <3> SUFFICES ASSUME NEW kv \in SnapDict, kv[1] = k PROVE FALSE
      OBVIOUS
    <3>1. \E j \in DOMAIN pages[c].ents : pages[c].ents[j].key = k
      BY <1>4, <1>6, <2>1, <2>2, LookupLeaf
    <3> QED
      BY <2>4, <3>1
  <2> QED
    BY <1>2, <1>3, <1>6, <2>1, <2>3, <2>5, SnapMisses
<1>11. CASE R!SearchFails
  <2>1. PICK e : e = R!ParseForSearch(c)
    OBVIOUS
  <2>2. /\ lookup # R!NoLookup /\ e # "ok"
        /\ answer' = [is |-> e, key |-> k]
    BY <1>5, <1>11, <2>1 DEF R!SearchFails, R!GetReturns
  <2>3. e \in PageErrors
    BY <1>1, <2>1, <2>2, ParseMore DEF PageErrors
  <2>4. ~ SnapWhole
    <3> SUFFICES ASSUME SnapWhole PROVE FALSE
      OBVIOUS
    <3>1. Reads(c)
      BY <1>6, <2>2, WholeReads
    <3>2. ~ pages[c].leaf /\ pages[c].ents = <<>>
      BY <1>1, <2>1, <2>2, <3>1, ParseMore
    <3>3. 1 \in DOMAIN pages[c].ents
      BY <1>6, <2>2, <3>2, FirstIsLeast
    <3> QED
      BY <1>1, <1>6, <2>2, <3>2, <3>3, ReadsEnts
  <2> QED
    BY <1>2, <1>3, <1>6, <2>2, <2>3, <2>4, SnapLookupFails
<1> QED
  BY <1>7, <1>8, <1>9, <1>10, <1>11 DEF Lookup, R!LookupStep

\* A step of a scan is a step of the snapshot.
LEMMA ScanSnap ==
  ASSUME WholeSession, NEW lo, NEW lv, Planted(pages, lo, lv), ScanInv(lo), Scan
  PROVE  SnapStep
<1>1. pages \in Seq(AnyPage) /\ FileInv /\ ReadTypes /\ db > 0
  BY ArenaFacts DEF WholeSession, Scan
<1>2. SnapDict' = SnapDict /\ SnapWhole' = SnapWhole
  BY DEF Scan, vars, fileVars, SnapDict, SnapWhole, Stored, Total, Whole
<1>3. SnapDict = StoredIn(pages)
  BY <1>1, StoredPairs DEF SnapDict
<1>4. /\ SameMap /\ lookup' = lookup /\ answer' = answer
      /\ \/ OnEmpty \/ OnLeaf \/ OnInternal \/ OnUnread \/ InLeaf \/ AtLast
         \/ ByUnread \/ ByEmpty \/ ByFound \/ ByNone \/ AtEnd
  BY <1>1, ScanSteps
<1>5. scanned \in Seq(LeafEntry)
  BY <1>1 DEF ReadTypes, R!ReaderTypeOK, LeafEntry
<1>6. CASE OnEmpty
  <2>1. /\ scanned = <<>> /\ scanEnd = "open" /\ scanned' = scanned /\ scanEnd' = "None"
    BY <1>6 DEF OnEmpty, R!OnSpine, Stops, ScanInv
  <2> QED
    BY <1>2, <1>4, <2>1, SnapEnds
<1>7. CASE OnLeaf \/ OnInternal \/ AtLast \/ ByEmpty
  <2>1. scanned' = scanned /\ scanEnd' = scanEnd
    BY <1>7 DEF OnLeaf, OnInternal, AtLast, ByEmpty, GoesTo
  <2> QED
    BY <1>2, <1>4, <2>1, SnapNothing
<1>8. CASE OnUnread
  <2>1. /\ ~ Reads(iter.pg) /\ iter.pg \in DOMAIN pages /\ scanEnd = "open"
        /\ scanned' = scanned /\ scanEnd' \in PageErrors
    BY <1>8 DEF OnUnread, R!OnSpine, Stops, ScanInv
  <2>2. ~ SnapWhole
    BY <2>1, WholeReads
  <2> QED
    BY <1>2, <1>4, <2>1, <2>2, SnapScanFails
<1>9. CASE ByUnread
  <2>1. /\ iter.st = "advancing" /\ iter.to # P_INVALID
        /\ ~ (Reads(iter.to) /\ pages[iter.to].leaf)
        /\ scanned' = scanned /\ scanEnd' \in PageErrors
    BY <1>9 DEF ByUnread, Stops
  <2>2. scanEnd = "open" /\ iter.to \in DOMAIN pages /\ pages[iter.to].leaf
    BY <2>1 DEF ScanInv, Toward
  <2>3. ~ SnapWhole
    BY <2>1, <2>2, WholeReads
  <2> QED
    BY <1>2, <1>4, <2>1, <2>2, <2>3, SnapScanFails
<1>10. CASE InLeaf \/ ByFound \/ ByNone
  <2>1. iter.st \in {"active", "advancing"}
    BY <1>10 DEF InLeaf, ByFound, BySibling, ByNone
  <2>2. PICK e : e = Here
    OBVIOUS
  <2>3. scanned' = Append(scanned, e) /\ scanEnd' = scanEnd
    BY <1>10, <2>2 DEF InLeaf, ByFound, ByNone, Gives
  <2>4. AtEntry
    BY <1>1, <2>1 DEF ReadTypes
  <2>5. e \in LeafEntry
    BY <1>1, <2>2, <2>4, ReadsEnts DEF AtEntry, Here, Reads
  <2>6. KV(e) \in StoredIn(pages)
    BY <2>2, <2>4, PlaceStored DEF AtEntry, Here, Reads
  <2>7. Returned(pages, scanned, e.key) /\ scanEnd = "open"
    BY <2>1, <2>2 DEF ScanInv
  <2>8. /\ KV(e) \in AheadOf(scanned, StoredIn(pages))
        /\ \A kv \in AheadOf(scanned, StoredIn(pages)) : e.key <= kv[1]
    BY <1>5, <2>5, <2>6, <2>7, LeastAhead
  <2> QED
    BY <1>2, <1>3, <1>4, <2>3, <2>5, <2>7, <2>8, SnapYields
<1>11. CASE AtEnd
  <2>1. /\ AllOf(pages, scanned) /\ scanEnd = "open"
        /\ scanned' = scanned /\ scanEnd' = "None"
    BY <1>11 DEF AtEnd, Stops, ScanInv
  <2>2. scanned # <<>> => AheadOf(scanned, StoredIn(pages)) = {}
    BY <1>5, <2>1, NothingAhead DEF AllOf
  <2> QED
    BY <1>2, <1>3, <1>4, <2>1, <2>2, SnapEnds
<1> QED
  BY <1>4, <1>6, <1>7, <1>8, <1>9, <1>10, <1>11

\* A step of the session is a step of the snapshot, or none.
LEMMA SessionSnap ==
  ASSUME WholeSession, WholeSession', WalkInv, [SessionNext]_sessionVars
  PROVE  SnapStep
<1>1. \/ NoReader /\ (db' = 0 \/ Open)
      \/ UNCHANGED readVars /\ db' = db /\ (db > 0 => SameMap)
      \/ Lookup
      \/ Scan
  BY ReaderSteps, WriterHasArena DEF WholeSession
<1>2. CASE NoReader
  BY <1>2, SnapOpens
<1>3. CASE UNCHANGED readVars /\ db' = db /\ (db > 0 => SameMap)
  <2>1. answer' = answer /\ scanned' = scanned /\ scanEnd' = scanEnd
    BY <1>3 DEF readVars
  <2> QED
    BY <1>3, <2>1, SnapshotStays, SnapNothing
<1>4. CASE Lookup
  <2>1. db > 0
    BY <1>4 DEF Lookup
  <2> QED
    BY <1>4, <2>1, LookupSnap DEF WalkInv
<1>5. CASE Scan
  <2>1. db > 0
    BY <1>5 DEF Scan
  <2> QED
    BY <1>5, <2>1, ScanSnap DEF WalkInv
<1> QED
  BY <1>1, <1>2, <1>3, <1>4, <1>5

\* The session begins with the empty snapshot.
LEMMA SnapBegins == SessionInit => Snap!Init
  BY DEF SessionInit, R!ReaderInit, R!NoAnswer, Snap!Init, Whole

\* Whatever part of the file a crash or an unfinished finish has left, what a
\* lookup or a scan returns is what was stored, in order, or an error; on a
\* file that is whole it is no error.
THEOREM SnapshotCorrect ==
  ASSUME HalfSeps
  PROVE  SessionSpec => ImplementsSnapshot
<1>1. WholeSession /\ WholeSession' /\ WalkInv /\ [SessionNext]_sessionVars
        => [Snap!Next]_(Snap!vars)
  BY SessionSnap DEF SnapStep
<1>2. SessionSpec => [](WholeSession /\ WalkInv)
  BY ReadersHold, PTL DEF ReadersInv
<1> QED
  BY <1>1, <1>2, SnapBegins, PTL DEF SessionSpec, ImplementsSnapshot, Snap!Spec

\* The scanned entries, as pairs.
LEMMA ScannedPairs == Scanned = Pairs(scanned)
  BY DEF Scanned, Pairs, KV

\* A scan that ends without an error has returned everything, but when
\* deletions have emptied the first leaf, and then it returns nothing.
THEOREM ScanAllCorrect ==
  ASSUME HalfSeps
  PROVE  SessionSpec => []ScanAllOrFirstLeafEmpty
<1>1. ReadersInv => ScanAllOrFirstLeafEmpty
  <2> SUFFICES ASSUME ReadersInv, scanEnd = "None"
               PROVE  Scanned = IF FirstLeafEmpty THEN {} ELSE Stored
    BY DEF ScanAllOrFirstLeafEmpty
  <2>1. db > 0
    BY DEF ReadersInv, WalkInv, WholeSession, FileInv
  <2>2. PICK lo, lv : ScanInv(lo)
    BY <2>1 DEF ReadersInv, WalkInv
  <2>3. AllOf(pages, scanned) \/ (scanned = <<>> /\ FirstEmptyIn(pages))
    BY <2>2 DEF ScanInv
  <2>4. FirstLeafEmpty <=> FirstEmptyIn(pages)
    BY DEF FirstLeafEmpty, FirstEmptyIn
  <2>5. scanned = <<>> => Pairs(scanned) = {}
    BY DEF Pairs
  <2> QED
    BY <2>3, <2>4, <2>5, ScannedPairs, StoredPairs DEF AllOf
<1> QED
  BY <1>1, ReadersHold, PTL

\* When advance_leaf fails, everything before the last entry of the last leaf
\* that could be read has been returned, and that entry, which is stored, has
\* not.
THEOREM ErrorCostCorrect ==
  ASSUME HalfSeps
  PROVE  SessionSpec => ErrorCostsOneEntry
<1>1. ASSUME ReadersInv, [SessionNext]_sessionVars,
             iter.st = "advancing", scanEnd' \notin {"open", "None"}
      PROVE  /\ <<R!Current.key, R!Current.val>> \in Stored
             /\ Scanned' = {kv \in Stored : kv[1] < R!Current.key}
  <2>1. WholeSession /\ WalkInv /\ pages \in Seq(AnyPage) /\ FileInv /\ ReadTypes
    BY <1>1, ArenaFacts DEF ReadersInv, WholeSession
  <2>2. AtEntry
    BY <1>1, <2>1 DEF ReadTypes
  <2>3. db > 0
    <3>1. Reads(iter.pg) /\ iter.pg \in Nat
      BY <2>1, <2>2, ReadsEnts DEF AtEntry, Reads
    <3> QED
      BY <2>1, <3>1 DEF Reads, FileInv
  <2>4. PICK lo, lv : ScanInv(lo)
    BY <2>1, <2>3 DEF WalkInv
  <2>5. scanEnd = "open" /\ Returned(pages, scanned, Here.key)
    BY <1>1, <2>4 DEF ScanInv
  <2>6. R!Current = Here
    BY <2>1, <2>2, ParseReads DEF AtEntry, R!Current, Here
  <2>7. scanned' = scanned
    <3>1. \/ NoReader \/ UNCHANGED readVars \/ Lookup \/ Scan
      BY <1>1, <2>1, ReaderSteps, WriterHasArena DEF WholeSession
    <3>2. ~ NoReader
      BY <1>1 DEF NoReader
    <3>3. ~ UNCHANGED readVars
      BY <1>1, <2>5 DEF readVars
    <3>4. ~ Lookup
      <4> SUFFICES ASSUME Lookup PROVE FALSE
        OBVIOUS
      <4>1. scanEnd' = scanEnd
        BY DEF Lookup, R!LookupStep, R!Get, R!SearchInternal, R!SearchHit, R!SearchMiss,
               R!SearchFails, R!GetReturns
      <4> QED
        BY <1>1, <2>5, <4>1
    <3>5. \/ OnEmpty \/ OnLeaf \/ OnInternal \/ OnUnread \/ InLeaf \/ AtLast
          \/ ByUnread \/ ByEmpty \/ ByFound \/ ByNone \/ AtEnd
      BY <2>1, <3>1, <3>2, <3>3, <3>4, ScanSteps
    <3> QED
      BY <1>1, <2>5, <3>5
      DEF OnEmpty, OnLeaf, OnInternal, OnUnread, InLeaf, AtLast, ByUnread, ByEmpty,
          ByFound, ByNone, AtEnd, GoesTo, Gives, Stops
  <2>8. Scanned' = Pairs(scanned')
    BY DEF Scanned, Pairs, KV
  <2>9. KV(Here) \in StoredIn(pages)
    BY <2>2, PlaceStored DEF AtEntry, Here, Reads
  <2> QED
    BY <2>5, <2>6, <2>7, <2>8, <2>9, StoredPairs DEF Returned, KV
<1> QED
  BY <1>1, ReadersHold, PTL DEF SessionSpec, ErrorCostsOneEntry
=============================================================================
