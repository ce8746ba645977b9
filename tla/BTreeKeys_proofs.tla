-------------------------- MODULE BTreeKeys_proofs --------------------------
(***************************************************************************)
(* The arena is a search tree: the keys of a page are in order and in the  *)
(* range its separator gives them, a key is where the descent looks for    *)
(* it, what callers see is a dictionary, and the next links run along each *)
(* level.  For every set of keys and values, every page size and every     *)
(* bound on the arena; what needs entries of at most half a page says so.  *)
(***************************************************************************)
EXTENDS BTreeWriter_proofs, FiniteSetTheorems

-----------------------------------------------------------------------------
(* The shape of the arena.                                                 *)

\* The keys of an entry list are strictly increasing.
Ascending(s) == \A i, j \in DOMAIN s : i < j => s[i].key < s[j].key

\* The range slot i of page p gives its child holds for the child's keys.
InRange(ps, p, i) ==
  LET entry == ps[p].ents[i]
      child == ps[entry.child]
  IN  /\ ~ child.leaf => child.ents[1].key = entry.key
      /\ \A j \in DOMAIN child.ents :
           /\ entry.key <= child.ents[j].key
           /\ i < Len(ps[p].ents) => child.ents[j].key < ps[p].ents[i + 1].key

\* A is the set of the pages in the tree; the others are what failed calls
\* have left behind.  lo[p] is the least key p may hold, lv[p] its distance
\* from the leaves.
Measured(ps, A, lo, lv) ==
  /\ A \subseteq DOMAIN ps /\ P_ROOT \in A
  /\ \A p \in A : lo[p] \in Nat /\ lv[p] \in Nat
  /\ lo[P_ROOT] = 0
  /\ \A p \in A : lv[p] <= lv[P_ROOT] /\ (ps[p].leaf <=> lv[p] = 0)

\* The keys of every page are in order.
Ordered(ps) == \A p \in DOMAIN ps : Ascending(ps[p].ents)

\* The keys of a page begin at lo, those of an internal page with lo itself.
FirstKeys(ps, A, lo) ==
  \A p \in A : /\ \A i \in DOMAIN ps[p].ents : lo[p] <= ps[p].ents[i].key
               /\ ~ ps[p].leaf => \E i \in DOMAIN ps[p].ents : ps[p].ents[i].key = lo[p]

\* A separator refers to a page of the level below that begins with its key.
Hanging(ps, A, lo, lv) ==
  \A p \in A : ~ ps[p].leaf => \A i \in DOMAIN ps[p].ents :
    /\ ps[p].ents[i].child \in A
    /\ lv[ps[p].ents[i].child] + 1 = lv[p]
    /\ lo[ps[p].ents[i].child] = ps[p].ents[i].key

\* The keys of a page end before any page begins that is not below it.
Below(ps, A, lo, lv) ==
  \A p, q \in A : lv[p] <= lv[q] /\ lo[p] < lo[q] =>
    \A i \in DOMAIN ps[p].ents : ps[p].ents[i].key < lo[q]

\* No two pages of a level begin at the same key.
Apart(A, lo, lv) == \A p, q \in A : lv[p] = lv[q] /\ lo[p] = lo[q] => p = q

\* What has been left behind refers to nothing in the tree.
Detached(ps, A) ==
  \A p \in DOMAIN ps \ A : ~ ps[p].leaf => \A i \in DOMAIN ps[p].ents :
    ps[p].ents[i].child \in DOMAIN ps \ A /\ InRange(ps, p, i)

\* The arena as a tree: A its pages, lo and lv their least keys and levels.
Shape(ps, A, lo, lv) ==
  /\ Measured(ps, A, lo, lv)
  /\ Ordered(ps)
  /\ FirstKeys(ps, A, lo)
  /\ Hanging(ps, A, lo, lv)
  /\ Below(ps, A, lo, lv)
  /\ Apart(A, lo, lv)
  /\ Detached(ps, A)

\* Every page of the tree but the root and x hangs from a separator.
Attached(ps, A, x) ==
  \A q \in A \ {P_ROOT, x} : \E p \in A : ~ ps[p].leaf /\
    \E i \in DOMAIN ps[p].ents : ps[p].ents[i].child = q

\* x, from which nothing hangs yet, is the page that follows c on its level.
Beside(ps, A, lo, lv, c, x) ==
  /\ c \in A /\ x \in A /\ lv[x] = lv[c] /\ lo[c] < lo[x]
  /\ \A q \in A : lv[c] <= lv[q] /\ lo[c] < lo[q] /\ q # x => lo[x] < lo[q]
  /\ \A p \in DOMAIN ps : ~ ps[p].leaf =>
       \A i \in DOMAIN ps[p].ents : ps[p].ents[i].child # x

\* The way to key k leads through page c.
Arrives(A, lo, lv, c, k) ==
  /\ c \in A /\ k \in Nat /\ lo[c] <= k
  /\ \A q \in A : lv[c] <= lv[q] /\ lo[c] < lo[q] => k < lo[q]

\* Every key is a number.
LEMMA KeysNat ==
  ASSUME NEW ps \in Seq(AnyPage)
  PROVE  \A p \in DOMAIN ps : \A i \in DOMAIN ps[p].ents : ps[p].ents[i].key \in Nat
<1> SUFFICES ASSUME NEW p \in DOMAIN ps, NEW i \in DOMAIN ps[p].ents
             PROVE  ps[p].ents[i].key \in Nat
  OBVIOUS
<1> DEFINE s == ps[p].ents
           S == EntryOf(ps[p].leaf)
<1>1. s \in Seq(S) /\ i \in DOMAIN s
  BY EntsFacts
<1>2. \A x \in S : x.key \in Strings
  BY KeyOfEntry
<1> HIDE DEF s, S
<1>3. s[i] \in S
  BY <1>1
<1>4. s[i].key \in Nat
  BY <1>2, <1>3, StringsAssumption
<1> QED
  BY <1>4 DEF s

\* A change to the entries of a leaf, within what the leaf may hold.
LEMMA ShapeSetLeaf ==
  ASSUME NEW ps, NEW new, NEW A, NEW lo, NEW lv, NEW p \in A, NEW s,
         Shape(ps, A, lo, lv), Changed(ps, new, p, s), ps[p].leaf,
         Ascending(s),
         \A i \in DOMAIN s : /\ lo[p] <= s[i].key
                             /\ \A q \in A : lo[p] < lo[q] => s[i].key < lo[q]
  PROVE  /\ Shape(new, A, lo, lv)
         /\ \A x : Attached(ps, A, x) => Attached(new, A, x)
<1>0. /\ DOMAIN new = DOMAIN ps /\ A \subseteq DOMAIN ps
      /\ \A q \in DOMAIN ps : new[q].leaf = ps[q].leaf
      /\ new[p].ents = s
      /\ \A q \in DOMAIN ps : q # p => new[q].ents = ps[q].ents
  BY DEF Changed, Shape, Measured
<1>1. Measured(new, A, lo, lv)
  BY <1>0 DEF Shape, Measured
<1>2. Ordered(new)
  BY <1>0 DEF Shape, Ordered
<1>3. FirstKeys(new, A, lo)
  BY <1>0 DEF Shape, FirstKeys
<1>4. Hanging(new, A, lo, lv)
  BY <1>0 DEF Shape, Hanging
<1>5. Below(new, A, lo, lv)
  BY <1>0 DEF Shape, Below
<1>6. Apart(A, lo, lv)
  BY DEF Shape
<1>7. Detached(new, A)
  <2> SUFFICES ASSUME NEW q \in DOMAIN ps \ A, ~ ps[q].leaf, NEW i \in DOMAIN ps[q].ents
               PROVE  ps[q].ents[i].child \in DOMAIN ps \ A /\ InRange(new, q, i)
    BY <1>0 DEF Detached
  <2>1. ps[q].ents[i].child \in DOMAIN ps \ A /\ InRange(ps, q, i)
    BY DEF Shape, Detached
  <2>2. /\ new[q].ents = ps[q].ents
        /\ new[ps[q].ents[i].child].ents = ps[ps[q].ents[i].child].ents
        /\ new[ps[q].ents[i].child].leaf = ps[ps[q].ents[i].child].leaf
    BY <1>0, <2>1
  <2> QED
    BY <2>1, <2>2 DEF InRange
<1>8. ASSUME NEW x, Attached(ps, A, x) PROVE Attached(new, A, x)
  BY <1>0, <1>8 DEF Attached
<1> QED
  BY <1>1, <1>2, <1>3, <1>4, <1>5, <1>6, <1>7, <1>8 DEF Shape

\* A separator of page p refers to page c.
RefersTo(ps, p, c) == \E i \in DOMAIN ps[p].ents : ps[p].ents[i].child = c

\* s has the entries of ents and e, and no others.
OneMoreIn(s, ents, e) ==
  /\ From(s, ents, e)
  /\ \A i \in DOMAIN ents : \E j \in DOMAIN s : s[j] = ents[i]
  /\ \E j \in DOMAIN s : s[j] = e

\* The keys of page c are below k, those of page x are not; only between
\* leaves may k be less than the least key x may hold.
Separates(ps, lo, k, c, x) ==
  /\ lo[c] < k /\ k <= lo[x]
  /\ \A i \in DOMAIN ps[c].ents : ps[c].ents[i].key < k
  /\ ps[c].leaf \/ k = lo[x]

\* lo2 is lo but for page x, whose keys begin at k.
MovedTo(A, lo, lo2, x, k) == lo2[x] = k /\ \A q \in A : q # x => lo2[q] = lo[q]

\* A separator for the page beside c, placed where c hangs from.
LEMMA ShapePlace ==
  ASSUME NEW ps \in Seq(AnyPage), NEW new, NEW A, NEW lo, NEW lv, NEW p \in A, NEW s,
         NEW c, NEW x, NEW e,
         Shape(ps, A, lo, lv), Changed(ps, new, p, s), ~ ps[p].leaf,
         RefersTo(ps, p, c), Attached(ps, A, x), Beside(ps, A, lo, lv, c, x),
         Ascending(s), OneMoreIn(s, ps[p].ents, e),
         NEW k \in Nat, e.key = k, e.child = x, Separates(ps, lo, k, c, x),
         NEW lo2, MovedTo(A, lo, lo2, x, k)
  PROVE  Shape(new, A, lo2, lv) /\ Attached(new, A, P_INVALID)
<1>g. /\ \E i \in DOMAIN ps[p].ents : ps[p].ents[i].child = c
      /\ From(s, ps[p].ents, e)
      /\ \A i \in DOMAIN ps[p].ents : \E j \in DOMAIN s : s[j] = ps[p].ents[i]
      /\ \E j \in DOMAIN s : s[j] = e
      /\ lo[c] < k /\ k <= lo[x]
      /\ \A i \in DOMAIN ps[c].ents : ps[c].ents[i].key < k
      /\ ps[c].leaf \/ k = lo[x]
  BY DEF RefersTo, OneMoreIn, Separates
<1> USE <1>g
<1>h. lo2[x] = k /\ \A q \in A : q # x => lo2[q] = lo[q]
  BY DEF MovedTo
<1> USE <1>h
<1>0. /\ DOMAIN new = DOMAIN ps /\ A \subseteq DOMAIN ps
      /\ \A q \in DOMAIN ps : new[q].leaf = ps[q].leaf
      /\ new[p].ents = s
      /\ \A q \in DOMAIN ps : q # p => new[q].ents = ps[q].ents
  BY DEF Changed, Shape, Measured
<1>1. /\ \A q \in A : q # x => lo2[q] = lo[q]
      /\ lo2[x] = k /\ x \in A /\ c \in A
  BY DEF Beside
<1>2. k \in Nat /\ lo[c] < k /\ k <= lo[x]
      /\ \A i \in DOMAIN ps[c].ents : ps[c].ents[i].key < k
      /\ (ps[c].leaf \/ k = lo[x]) /\ e.child = x /\ e.key = k
  OBVIOUS
<1>3. \A q \in A : lo[q] \in Nat /\ lv[q] \in Nat /\ lo2[q] \in Nat
  BY <1>1, <1>2 DEF Shape, Measured
<1>n. \A q \in DOMAIN ps : \A i \in DOMAIN ps[q].ents : ps[q].ents[i].key \in Nat
  BY KeysNat
<1>4. PICK n \in DOMAIN ps[p].ents : ps[p].ents[n].child = c
  OBVIOUS
<1>5. lv[c] + 1 = lv[p] /\ lo[c] = ps[p].ents[n].key /\ lo[p] <= lo[c]
  BY <1>4 DEF Shape, Hanging, FirstKeys
<1>6. lv[x] = lv[c] /\ x # p /\ x # P_ROOT /\ x # c
      /\ (ps[x].leaf <=> ps[c].leaf)
  <2>1. lv[x] = lv[c] /\ lo[c] < lo[x] /\ lv[p] <= lv[P_ROOT] /\ P_ROOT \in A
    BY DEF Beside, Shape, Measured
  <2>2. (ps[x].leaf <=> lv[x] = 0) /\ (ps[c].leaf <=> lv[c] = 0)
    BY <1>1 DEF Shape, Measured
  <2> QED
    BY <1>1, <1>3, <1>5, <2>1, <2>2
<1>7. \A q \in A : lv[c] <= lv[q] /\ lo[c] < lo[q] /\ q # x => lo[x] < lo[q]
  BY DEF Beside
<1>8. Measured(new, A, lo2, lv)
  BY <1>0, <1>1, <1>3, <1>6 DEF Shape, Measured
<1>9. Ordered(new)
  BY <1>0 DEF Shape, Ordered
<1>10. \A i \in DOMAIN s : s[i] = e \/ \E j \in DOMAIN ps[p].ents : s[i] = ps[p].ents[j]
  BY DEF From
<1>11. FirstKeys(new, A, lo2)
  <2> SUFFICES ASSUME NEW q \in A
               PROVE  /\ \A i \in DOMAIN new[q].ents : lo2[q] <= new[q].ents[i].key
                      /\ ~ new[q].leaf =>
                           \E i \in DOMAIN new[q].ents : new[q].ents[i].key = lo2[q]
    BY DEF FirstKeys
  <2>1. /\ \A i \in DOMAIN ps[q].ents : lo[q] <= ps[q].ents[i].key
        /\ ~ ps[q].leaf => \E i \in DOMAIN ps[q].ents : ps[q].ents[i].key = lo[q]
    BY DEF Shape, FirstKeys
  <2>2. CASE q = p
    <3>1. lo2[p] = lo[p] /\ lo[p] <= k
      BY <1>1, <1>2, <1>3, <1>5, <1>6
    <3>2. \A i \in DOMAIN s : lo[p] <= s[i].key
      <4>1. \A j \in DOMAIN ps[p].ents : lo[p] <= ps[p].ents[j].key
        BY <2>1, <2>2
      <4>2. lo[p] <= e.key
        BY <1>2, <1>3, <3>1
      <4> QED
        BY <1>10, <4>1, <4>2
    <3>3. \E i \in DOMAIN s : s[i].key = lo[p]
      <4>1. PICK i \in DOMAIN ps[p].ents : ps[p].ents[i].key = lo[p]
        BY <2>1, <2>2
      <4>2. PICK j \in DOMAIN s : s[j] = ps[p].ents[i]
        BY <4>1
      <4> QED
        BY <4>1, <4>2
    <3>4. lo2[q] = lo[p] /\ new[q].ents = s
      BY <1>0, <2>2, <3>1
    <3> QED
      BY <3>2, <3>3, <3>4
  <2>3. CASE q = x
    <3>1. new[x].ents = ps[x].ents /\ new[x].leaf = ps[x].leaf
      BY <1>0, <1>1, <1>6
    <3>2. \A i \in DOMAIN ps[x].ents : k <= ps[x].ents[i].key
      BY <1>0, <1>1, <1>2, <1>3, <1>n, <2>1, <2>3
    <3> QED
      BY <1>1, <1>2, <1>6, <2>1, <2>3, <3>1, <3>2
  <2>4. CASE q # p /\ q # x
    BY <1>0, <1>1, <2>1, <2>4
  <2> QED
    BY <2>2, <2>3, <2>4
<1>12. Hanging(new, A, lo2, lv)
  <2> SUFFICES ASSUME NEW q \in A, ~ ps[q].leaf, NEW i \in DOMAIN new[q].ents
               PROVE  /\ new[q].ents[i].child \in A
                      /\ lv[new[q].ents[i].child] + 1 = lv[q]
                      /\ lo2[new[q].ents[i].child] = new[q].ents[i].key
    BY <1>0 DEF Hanging
  <2>1. \A j \in DOMAIN ps[q].ents :
          /\ ps[q].ents[j].child \in A /\ ps[q].ents[j].child # x
          /\ lv[ps[q].ents[j].child] + 1 = lv[q]
          /\ lo[ps[q].ents[j].child] = ps[q].ents[j].key
    BY <1>0 DEF Shape, Hanging, Beside
  <2>2. \/ \E j \in DOMAIN ps[q].ents : new[q].ents[i] = ps[q].ents[j]
        \/ q = p /\ new[q].ents[i] = e
    BY <1>0, <1>10
  <2>3. CASE \E j \in DOMAIN ps[q].ents : new[q].ents[i] = ps[q].ents[j]
    <3>1. PICK j \in DOMAIN ps[q].ents : new[q].ents[i] = ps[q].ents[j]
      BY <2>3
    <3> DEFINE d == ps[q].ents[j].child
    <3>2. /\ d \in A /\ d # x /\ lv[d] + 1 = lv[q] /\ lo[d] = ps[q].ents[j].key
          /\ new[q].ents[i].child = d /\ new[q].ents[i].key = ps[q].ents[j].key
      BY <2>1, <3>1
    <3> HIDE DEF d
    <3>3. lo2[d] = lo[d]
      BY <1>1, <3>2
    <3> QED
      BY <3>2, <3>3
  <2>4. CASE q = p /\ new[q].ents[i] = e
    BY <1>1, <1>2, <1>5, <1>6, <2>4
  <2> QED
    BY <2>2, <2>3, <2>4
<1>13. Below(new, A, lo2, lv)
  <2> SUFFICES ASSUME NEW q1 \in A, NEW q2 \in A, lv[q1] <= lv[q2], lo2[q1] < lo2[q2],
                      NEW i \in DOMAIN new[q1].ents
               PROVE  new[q1].ents[i].key < lo2[q2]
    BY DEF Below
  <2>1. \A q, r \in A : lv[q] <= lv[r] /\ lo[q] < lo[r] =>
          \A j \in DOMAIN ps[q].ents : ps[q].ents[j].key < lo[r]
    BY DEF Shape, Below
  <2>2. CASE q1 = p
    <3>1. q2 # x /\ lo2[p] = lo[p] /\ lo2[q2] = lo[q2]
      BY <1>1, <1>3, <1>5, <1>6, <2>2
    <3>2. \A j \in DOMAIN ps[p].ents : ps[p].ents[j].key < lo[q2]
      BY <2>1, <2>2, <3>1
    <3>3. k < lo[q2]
      <4>1. lo[c] < lo[q2]
        BY <1>4, <1>5, <3>2
      <4>2. lv[c] <= lv[q2]
        BY <1>1, <1>3, <1>5, <2>2
      <4>3. lo[x] < lo[q2]
        BY <1>7, <3>1, <4>1, <4>2
      <4> QED
        BY <1>1, <1>2, <1>3, <4>3
    <3>4. new[q1].ents = s /\ i \in DOMAIN s /\ e.key < lo[q2]
      BY <1>0, <1>2, <1>3, <2>2, <3>3
    <3>5. s[i].key < lo[q2]
      BY <1>10, <3>2, <3>4
    <3> QED
      BY <3>1, <3>4, <3>5
  <2>k. q1 # p => new[q1].ents = ps[q1].ents
    BY <1>0
  <2>3. CASE q1 # p /\ k = lo[x]
    <3>1. \A q \in A : lo2[q] = lo[q]
      BY <1>1, <2>3
    <3> QED
      BY <2>1, <2>3, <2>k, <3>1
  <2>4. CASE q1 # p /\ ps[c].leaf /\ q1 = x
    <3>1. q2 # x /\ lo2[q2] = lo[q2] /\ k < lo[q2]
      BY <1>1, <1>3, <2>4
    <3>2. lo[x] < lo[q2]
      BY <1>1, <1>2, <1>3, <1>6, <1>7, <2>4, <3>1
    <3> QED
      BY <1>0, <1>6, <2>1, <2>4, <3>1, <3>2
  <2>5. CASE q1 # p /\ ps[c].leaf /\ q1 # x /\ q2 = x
    <3>1. lv[c] = 0 /\ lv[q1] = 0
      <4>1. lv[c] = 0
        BY <1>0, <1>1, <2>5 DEF Shape, Measured
      <4> QED
        BY <1>3, <1>6, <2>5, <4>1
    <3>2. lo[q1] < k
      BY <1>1, <2>5
    <3>3. CASE lo[q1] < lo[c]
      <4>1. \A j \in DOMAIN ps[q1].ents : ps[q1].ents[j].key < lo[c]
        BY <1>1, <2>1, <3>1, <3>3
      <4>2. new[q1].ents = ps[q1].ents /\ q1 \in DOMAIN ps /\ lo2[q2] = k
        BY <1>0, <1>1, <2>5, <2>k
      <4>3. ps[q1].ents[i].key < lo[c] /\ ps[q1].ents[i].key \in Nat
        BY <1>n, <4>1, <4>2
      <4> QED
        BY <1>1, <1>2, <1>3, <4>2, <4>3
    <3>4. CASE lo[q1] = lo[c]
      <4>1. q1 = c
        BY <1>1, <3>1, <3>4 DEF Shape, Apart
      <4> QED
        BY <1>0, <1>1, <1>2, <2>5, <4>1
    <3>5. CASE lo[c] < lo[q1]
      BY <1>1, <1>2, <1>3, <1>7, <2>5, <3>1, <3>2, <3>5
    <3> QED
      BY <1>1, <1>3, <3>3, <3>4, <3>5
  <2>6. CASE q1 # p /\ q1 # x /\ q2 # x
    <3>1. lo2[q1] = lo[q1] /\ lo2[q2] = lo[q2]
      BY <1>1, <2>6
    <3> QED
      BY <2>1, <2>6, <2>k, <3>1
  <2> QED
    BY <1>2, <2>2, <2>3, <2>4, <2>5, <2>6
<1>14. Apart(A, lo2, lv)
  <2> SUFFICES ASSUME NEW q1 \in A, NEW q2 \in A, lv[q1] = lv[q2], lo2[q1] = lo2[q2]
               PROVE  q1 = q2
    BY DEF Apart
  <2>1. \A q \in A : lv[q] = lv[x] /\ lo2[q] = k => q = x
    <3> SUFFICES ASSUME NEW q \in A, lv[q] = lv[x], lo2[q] = k, q # x PROVE FALSE
      OBVIOUS
    <3>1. lo[q] = k
      BY <1>1
    <3>2. lv[c] <= lv[q] /\ lo[c] < lo[q]
      BY <1>1, <1>2, <1>3, <1>6, <3>1
    <3>3. lo[x] < lo[q]
      BY <1>7, <3>2
    <3> QED
      BY <1>1, <1>2, <1>3, <3>1, <3>3
  <2>2. CASE q1 = x \/ q2 = x
    BY <1>1, <2>1, <2>2
  <2>3. CASE q1 # x /\ q2 # x
    BY <1>1, <2>3 DEF Shape, Apart
  <2> QED
    BY <2>2, <2>3
<1>15. Detached(new, A)
  <2> SUFFICES ASSUME NEW q \in DOMAIN ps \ A, ~ ps[q].leaf, NEW i \in DOMAIN ps[q].ents
               PROVE  ps[q].ents[i].child \in DOMAIN ps \ A /\ InRange(new, q, i)
    BY <1>0 DEF Detached
  <2>1. ps[q].ents[i].child \in DOMAIN ps \ A /\ InRange(ps, q, i)
    BY DEF Shape, Detached
  <2>2. /\ new[q].ents = ps[q].ents
        /\ new[ps[q].ents[i].child].ents = ps[ps[q].ents[i].child].ents
        /\ new[ps[q].ents[i].child].leaf = ps[ps[q].ents[i].child].leaf
    BY <1>0, <2>1
  <2> QED
    BY <2>1, <2>2 DEF InRange
<1>16. Attached(new, A, P_INVALID)
  <2> SUFFICES ASSUME NEW q \in A \ {P_ROOT}
               PROVE  \E r \in A : ~ new[r].leaf /\
                        \E i \in DOMAIN new[r].ents : new[r].ents[i].child = q
    BY DEF Attached
  <2>1. CASE q = x
    <3>1. \E i \in DOMAIN new[p].ents : new[p].ents[i].child = x
      BY <1>0, <1>2
    <3> QED
      BY <1>0, <2>1, <3>1
  <2>2. CASE q # x
    <3>1. PICK r \in A : ~ ps[r].leaf /\
            \E i \in DOMAIN ps[r].ents : ps[r].ents[i].child = q
      BY <2>2 DEF Attached
    <3>2. \E i \in DOMAIN new[r].ents : new[r].ents[i].child = q
      BY <1>0, <3>1
    <3> QED
      BY <1>0, <3>1, <3>2
  <2> QED
    BY <2>1, <2>2
<1> QED
  BY <1>8, <1>9, <1>11, <1>12, <1>13, <1>14, <1>15, <1>16 DEF Shape

\* l and r divide the entries s at a key, neither of them empty.
Cut(s, l, r) ==
  /\ Ascending(l) /\ Ascending(r)
  /\ DOMAIN l # {} /\ 1 \in DOMAIN r
  /\ \A i \in DOMAIN l : \E j \in DOMAIN s : l[i] = s[j]
  /\ \A i \in DOMAIN r : \E j \in DOMAIN s : r[i] = s[j]
  /\ \A j \in DOMAIN s : \/ \E i \in DOMAIN l : l[i] = s[j]
                         \/ \E i \in DOMAIN r : r[i] = s[j]
  /\ \A i \in DOMAIN l : \A j \in DOMAIN r : l[i].key < r[j].key
  /\ \A j \in DOMAIN r : r[1].key <= r[j].key

\* The parts of an ascending sequence are cut at a key.
LEMMA CutFacts ==
  ASSUME NEW S, \A x \in S : x.key \in Nat,
         NEW s \in Seq(S), NEW l \in Seq(S), NEW r \in Seq(S),
         Parts(s, l, r), l # <<>>, r # <<>>, Ascending(s)
  PROVE  Cut(s, l, r)
<1> DEFINE n == Len(l)
           m == Len(r)
<1>1. /\ n \in Nat /\ m \in Nat /\ n # 0 /\ m # 0
      /\ DOMAIN l = 1 .. n /\ DOMAIN r = 1 .. m /\ DOMAIN s = 1 .. n + m
      /\ \A i \in 1 .. n : l[i] = s[i]
      /\ \A i \in 1 .. m : r[i] = s[n + i]
  BY SeqFacts DEF Parts
<1>0. /\ \A i \in DOMAIN r : r[i].key \in Nat
  BY SeqFacts
<1> HIDE DEF n, m
<1>2. \A i \in 1 .. n : i \in DOMAIN s
  BY <1>1
<1>3. \A i \in 1 .. m : n + i \in DOMAIN s
  BY <1>1
<1>4. Ascending(l)
  BY <1>1, <1>2 DEF Ascending
<1>5. \A i, j \in 1 .. m : i < j => r[i].key < r[j].key
  <2> SUFFICES ASSUME NEW i \in 1 .. m, NEW j \in 1 .. m, i < j PROVE r[i].key < r[j].key
    OBVIOUS
  <2> DEFINE a == n + i
             b == n + j
  <2>1. a < b /\ a \in DOMAIN s /\ b \in DOMAIN s /\ r[i] = s[a] /\ r[j] = s[b]
    BY <1>1, <1>3
  <2> HIDE DEF a, b
  <2> QED
    BY <2>1 DEF Ascending
<1>6. \A i \in 1 .. n : \A j \in 1 .. m : l[i].key < r[j].key
  <2> SUFFICES ASSUME NEW i \in 1 .. n, NEW j \in 1 .. m PROVE l[i].key < r[j].key
    OBVIOUS
  <2> DEFINE b == n + j
  <2>1. i < b /\ i \in DOMAIN s /\ b \in DOMAIN s /\ l[i] = s[i] /\ r[j] = s[b]
    BY <1>1, <1>3
  <2> HIDE DEF b
  <2> QED
    BY <2>1 DEF Ascending
<1>7. ASSUME NEW j \in DOMAIN s
      PROVE  \/ \E i \in DOMAIN l : l[i] = s[j]
             \/ \E i \in DOMAIN r : r[i] = s[j]
  <2>1. CASE j <= n
    BY <1>1, <2>1
  <2>2. CASE ~ (j <= n)
    <3> DEFINE i == j - n
    <3>1. i \in 1 .. m /\ n + i = j
      BY <1>1, <2>2
    <3> HIDE DEF i
    <3>2. r[i] = s[j]
      BY <1>1, <3>1
    <3> QED
      BY <1>1, <3>1, <3>2
  <2> QED
    BY <2>1, <2>2
<1>8. \A i \in DOMAIN r : \E j \in DOMAIN s : r[i] = s[j]
  <2> SUFFICES ASSUME NEW i \in 1 .. m PROVE \E j \in DOMAIN s : r[i] = s[j]
    BY <1>1
  <2> QED
    BY <1>1, <1>3
<1>9. \A j \in DOMAIN r : r[1].key <= r[j].key
  <2> SUFFICES ASSUME NEW j \in DOMAIN r PROVE r[1].key <= r[j].key
    OBVIOUS
  <2>1. 1 \in 1 .. m /\ (j = 1 \/ 1 < j) /\ r[1].key \in Nat /\ r[j].key \in Nat
    BY <1>0, <1>1
  <2>2. CASE j = 1
    BY <2>1, <2>2
  <2>3. CASE 1 < j
    BY <1>1, <1>5, <2>1, <2>3
  <2> QED
    BY <2>1, <2>2, <2>3
<1>10. /\ DOMAIN l # {} /\ 1 \in DOMAIN r
  <2>1. \A a \in Nat : a # 0 => 1 \in 1 .. a
    OBVIOUS
  <2>2. 1 \in DOMAIN l /\ 1 \in DOMAIN r
    BY <1>1, <2>1
  <2> QED
    BY <2>2
<1>11. Ascending(r)
  BY <1>1, <1>5 DEF Ascending
<1>12. \A i \in DOMAIN l : \E j \in DOMAIN s : l[i] = s[j]
  BY <1>1, <1>2
<1> QED
  BY <1>1, <1>4, <1>6, <1>7, <1>8, <1>9, <1>10, <1>11, <1>12 DEF Cut

\* What a cut says of a page and the page that gets its right part.
LEMMA CutBounds ==
  ASSUME NEW ps \in Seq(AnyPage), NEW A, NEW lo, NEW lv, Shape(ps, A, lo, lv),
         NEW p \in A, NEW l, NEW r, Cut(ps[p].ents, l, r)
  PROVE  /\ r[1].key \in Nat /\ lo[p] < r[1].key
         /\ \E j \in DOMAIN ps[p].ents : ps[p].ents[j] = r[1]
         /\ \A i \in DOMAIN l : lo[p] <= l[i].key
         /\ ~ ps[p].leaf => \E i \in DOMAIN l : l[i].key = lo[p]
         /\ \A q \in A : lv[p] <= lv[q] /\ lo[p] < lo[q] =>
              /\ \A i \in DOMAIN l : l[i].key < lo[q]
              /\ \A i \in DOMAIN r : r[i].key < lo[q]
         /\ \A q \in A \ {p} : lv[q] <= lv[p] /\ lo[q] < r[1].key =>
              \A i \in DOMAIN ps[q].ents : ps[q].ents[i].key < r[1].key
<1> DEFINE s == ps[p].ents
           k == r[1].key
<1>1. /\ p \in DOMAIN ps
      /\ \A q \in A : lo[q] \in Nat /\ lv[q] \in Nat
  BY DEF Shape, Measured
<1>2. \A q \in DOMAIN ps : \A i \in DOMAIN ps[q].ents : ps[q].ents[i].key \in Nat
  BY KeysNat
<1>3. /\ \A i \in DOMAIN s : lo[p] <= s[i].key /\ s[i].key \in Nat
      /\ ~ ps[p].leaf => \E i \in DOMAIN s : s[i].key = lo[p]
  BY <1>1, <1>2 DEF Shape, FirstKeys
<1>4. \A q, t \in A : lv[q] <= lv[t] /\ lo[q] < lo[t] =>
          \A j \in DOMAIN ps[q].ents : ps[q].ents[j].key < lo[t]
  BY DEF Shape, Below
<1>5. \A q \in A : lv[p] <= lv[q] /\ lo[p] < lo[q] => \A j \in DOMAIN s : s[j].key < lo[q]
  BY <1>4
<1>6. /\ DOMAIN l # {} /\ 1 \in DOMAIN r
      /\ \A i \in DOMAIN l : \E j \in DOMAIN s : l[i] = s[j]
      /\ \A i \in DOMAIN r : \E j \in DOMAIN s : r[i] = s[j]
      /\ \A j \in DOMAIN s : \/ \E i \in DOMAIN l : l[i] = s[j]
                             \/ \E i \in DOMAIN r : r[i] = s[j]
      /\ \A i \in DOMAIN l : l[i].key < k
      /\ \A i \in DOMAIN l : \A j \in DOMAIN r : l[i].key < r[j].key
      /\ \A j \in DOMAIN r : k <= r[j].key
  BY DEF Cut
<1>7. PICK t \in DOMAIN s : s[t] = r[1]
  BY <1>6
<1>8. k \in Nat /\ s[t].key = k
  BY <1>3, <1>7
<1> HIDE DEF k
<1>9. \A i \in DOMAIN l : lo[p] <= l[i].key /\ l[i].key \in Nat
  BY <1>3, <1>6
<1>10. lo[p] < k
  <2>1. PICK i \in DOMAIN l : TRUE
    BY <1>6
  <2> QED
    BY <1>1, <1>6, <1>8, <1>9, <2>1
<1>11. ASSUME ~ ps[p].leaf PROVE \E i \in DOMAIN l : l[i].key = lo[p]
  <2>1. PICK j \in DOMAIN s : s[j].key = lo[p]
    BY <1>3, <1>11
  <2>2. CASE \E i \in DOMAIN l : l[i] = s[j]
    BY <2>1, <2>2
  <2>3. CASE \E i \in DOMAIN r : r[i] = s[j]
    <3>1. PICK i \in DOMAIN r : r[i] = s[j]
      BY <2>3
    <3>2. k <= lo[p]
      BY <1>6, <2>1, <3>1
    <3> QED
      BY <1>1, <1>8, <1>10, <3>2
  <2> QED
    BY <1>6, <2>2, <2>3
<1>12. ASSUME NEW q \in A, lv[p] <= lv[q], lo[p] < lo[q]
       PROVE  /\ \A i \in DOMAIN l : l[i].key < lo[q]
              /\ \A i \in DOMAIN r : r[i].key < lo[q]
              /\ k < lo[q]
  <2>1. \A j \in DOMAIN s : s[j].key < lo[q]
    BY <1>5, <1>12
  <2>2. \A i \in DOMAIN l : l[i].key < lo[q]
    BY <1>6, <2>1
  <2>3. \A i \in DOMAIN r : r[i].key < lo[q]
    BY <1>6, <2>1
  <2> QED
    BY <1>8, <2>1, <2>2, <2>3
<1>14. ASSUME NEW q \in A \ {p}, lv[q] <= lv[p], lo[q] < k,
              NEW i \in DOMAIN ps[q].ents
       PROVE  ps[q].ents[i].key < k
  <2>0. q \in DOMAIN ps
    BY DEF Shape, Measured
  <2>1. CASE lo[q] < lo[p]
    <3>1. ps[q].ents[i].key < lo[p]
      BY <1>4, <1>14, <2>1
    <3> QED
      BY <1>1, <1>2, <1>8, <1>10, <2>0, <3>1
  <2>2. CASE ~ (lo[q] < lo[p]) /\ lv[q] = lv[p]
    <3>1. lo[q] # lo[p]
      BY <1>14, <2>2 DEF Shape, Apart
    <3>2. lo[p] < lo[q] /\ lv[p] <= lv[q]
      BY <1>1, <2>2, <3>1
    <3>3. k < lo[q]
      BY <1>12, <3>2
    <3> QED
      BY <1>1, <1>8, <1>14, <3>3
  <2>3. CASE lv[q] # lv[p]
    <3> DEFINE c == s[t].child
    <3>1. lv[p] # 0
      BY <1>1, <1>14, <2>3
    <3>2. ~ ps[p].leaf
      BY <3>1 DEF Shape, Measured
    <3>3. c \in A /\ lv[c] + 1 = lv[p] /\ lo[c] = k
      BY <1>8, <3>2 DEF Shape, Hanging
    <3> HIDE DEF c
    <3>4. lv[q] <= lv[c] /\ lo[q] < lo[c]
      BY <1>1, <1>14, <2>3, <3>3
    <3> QED
      BY <1>4, <3>3, <3>4
  <2> QED
    BY <2>1, <2>2, <2>3
<1> QED
  BY <1>7, <1>8, <1>9, <1>10, <1>11, <1>12, <1>14 DEF k

\* lo2 and lv2 are lo and lv with a page f, for the entries r, next to p.
NextTo(A, lo, lv, lo2, lv2, p, f, r) ==
  /\ \A q \in A : lo2[q] = lo[q] /\ lv2[q] = lv[q]
  /\ lo2[f] = r[1].key /\ lv2[f] = lv[p]

\* A page below the root that is cut in two.
LEMMA ShapeDivide ==
  ASSUME NEW ps \in Seq(AnyPage), NEW new, NEW A, NEW lo, NEW lv, Shape(ps, A, lo, lv),
         NEW p \in A, p # P_ROOT, NEW l, NEW r, Cut(ps[p].ents, l, r),
         Divided(ps, new, p, l, r), Attached(ps, A, P_INVALID),
         NEW f, f = Fresh(ps), NEW B, B = A \cup {f}, NEW lo2, NEW lv2,
         NextTo(A, lo, lv, lo2, lv2, p, f, r)
  PROVE  Shape(new, B, lo2, lv2) /\ Attached(new, B, f) /\ Beside(new, B, lo2, lv2, p, f)
<1>h. /\ \A q \in A : lo2[q] = lo[q] /\ lv2[q] = lv[q]
      /\ lo2[f] = r[1].key /\ lv2[f] = lv[p]
  BY DEF NextTo
<1> USE <1>h
<1> DEFINE s == ps[p].ents
<1>0. /\ DOMAIN new = DOMAIN ps \cup {f} /\ f \notin DOMAIN ps
      /\ A \subseteq DOMAIN ps /\ f \notin A /\ P_ROOT \in A /\ f # P_ROOT
      /\ \A q \in DOMAIN ps : new[q].leaf = ps[q].leaf
      /\ new[p].ents = l /\ new[f].ents = r /\ new[f].leaf = ps[p].leaf
      /\ \A q \in DOMAIN ps : q # p => new[q].ents = ps[q].ents
  BY DEF Divided, Shape, Measured
<1>1. \A q \in A : lo[q] \in Nat /\ lv[q] \in Nat
  BY DEF Shape, Measured
<1>2. PICK k \in Nat : k = r[1].key
  BY CutBounds
<1>3. /\ lo[p] < k
      /\ \E j \in DOMAIN s : s[j] = r[1]
      /\ \A i \in DOMAIN l : lo[p] <= l[i].key
      /\ ~ ps[p].leaf => \E i \in DOMAIN l : l[i].key = lo[p]
  <2>1. lo[p] < r[1].key
    BY CutBounds
  <2>2. /\ \E j \in DOMAIN s : s[j] = r[1]
        /\ \A i \in DOMAIN l : lo[p] <= l[i].key
        /\ ~ ps[p].leaf => \E i \in DOMAIN l : l[i].key = lo[p]
    BY CutBounds
  <2> QED
    BY <1>2, <2>1, <2>2
<1>4. \A q \in A : lv[p] <= lv[q] /\ lo[p] < lo[q] =>
         /\ \A i \in DOMAIN l : l[i].key < lo[q]
         /\ \A i \in DOMAIN r : r[i].key < lo[q]
         /\ k < lo[q]
  <2>1. 1 \in DOMAIN r
    BY DEF Cut
  <2> QED
    BY <1>2, <2>1, CutBounds
<1>5. \A q \in A : lv[q] = lv[p] => lo[q] # k
  BY <1>1, <1>3, <1>4
<1>6. \A q \in A \ {p} : lv[q] <= lv[p] /\ lo[q] < k =>
         \A i \in DOMAIN ps[q].ents : ps[q].ents[i].key < k
  BY <1>2, CutBounds
<1>7. /\ Ascending(l) /\ Ascending(r) /\ 1 \in DOMAIN r
      /\ \A i \in DOMAIN l : \E j \in DOMAIN s : l[i] = s[j]
      /\ \A i \in DOMAIN r : \E j \in DOMAIN s : r[i] = s[j]
      /\ \A j \in DOMAIN s : \/ \E i \in DOMAIN l : l[i] = s[j]
                             \/ \E i \in DOMAIN r : r[i] = s[j]
      /\ \A i \in DOMAIN l : l[i].key < k
      /\ \A j \in DOMAIN r : k <= r[j].key
  BY <1>2 DEF Cut
<1>8. \A q \in B : q = f \/ q \in A
  OBVIOUS
<1>9. lo2[f] = k /\ lv2[f] = lv[p]
  BY <1>2
<1>10. Measured(new, B, lo2, lv2)
  <2>1. \A q \in A : lv[q] <= lv[P_ROOT] /\ (ps[q].leaf <=> lv[q] = 0) /\ lo[P_ROOT] = 0
    BY DEF Shape, Measured
  <2>2. \A q \in B : lo2[q] \in Nat /\ lv2[q] \in Nat
    BY <1>1, <1>8, <1>9
  <2>3. lo2[P_ROOT] = 0 /\ lv2[P_ROOT] = lv[P_ROOT]
    BY <1>0, <2>1
  <2>4. \A q \in A : /\ lv2[q] <= lv2[P_ROOT] /\ new[q].leaf = ps[q].leaf
                    /\ lv2[q] = lv[q]
    BY <1>0, <2>1, <2>3
  <2>5. lv2[f] <= lv2[P_ROOT] /\ (new[f].leaf <=> lv2[f] = 0)
    BY <1>0, <1>9, <2>1, <2>3
  <2>6. \A q \in A : new[q].leaf <=> lv2[q] = 0
    BY <2>1, <2>4
  <2>7. B \subseteq DOMAIN new /\ P_ROOT \in B
    BY <1>0
  <2> QED
    BY <1>8, <2>2, <2>3, <2>4, <2>5, <2>6, <2>7 DEF Measured
<1>11. Ordered(new)
  BY <1>0, <1>7 DEF Shape, Ordered
<1>12. FirstKeys(new, B, lo2)
  <2>1. ASSUME NEW q \in A
        PROVE  /\ \A i \in DOMAIN ps[q].ents : lo[q] <= ps[q].ents[i].key
               /\ ~ ps[q].leaf => \E i \in DOMAIN ps[q].ents : ps[q].ents[i].key = lo[q]
    BY DEF Shape, FirstKeys
  <2>2. ASSUME NEW q \in A
        PROVE  /\ \A i \in DOMAIN new[q].ents : lo2[q] <= new[q].ents[i].key
               /\ ~ new[q].leaf => \E i \in DOMAIN new[q].ents : new[q].ents[i].key = lo2[q]
    <3>1. CASE q = p
      BY <1>0, <1>3, <3>1
    <3>2. CASE q # p
      BY <1>0, <2>1, <3>2
    <3> QED
      BY <3>1, <3>2
  <2>3. /\ \A i \in DOMAIN new[f].ents : lo2[f] <= new[f].ents[i].key
        /\ \E i \in DOMAIN new[f].ents : new[f].ents[i].key = lo2[f]
    BY <1>0, <1>2, <1>7, <1>9
  <2> QED
    BY <1>8, <2>2, <2>3 DEF FirstKeys
<1>13. \A q \in A : ~ ps[q].leaf => \A i \in DOMAIN ps[q].ents :
         /\ ps[q].ents[i].child \in A
         /\ lv[ps[q].ents[i].child] + 1 = lv[q]
         /\ lo[ps[q].ents[i].child] = ps[q].ents[i].key
  BY DEF Shape, Hanging
<1>14. ASSUME NEW q \in B, NEW i \in DOMAIN new[q].ents
       PROVE  \E t \in A : \E j \in DOMAIN ps[t].ents :
                /\ new[q].ents[i] = ps[t].ents[j] /\ new[q].leaf = ps[t].leaf
                /\ lv2[q] = lv[t] /\ (IF q = f THEN t = p ELSE t = q)
  <2>1. CASE q = f
    BY <1>0, <1>7, <1>9, <2>1
  <2>2. CASE q = p
    BY <1>0, <1>7, <2>2
  <2>3. CASE q # f /\ q # p
    BY <1>0, <1>8, <2>3
  <2> QED
    BY <2>1, <2>2, <2>3
<1>15. Hanging(new, B, lo2, lv2)
  <2> SUFFICES ASSUME NEW q \in B, ~ new[q].leaf, NEW i \in DOMAIN new[q].ents
               PROVE  /\ new[q].ents[i].child \in B
                      /\ lv2[new[q].ents[i].child] + 1 = lv2[q]
                      /\ lo2[new[q].ents[i].child] = new[q].ents[i].key
    BY DEF Hanging
  <2>1. PICK t \in A : \E j \in DOMAIN ps[t].ents :
          /\ new[q].ents[i] = ps[t].ents[j] /\ new[q].leaf = ps[t].leaf
          /\ lv2[q] = lv[t]
    BY <1>14
  <2>4. PICK j \in DOMAIN ps[t].ents :
          /\ new[q].ents[i] = ps[t].ents[j] /\ new[q].leaf = ps[t].leaf
          /\ lv2[q] = lv[t]
    BY <2>1
  <2> DEFINE d == ps[t].ents[j].child
  <2>2. d \in A /\ lv[d] + 1 = lv[t] /\ lo[d] = ps[t].ents[j].key
        /\ new[q].ents[i].child = d /\ new[q].ents[i].key = ps[t].ents[j].key
    BY <1>13, <2>4
  <2> HIDE DEF d
  <2>3. lo2[d] = lo[d] /\ lv2[d] = lv[d]
    BY <2>2
  <2> QED
    BY <2>2, <2>3, <2>4
<1>16. Below(new, B, lo2, lv2)
  <2> SUFFICES ASSUME NEW q \in B, NEW t \in B, lv2[q] <= lv2[t], lo2[q] < lo2[t],
                      NEW i \in DOMAIN new[q].ents
               PROVE  new[q].ents[i].key < lo2[t]
    BY DEF Below
  <2>1. CASE q = f
    <3>1. t \in A /\ lo2[t] = lo[t] /\ lv2[t] = lv[t]
      BY <1>1, <1>8, <1>9, <1>2, <2>1
    <3>2. lv[p] <= lv[t] /\ k < lo[t]
      BY <1>9, <2>1, <3>1
    <3>3. lo[p] < lo[t]
      BY <1>1, <1>3, <3>1, <3>2
    <3> QED
      BY <1>0, <1>4, <2>1, <3>1, <3>2, <3>3
  <2>2. CASE q \in A /\ t = f
    <3>1. lo2[q] = lo[q] /\ lv2[q] = lv[q] /\ lv[q] <= lv[p] /\ lo[q] < k
      BY <1>9, <2>2
    <3>2. CASE q = p
      BY <1>0, <1>7, <1>9, <2>2, <3>2
    <3>3. CASE q # p
      <4>1. new[q].ents = ps[q].ents
        BY <1>0, <2>2, <3>3
      <4> QED
        BY <1>6, <1>9, <2>2, <3>1, <3>3, <4>1
    <3> QED
      BY <3>2, <3>3
  <2>3. CASE q \in A /\ t \in A
    <3>1. lo2[q] = lo[q] /\ lv2[q] = lv[q] /\ lo2[t] = lo[t] /\ lv2[t] = lv[t]
      BY <2>3
    <3>2. CASE q = p
      BY <1>0, <1>4, <2>3, <3>1, <3>2
    <3>3. CASE q # p
      <4>1. new[q].ents = ps[q].ents
        BY <1>0, <2>3, <3>3
      <4> QED
        BY <2>3, <3>1, <4>1 DEF Shape, Below
    <3> QED
      BY <3>2, <3>3
  <2> QED
    BY <1>8, <2>1, <2>2, <2>3
<1>17. Apart(B, lo2, lv2)
  <2> SUFFICES ASSUME NEW q \in B, NEW t \in B, lv2[q] = lv2[t], lo2[q] = lo2[t]
               PROVE  q = t
    BY DEF Apart
  <2>1. CASE q \in A /\ t \in A
    BY <2>1 DEF Shape, Apart
  <2>2. CASE q = f /\ t \in A
    BY <1>5, <1>9, <2>2
  <2>3. CASE q \in A /\ t = f
    BY <1>5, <1>9, <2>3
  <2> QED
    BY <1>8, <2>1, <2>2, <2>3
<1>18. DOMAIN new \ B = DOMAIN ps \ A
  BY <1>0
<1>19. \A q \in DOMAIN ps \ A : ~ ps[q].leaf => \A i \in DOMAIN ps[q].ents :
         ps[q].ents[i].child \in DOMAIN ps \ A /\ InRange(ps, q, i)
  BY DEF Shape, Detached
<1>20. Detached(new, B)
  <2> SUFFICES ASSUME NEW q \in DOMAIN ps \ A, ~ ps[q].leaf, NEW i \in DOMAIN ps[q].ents
               PROVE  ps[q].ents[i].child \in DOMAIN ps \ A /\ InRange(new, q, i)
    BY <1>0, <1>18 DEF Detached
  <2>1. ps[q].ents[i].child \in DOMAIN ps \ A /\ InRange(ps, q, i)
    BY <1>19
  <2>2. /\ new[q].ents = ps[q].ents
        /\ new[ps[q].ents[i].child].ents = ps[ps[q].ents[i].child].ents
        /\ new[ps[q].ents[i].child].leaf = ps[ps[q].ents[i].child].leaf
    BY <1>0, <2>1
  <2> QED
    BY <2>1, <2>2 DEF InRange
<1>21. Attached(new, B, f)
  <2> SUFFICES ASSUME NEW q \in A \ {P_ROOT}
               PROVE  \E t \in B : ~ new[t].leaf /\
                        \E i \in DOMAIN new[t].ents : new[t].ents[i].child = q
    BY <1>8 DEF Attached
  <2>0. q # P_INVALID
    <3>1. q \in DOMAIN ps
      BY <1>0
    <3> QED
      BY <3>1, SeqFacts DEF P_INVALID
  <2>1. PICK t \in A : ~ ps[t].leaf /\
            \E i \in DOMAIN ps[t].ents : ps[t].ents[i].child = q
    BY <2>0 DEF Attached
  <2>2. PICK i \in DOMAIN ps[t].ents : ps[t].ents[i].child = q
    BY <2>1
  <2>3. CASE t = p /\ \E j \in DOMAIN l : l[j] = s[i]
    BY <1>0, <2>1, <2>2, <2>3
  <2>4. CASE t = p /\ \E j \in DOMAIN r : r[j] = s[i]
    BY <1>0, <2>1, <2>2, <2>4
  <2>5. CASE t # p
    BY <1>0, <2>1, <2>2, <2>5
  <2> QED
    BY <1>7, <2>2, <2>3, <2>4, <2>5
<1>22. Beside(new, B, lo2, lv2, p, f)
  <2>1. p \in B /\ f \in B /\ lv2[f] = lv2[p] /\ lo2[p] < lo2[f]
    BY <1>3, <1>9
  <2>2. \A q \in B : lv2[p] <= lv2[q] /\ lo2[p] < lo2[q] /\ q # f => lo2[f] < lo2[q]
    BY <1>4, <1>8, <1>9
  <2>3. ASSUME NEW q \in DOMAIN new, ~ new[q].leaf, NEW i \in DOMAIN new[q].ents
        PROVE  new[q].ents[i].child # f
    <3>1. CASE q \in B
      <4>1. PICK t \in A : \E j \in DOMAIN ps[t].ents :
              new[q].ents[i] = ps[t].ents[j] /\ new[q].leaf = ps[t].leaf
        BY <1>14, <3>1
      <4> QED
        BY <1>0, <1>13, <2>3, <4>1
    <3>2. CASE q \notin B
      BY <1>0, <1>18, <1>19, <2>3, <3>2
    <3> QED
      BY <3>1, <3>2
  <2> QED
    BY <2>1, <2>2, <2>3 DEF Beside
<1> QED
  BY <1>10, <1>11, <1>12, <1>15, <1>16, <1>17, <1>20, <1>21, <1>22 DEF Shape

\* lo2 and lv2 are lo and lv with two pages f and g under the root, which
\* is a level higher; the entries of g are r.
UnderRoot(A, lo, lv, lo2, lv2, f, g, r) ==
  /\ \A q \in A \ {P_ROOT} : lo2[q] = lo[q] /\ lv2[q] = lv[q]
  /\ lo2[P_ROOT] = 0 /\ lv2[P_ROOT] = lv[P_ROOT] + 1
  /\ lo2[f] = 0 /\ lv2[f] = lv[P_ROOT]
  /\ lo2[g] = r[1].key /\ lv2[g] = lv[P_ROOT]

\* A root that is cut in two: its entries move down into two new pages.
LEMMA ShapeGrow ==
  ASSUME NEW ps \in Seq(AnyPage), NEW new, NEW A, NEW lo, NEW lv, Shape(ps, A, lo, lv),
         NEW l, NEW r, Cut(ps[P_ROOT].ents, l, r), Grown(ps, new, l, r),
         Attached(ps, A, P_INVALID),
         NEW f, f = Fresh(ps), NEW g, g = Fresh(ps) + 1, NEW B, B = A \cup {f, g},
         NEW lo2, NEW lv2, UnderRoot(A, lo, lv, lo2, lv2, f, g, r)
  PROVE  Shape(new, B, lo2, lv2) /\ Attached(new, B, P_INVALID)
<1>h. /\ \A q \in A \ {P_ROOT} : lo2[q] = lo[q] /\ lv2[q] = lv[q]
      /\ lo2[P_ROOT] = 0 /\ lv2[P_ROOT] = lv[P_ROOT] + 1
      /\ lo2[f] = 0 /\ lv2[f] = lv[P_ROOT]
      /\ lo2[g] = r[1].key /\ lv2[g] = lv[P_ROOT]
  BY DEF UnderRoot
<1> USE <1>h
<1> DEFINE s == ps[P_ROOT].ents
           n == lv[P_ROOT]
<1>0. /\ DOMAIN new = DOMAIN ps \cup {f, g} /\ f \notin DOMAIN ps /\ g \notin DOMAIN ps
      /\ f # g /\ A \subseteq DOMAIN ps /\ f \notin A /\ g \notin A
      /\ P_ROOT \in A /\ f # P_ROOT /\ g # P_ROOT
  BY DEF Grown, Shape, Measured
<1>a. /\ \A q \in DOMAIN ps \ {P_ROOT} : new[q].leaf = ps[q].leaf /\ new[q].ents = ps[q].ents
      /\ new[f].leaf = ps[P_ROOT].leaf /\ new[f].ents = l
      /\ new[g].leaf = ps[P_ROOT].leaf /\ new[g].ents = r
      /\ new[P_ROOT].leaf = FALSE
  BY DEF Grown
<1>b. PICK k \in Nat : k = r[1].key
  BY <1>0, CutBounds
<1>c. /\ DOMAIN new[P_ROOT].ents = 1 .. 2
      /\ new[P_ROOT].ents[1].key = 0 /\ new[P_ROOT].ents[1].child = f
      /\ new[P_ROOT].ents[2].key = k /\ new[P_ROOT].ents[2].child = g
  BY <1>b DEF Grown
<1>d. \A i \in 1 .. 2 : i = 1 \/ i = 2
  OBVIOUS
<1>1. /\ \A q \in A : lo[q] \in Nat /\ lv[q] \in Nat /\ lv[q] <= n
      /\ lo[P_ROOT] = 0 /\ n \in Nat
      /\ \A q \in A : ps[q].leaf <=> lv[q] = 0
  BY DEF Shape, Measured
<1>9. /\ lo2[f] = 0 /\ lv2[f] = n /\ lo2[g] = k /\ lv2[g] = n
      /\ lo2[P_ROOT] = 0 /\ lv2[P_ROOT] = n + 1
      /\ \A q \in A \ {P_ROOT} : lo2[q] = lo[q] /\ lv2[q] = lv[q]
  BY <1>b
<1> HIDE DEF n
<1>n. n = lv[P_ROOT]
  BY DEF n
<1>2. /\ lo[P_ROOT] < r[1].key
      /\ \A i \in DOMAIN l : lo[P_ROOT] <= l[i].key
      /\ ~ ps[P_ROOT].leaf => \E i \in DOMAIN l : l[i].key = lo[P_ROOT]
      /\ \A q \in A : lv[P_ROOT] <= lv[q] /\ lo[P_ROOT] < lo[q] =>
           /\ \A i \in DOMAIN l : l[i].key < lo[q]
           /\ \A i \in DOMAIN r : r[i].key < lo[q]
  <2> DEFINE p == P_ROOT
  <2>1. p \in A /\ Cut(ps[p].ents, l, r)
    BY <1>0
  <2> HIDE DEF p
  <2>2. /\ lo[p] < r[1].key
        /\ \A i \in DOMAIN l : lo[p] <= l[i].key
        /\ ~ ps[p].leaf => \E i \in DOMAIN l : l[i].key = lo[p]
    BY <2>1, CutBounds
  <2>3. \A q \in A : lv[p] <= lv[q] /\ lo[p] < lo[q] =>
           /\ \A i \in DOMAIN l : l[i].key < lo[q]
           /\ \A i \in DOMAIN r : r[i].key < lo[q]
    BY <2>1, CutBounds
  <2> QED
    BY <2>2, <2>3 DEF p
<1>3. /\ 0 < k
      /\ \A i \in DOMAIN l : 0 <= l[i].key
      /\ ~ ps[P_ROOT].leaf => \E i \in DOMAIN l : l[i].key = 0
  BY <1>1, <1>2, <1>b
<1>7. /\ Ascending(l) /\ Ascending(r) /\ 1 \in DOMAIN r
      /\ \A i \in DOMAIN l : \E j \in DOMAIN s : l[i] = s[j]
      /\ \A i \in DOMAIN r : \E j \in DOMAIN s : r[i] = s[j]
      /\ \A j \in DOMAIN s : \/ \E i \in DOMAIN l : l[i] = s[j]
                             \/ \E i \in DOMAIN r : r[i] = s[j]
      /\ \A i \in DOMAIN l : l[i].key < k
      /\ \A j \in DOMAIN r : k <= r[j].key
  BY <1>b DEF Cut
<1>4. \A q \in A : n <= lv[q] /\ 0 < lo[q] =>
         /\ \A i \in DOMAIN l : l[i].key < lo[q]
         /\ \A i \in DOMAIN r : r[i].key < lo[q]
         /\ k < lo[q]
  BY <1>1, <1>2, <1>7, <1>b, <1>n
<1>5. \A q \in A : lv[q] = n => lo[q] # k
  BY <1>1, <1>3, <1>4
<1>6. \A q \in A \ {P_ROOT} : lv[q] <= n /\ lo[q] < k =>
         \A i \in DOMAIN ps[q].ents : ps[q].ents[i].key < k
  BY <1>0, <1>b, <1>n, CutBounds
<1>8. \A q \in B : q = P_ROOT \/ q = f \/ q = g \/ q \in A \ {P_ROOT}
  OBVIOUS
<1>10. Measured(new, B, lo2, lv2)
  <2>1. \A q \in B : lo2[q] \in Nat /\ lv2[q] \in Nat
    BY <1>1, <1>8, <1>9
  <2>2. \A q \in A \ {P_ROOT} : lv2[q] <= n + 1
    BY <1>1, <1>9
  <2>3. \A q \in B : lv2[q] <= lv2[P_ROOT]
    BY <1>1, <1>8, <1>9, <2>2
  <2>4. \A q \in A \ {P_ROOT} : new[q].leaf <=> lv2[q] = 0
    BY <1>0, <1>1, <1>9, <1>a
  <2>5. (new[f].leaf <=> lv2[f] = 0) /\ (new[g].leaf <=> lv2[g] = 0)
    BY <1>0, <1>1, <1>9, <1>a, <1>n
  <2>6. ~ new[P_ROOT].leaf /\ lv2[P_ROOT] # 0
    BY <1>1, <1>9, <1>a
  <2>7. B \subseteq DOMAIN new /\ P_ROOT \in B
    BY <1>0
  <2> QED
    BY <1>8, <1>9, <2>1, <2>3, <2>4, <2>5, <2>6, <2>7 DEF Measured
<1>11. Ordered(new)
  <2>1. Ascending(new[P_ROOT].ents)
    BY <1>3, <1>c, <1>d DEF Ascending
  <2> QED
    BY <1>0, <1>7, <1>a, <2>1 DEF Shape, Ordered
<1>12. FirstKeys(new, B, lo2)
  <2>1. ASSUME NEW q \in A \ {P_ROOT}
        PROVE  /\ \A i \in DOMAIN new[q].ents : lo2[q] <= new[q].ents[i].key
               /\ ~ new[q].leaf => \E i \in DOMAIN new[q].ents : new[q].ents[i].key = lo2[q]
    BY <1>0, <1>9, <1>a DEF Shape, FirstKeys
  <2>2. /\ \A i \in DOMAIN new[P_ROOT].ents : lo2[P_ROOT] <= new[P_ROOT].ents[i].key
        /\ \E i \in DOMAIN new[P_ROOT].ents : new[P_ROOT].ents[i].key = lo2[P_ROOT]
    BY <1>3, <1>9, <1>c, <1>d
  <2>3. /\ \A i \in DOMAIN new[f].ents : lo2[f] <= new[f].ents[i].key
        /\ ~ new[f].leaf => \E i \in DOMAIN new[f].ents : new[f].ents[i].key = lo2[f]
    BY <1>3, <1>9, <1>a
  <2>4. /\ \A i \in DOMAIN new[g].ents : lo2[g] <= new[g].ents[i].key
        /\ \E i \in DOMAIN new[g].ents : new[g].ents[i].key = lo2[g]
    BY <1>7, <1>9, <1>a, <1>b
  <2> QED
    BY <1>8, <2>1, <2>2, <2>3, <2>4 DEF FirstKeys
<1>13. \A q \in A : ~ ps[q].leaf => \A i \in DOMAIN ps[q].ents :
         /\ ps[q].ents[i].child \in A \ {P_ROOT}
         /\ lv[ps[q].ents[i].child] + 1 = lv[q]
         /\ lo[ps[q].ents[i].child] = ps[q].ents[i].key
  <2> SUFFICES ASSUME NEW q \in A, ~ ps[q].leaf, NEW i \in DOMAIN ps[q].ents
               PROVE  /\ ps[q].ents[i].child \in A \ {P_ROOT}
                      /\ lv[ps[q].ents[i].child] + 1 = lv[q]
                      /\ lo[ps[q].ents[i].child] = ps[q].ents[i].key
    OBVIOUS
  <2>1. /\ ps[q].ents[i].child \in A
        /\ lv[ps[q].ents[i].child] + 1 = lv[q]
        /\ lo[ps[q].ents[i].child] = ps[q].ents[i].key
    BY DEF Shape, Hanging
  <2>2. ps[q].ents[i].child # P_ROOT
    BY <1>1, <1>n, <2>1
  <2> QED
    BY <2>1, <2>2
<1>14. ASSUME NEW q \in B \ {P_ROOT}, NEW i \in DOMAIN new[q].ents
       PROVE  \E t \in A : \E j \in DOMAIN ps[t].ents :
                /\ new[q].ents[i] = ps[t].ents[j] /\ new[q].leaf = ps[t].leaf
                /\ lv2[q] = lv[t]
  <2>1. CASE q = f \/ q = g
    BY <1>0, <1>7, <1>9, <1>a, <1>n, <2>1
  <2>2. CASE q \in A \ {P_ROOT}
    BY <1>0, <1>9, <1>a, <2>2
  <2> QED
    BY <1>8, <2>1, <2>2
<1>15. Hanging(new, B, lo2, lv2)
  <2> SUFFICES ASSUME NEW q \in B, ~ new[q].leaf, NEW i \in DOMAIN new[q].ents
               PROVE  /\ new[q].ents[i].child \in B
                      /\ lv2[new[q].ents[i].child] + 1 = lv2[q]
                      /\ lo2[new[q].ents[i].child] = new[q].ents[i].key
    BY DEF Hanging
  <2>1. CASE q = P_ROOT
    BY <1>9, <1>c, <1>d, <2>1
  <2>2. CASE q # P_ROOT
    <3>1. PICK t \in A : \E j \in DOMAIN ps[t].ents :
            /\ new[q].ents[i] = ps[t].ents[j] /\ new[q].leaf = ps[t].leaf
            /\ lv2[q] = lv[t]
      BY <1>14, <2>2
    <3>2. PICK j \in DOMAIN ps[t].ents :
            /\ new[q].ents[i] = ps[t].ents[j] /\ new[q].leaf = ps[t].leaf
            /\ lv2[q] = lv[t]
      BY <3>1
    <3> DEFINE d == ps[t].ents[j].child
    <3>3. d \in A \ {P_ROOT} /\ lv[d] + 1 = lv[t] /\ lo[d] = ps[t].ents[j].key
          /\ new[q].ents[i].child = d /\ new[q].ents[i].key = ps[t].ents[j].key
      BY <1>13, <3>2
    <3> HIDE DEF d
    <3>4. lo2[d] = lo[d] /\ lv2[d] = lv[d]
      BY <1>9, <3>3
    <3> QED
      BY <3>2, <3>3, <3>4
  <2> QED
    BY <2>1, <2>2
<1>16. Below(new, B, lo2, lv2)
  <2> SUFFICES ASSUME NEW q \in B, NEW t \in B, lv2[q] <= lv2[t], lo2[q] < lo2[t],
                      NEW i \in DOMAIN new[q].ents
               PROVE  new[q].ents[i].key < lo2[t]
    BY DEF Below
  <2>0. \A u \in B : lo2[u] \in Nat /\ lv2[u] \in Nat
    BY <1>10 DEF Measured
  <2>1. t # P_ROOT /\ t # f
    BY <1>9, <2>0
  <2>2. q # P_ROOT
    <3> SUFFICES ASSUME q = P_ROOT PROVE FALSE
      OBVIOUS
    <3>1. lv2[t] <= n
      BY <1>1, <1>8, <1>9, <2>1
    <3> QED
      BY <1>1, <1>9, <2>0, <3>1
  <2>3. CASE q \in A \ {P_ROOT} /\ t = g
    <3>1. lo2[q] = lo[q] /\ lv2[q] = lv[q] /\ lv[q] <= n /\ lo[q] < k
      BY <1>1, <1>9, <2>3
    <3>2. new[q].ents = ps[q].ents
      BY <1>0, <1>a, <2>3
    <3> QED
      BY <1>6, <1>9, <2>3, <3>1, <3>2
  <2>4. CASE q \in A \ {P_ROOT} /\ t \in A \ {P_ROOT}
    <3>1. lo2[q] = lo[q] /\ lv2[q] = lv[q] /\ lo2[t] = lo[t] /\ lv2[t] = lv[t]
      BY <1>9, <2>4
    <3>2. new[q].ents = ps[q].ents
      BY <1>0, <1>a, <2>4
    <3> QED
      BY <2>4, <3>1, <3>2 DEF Shape, Below
  <2>5. CASE (q = f \/ q = g) /\ t \in A \ {P_ROOT}
    <3>1. lo2[t] = lo[t] /\ lv2[t] = lv[t] /\ n <= lv[t] /\ 0 < lo[t]
      BY <1>1, <1>3, <1>9, <2>5
    <3> QED
      BY <1>4, <1>a, <2>5, <3>1
  <2>6. CASE q = f /\ t = g
    BY <1>7, <1>9, <1>a, <2>6
  <2>7. CASE q = g /\ t = g
    BY <2>0, <2>7
  <2> QED
    BY <1>8, <2>1, <2>2, <2>3, <2>4, <2>5, <2>6, <2>7
<1>17. Apart(B, lo2, lv2)
  <2> SUFFICES ASSUME NEW q \in B, NEW t \in B, lv2[q] = lv2[t], lo2[q] = lo2[t]
               PROVE  q = t
    BY DEF Apart
  <2>1. \A u \in B \ {P_ROOT} : lv2[u] # lv2[P_ROOT]
    BY <1>1, <1>8, <1>9
  <2>2. \A u \in A \ {P_ROOT} : lv[u] = n => lo[u] # 0 /\ lo[u] # k
    <3>1. \A u \in A : lv[u] = n /\ lo[u] = 0 => u = P_ROOT
      BY <1>0, <1>1, <1>n DEF Shape, Apart
    <3> QED
      BY <1>5, <3>1
  <2>3. CASE q \in A \ {P_ROOT} /\ t \in A \ {P_ROOT}
    BY <1>9, <2>3 DEF Shape, Apart
  <2>4. CASE (q = f \/ q = g) /\ t \in A \ {P_ROOT}
    BY <1>9, <2>2, <2>4
  <2>5. CASE q \in A \ {P_ROOT} /\ (t = f \/ t = g)
    BY <1>9, <2>2, <2>5
  <2>6. CASE (q = f \/ q = g) /\ (t = f \/ t = g)
    BY <1>3, <1>9, <2>6
  <2>7. CASE q = P_ROOT \/ t = P_ROOT
    BY <2>1, <2>7
  <2> QED
    BY <1>8, <2>3, <2>4, <2>5, <2>6, <2>7
<1>18. DOMAIN new \ B = DOMAIN ps \ A
  BY <1>0
<1>20. Detached(new, B)
  <2> SUFFICES ASSUME NEW q \in DOMAIN ps \ A, ~ ps[q].leaf, NEW i \in DOMAIN ps[q].ents
               PROVE  ps[q].ents[i].child \in DOMAIN ps \ A /\ InRange(new, q, i)
    BY <1>0, <1>18, <1>a DEF Detached
  <2>1. ps[q].ents[i].child \in DOMAIN ps \ A /\ InRange(ps, q, i)
    BY DEF Shape, Detached
  <2>2. /\ new[q].ents = ps[q].ents
        /\ new[ps[q].ents[i].child].ents = ps[ps[q].ents[i].child].ents
        /\ new[ps[q].ents[i].child].leaf = ps[ps[q].ents[i].child].leaf
    BY <1>0, <1>a, <2>1
  <2> QED
    BY <2>1, <2>2 DEF InRange
<1>21. Attached(new, B, P_INVALID)
  <2> SUFFICES ASSUME NEW q \in B \ {P_ROOT, P_INVALID}
               PROVE  \E t \in B : ~ new[t].leaf /\
                        \E i \in DOMAIN new[t].ents : new[t].ents[i].child = q
    BY DEF Attached
  <2>0. CASE q = f \/ q = g
    <3>1. 1 \in 1 .. 2 /\ 2 \in 1 .. 2
      OBVIOUS
    <3> QED
      BY <1>0, <1>a, <1>c, <2>0, <3>1
  <2>1. CASE q \in A \ {P_ROOT}
    <3>1. PICK t \in A : ~ ps[t].leaf /\
            \E i \in DOMAIN ps[t].ents : ps[t].ents[i].child = q
      BY <2>1 DEF Attached
    <3>2. PICK i \in DOMAIN ps[t].ents : ps[t].ents[i].child = q
      BY <3>1
    <3>3. CASE t = P_ROOT /\ \E j \in DOMAIN l : l[j] = s[i]
      BY <1>0, <1>a, <3>1, <3>2, <3>3
    <3>4. CASE t = P_ROOT /\ \E j \in DOMAIN r : r[j] = s[i]
      BY <1>0, <1>a, <3>1, <3>2, <3>4
    <3>5. CASE t # P_ROOT
      BY <1>0, <1>a, <3>1, <3>2, <3>5
    <3> QED
      BY <1>7, <3>2, <3>3, <3>4, <3>5
  <2> QED
    BY <1>8, <2>0, <2>1
<1> QED
  BY <1>10, <1>11, <1>12, <1>15, <1>16, <1>17, <1>20, <1>21 DEF Shape

\* The separators of a page of the tree bound what hangs from them.
LEMMA RangeWithin ==
  ASSUME NEW ps \in Seq(AnyPage), NEW A, NEW lo, NEW lv, Shape(ps, A, lo, lv),
         NEW p \in A, ~ ps[p].leaf, NEW i \in DOMAIN ps[p].ents
  PROVE  InRange(ps, p, i)
<1> DEFINE s == ps[p].ents
           c == s[i].child
           k == s[i].key
<1>1. p \in DOMAIN ps /\ c \in A /\ c \in DOMAIN ps /\ lv[c] + 1 = lv[p] /\ lo[c] = k
  BY DEF Shape, Hanging, Measured
<1>2. /\ \A q \in A : lo[q] \in Nat /\ lv[q] \in Nat
      /\ \A q \in DOMAIN ps : \A j \in DOMAIN ps[q].ents : ps[q].ents[j].key \in Nat
  BY KeysNat DEF Shape, Measured
<1>3. /\ \A j \in DOMAIN ps[c].ents : lo[c] <= ps[c].ents[j].key
      /\ ~ ps[c].leaf => \E j \in DOMAIN ps[c].ents : ps[c].ents[j].key = lo[c]
  BY <1>1 DEF Shape, FirstKeys
<1>4. /\ DOMAIN s = 1 .. Len(s) /\ Len(s) \in Nat
      /\ DOMAIN ps[c].ents = 1 .. Len(ps[c].ents) /\ Len(ps[c].ents) \in Nat
  BY <1>1, EntsFacts, SeqFacts
<1>5. Ascending(ps[c].ents) /\ Ascending(s)
  BY <1>1 DEF Shape, Ordered
<1>6. ASSUME ~ ps[c].leaf PROVE ps[c].ents[1].key = k
  <2>1. PICK j \in DOMAIN ps[c].ents : ps[c].ents[j].key = lo[c]
    BY <1>3, <1>6
  <2>2. 1 \in DOMAIN ps[c].ents /\ (j = 1 \/ 1 < j)
    BY <1>4
  <2>3. CASE 1 < j
    <3>1. ps[c].ents[1].key < ps[c].ents[j].key
      BY <1>5, <2>2, <2>3 DEF Ascending
    <3>2. lo[c] <= ps[c].ents[1].key /\ lo[c] \in Nat /\ ps[c].ents[1].key \in Nat
      BY <1>1, <1>2, <1>3, <2>2
    <3> QED
      BY <2>1, <3>1, <3>2
  <2>4. CASE j = 1
    BY <1>1, <2>1, <2>4
  <2> QED
    BY <2>2, <2>3, <2>4
<1>7. ASSUME i < Len(s), NEW j \in DOMAIN ps[c].ents
      PROVE  ps[c].ents[j].key < s[i + 1].key
  <2> DEFINE m == i + 1
             d == s[m].child
  <2>1. m \in DOMAIN s /\ i < m
    BY <1>4, <1>7
  <2>2. s[i].key < s[m].key
    BY <1>5, <2>1 DEF Ascending
  <2> HIDE DEF m
  <2>3. d \in A /\ lv[d] + 1 = lv[p] /\ lo[d] = s[m].key
    BY <2>1 DEF Shape, Hanging
  <2> HIDE DEF c, d
  <2>4. lv[c] <= lv[d] /\ lo[c] < lo[d]
    BY <1>1, <1>2, <2>2, <2>3
  <2>5. ps[c].ents[j].key < lo[d]
    BY <1>1, <1>7, <2>3, <2>4 DEF Shape, Below
  <2> QED
    BY <2>3, <2>5 DEF m
<1> HIDE DEF k
<1>8. /\ ~ ps[c].leaf => ps[c].ents[1].key = k
      /\ \A j \in DOMAIN ps[c].ents :
           /\ k <= ps[c].ents[j].key
           /\ i < Len(s) => ps[c].ents[j].key < s[i + 1].key
  BY <1>1, <1>3, <1>6, <1>7
<1> QED
  BY <1>8 DEF InRange, k

\* What hangs below x, from which a failed call leaves nothing hanging, is
\* out of the tree; the rest keeps its shape.
LEMMA ShapeShrink ==
  ASSUME NEW ps \in Seq(AnyPage), NEW A, NEW lo, NEW lv, Shape(ps, A, lo, lv),
         NEW c, NEW x, Beside(ps, A, lo, lv, c, x), Attached(ps, A, x)
  PROVE  \E B : Shape(ps, B, lo, lv) /\ Attached(ps, B, P_INVALID)
<1> DEFINE D == {q \in A : /\ lv[q] <= lv[c] /\ lo[x] <= lo[q]
                           /\ \A t \in A \ {x} : lv[c] <= lv[t] /\ lo[c] < lo[t] =>
                                lo[q] < lo[t]}
           B == A \ D
<1>1. /\ A \subseteq DOMAIN ps /\ P_ROOT \in A
      /\ \A q \in A : lo[q] \in Nat /\ lv[q] \in Nat
      /\ lo[P_ROOT] = 0
      /\ \A q \in A : lv[q] <= lv[P_ROOT] /\ (ps[q].leaf <=> lv[q] = 0)
  BY DEF Shape, Measured
<1>2. /\ c \in A /\ x \in A /\ lv[x] = lv[c] /\ lo[c] < lo[x]
      /\ \A q \in A : lv[c] <= lv[q] /\ lo[c] < lo[q] /\ q # x => lo[x] < lo[q]
      /\ \A p \in DOMAIN ps : ~ ps[p].leaf =>
           \A i \in DOMAIN ps[p].ents : ps[p].ents[i].child # x
  BY DEF Beside
<1>3. /\ x \in D /\ P_ROOT \notin D
  BY <1>1, <1>2
<1>4. \A p \in A : ~ ps[p].leaf => \A i \in DOMAIN ps[p].ents :
         /\ ps[p].ents[i].child \in A
         /\ lv[ps[p].ents[i].child] + 1 = lv[p]
         /\ lo[ps[p].ents[i].child] = ps[p].ents[i].key
  BY DEF Shape, Hanging
<1>5. \A p, q \in A : lv[p] <= lv[q] /\ lo[p] < lo[q] =>
        \A i \in DOMAIN ps[p].ents : ps[p].ents[i].key < lo[q]
  BY DEF Shape, Below
<1>6. \A p \in A : \A i \in DOMAIN ps[p].ents : lo[p] <= ps[p].ents[i].key
  BY DEF Shape, FirstKeys
<1>7. ASSUME NEW p \in B, ~ ps[p].leaf, NEW i \in DOMAIN ps[p].ents
      PROVE  ps[p].ents[i].child \in B
  <2> DEFINE d == ps[p].ents[i].child
  <2>1. d \in A /\ d # x /\ lv[d] + 1 = lv[p] /\ lo[d] = ps[p].ents[i].key /\ lo[p] <= lo[d]
    BY <1>1, <1>2, <1>4, <1>6, <1>7
  <2>2. ps[p].ents[i].key = lo[d]
    BY <2>1
  <2> HIDE DEF d
  <2> SUFFICES ASSUME d \in D PROVE FALSE
    BY <2>1 DEF d
  <2>3. /\ lv[d] <= lv[c] /\ lo[x] <= lo[d]
        /\ \A t \in A \ {x} : lv[c] <= lv[t] /\ lo[c] < lo[t] => lo[d] < lo[t]
    OBVIOUS
  <2>4. CASE lv[p] <= lv[c]
    <3>1. \A t \in A \ {x} : lv[c] <= lv[t] /\ lo[c] < lo[t] => lo[p] < lo[t]
      BY <1>1, <2>1, <2>3
    <3>2. ~ (lo[x] <= lo[p])
      BY <1>7, <2>4, <3>1
    <3>3. lv[p] <= lv[x] /\ lo[p] < lo[x]
      BY <1>1, <1>2, <1>7, <2>4, <3>2
    <3>4. lo[d] < lo[x]
      BY <1>2, <1>5, <1>7, <2>2, <3>3
    <3> QED
      BY <1>1, <1>2, <2>1, <2>3, <3>4
  <2>5. CASE ~ (lv[p] <= lv[c])
    <3>1. lv[c] <= lv[d] /\ lo[c] < lo[d]
      BY <1>1, <1>2, <1>7, <2>1, <2>3, <2>5
    <3>2. lo[d] < lo[d]
      BY <2>1, <2>3, <3>1
    <3> QED
      BY <1>1, <2>1, <3>2
  <2> QED
    BY <2>4, <2>5
<1>8. ASSUME NEW p \in D, ~ ps[p].leaf, NEW i \in DOMAIN ps[p].ents
      PROVE  ps[p].ents[i].child \in D
  <2> DEFINE d == ps[p].ents[i].child
  <2>0. p \in A
    OBVIOUS
  <2>1. d \in A /\ lv[d] + 1 = lv[p] /\ lo[d] = ps[p].ents[i].key /\ lo[p] <= lo[d]
    BY <1>4, <1>6, <1>8, <2>0
  <2>2. ps[p].ents[i].key = lo[d]
    BY <2>1
  <2> HIDE DEF d
  <2>3. /\ lv[p] <= lv[c] /\ lo[x] <= lo[p]
        /\ \A t \in A \ {x} : lv[c] <= lv[t] /\ lo[c] < lo[t] => lo[p] < lo[t]
    OBVIOUS
  <2>4. lv[d] <= lv[c] /\ lo[x] <= lo[d]
    BY <1>1, <1>2, <2>0, <2>1, <2>3
  <2>5. ASSUME NEW t \in A \ {x}, lv[c] <= lv[t], lo[c] < lo[t] PROVE lo[d] < lo[t]
    <3>1. lo[p] < lo[t]
      BY <2>3, <2>5
    <3>2. lv[p] <= lv[t]
      BY <1>1, <1>2, <2>0, <2>3, <2>5
    <3> QED
      BY <1>5, <1>8, <2>0, <2>2, <3>1, <3>2
  <2>6. d \in D
    BY <2>1, <2>4, <2>5
  <2> QED
    BY <2>6 DEF d
<1>9. D \subseteq A
  OBVIOUS
<1> HIDE DEF D
<1>10. Measured(ps, B, lo, lv)
  BY <1>1, <1>3 DEF Measured
<1>11. FirstKeys(ps, B, lo)
  BY DEF Shape, FirstKeys
<1>12. Hanging(ps, B, lo, lv)
  BY <1>4, <1>7 DEF Hanging
<1>13. Below(ps, B, lo, lv)
  BY DEF Shape, Below
<1>14. Apart(B, lo, lv)
  BY DEF Shape, Apart
<1>15. Detached(ps, B)
  <2> SUFFICES ASSUME NEW p \in DOMAIN ps \ B, ~ ps[p].leaf, NEW i \in DOMAIN ps[p].ents
               PROVE  ps[p].ents[i].child \in DOMAIN ps \ B /\ InRange(ps, p, i)
    BY DEF Detached
  <2>1. CASE p \in D
    <3>1. ps[p].ents[i].child \in D
      BY <1>8, <2>1
    <3>2. InRange(ps, p, i)
      BY <1>9, <2>1, RangeWithin
    <3> QED
      BY <1>1, <1>9, <3>1, <3>2
  <2>2. CASE p \notin A
    BY <2>2 DEF Shape, Detached
  <2> QED
    BY <2>1, <2>2
<1>16. Attached(ps, B, P_INVALID)
  <2> SUFFICES ASSUME NEW q \in B \ {P_ROOT}
               PROVE  \E p \in B : ~ ps[p].leaf /\
                        \E i \in DOMAIN ps[p].ents : ps[p].ents[i].child = q
    BY DEF Attached
  <2>1. PICK p \in A : ~ ps[p].leaf /\
            \E i \in DOMAIN ps[p].ents : ps[p].ents[i].child = q
    BY <1>3 DEF Attached
  <2>2. p \notin D
    BY <1>8, <2>1
  <2> QED
    BY <2>1, <2>2
<1>17. Ordered(ps)
  BY DEF Shape
<1>18. Shape(ps, B, lo, lv)
  BY <1>10, <1>11, <1>12, <1>13, <1>14, <1>15, <1>17 DEF Shape
<1> QED
  BY <1>16, <1>18

\* An entry at its place leaves the keys increasing.
LEMMA InsertAscending ==
  ASSUME NEW S, \A y \in S : y.key \in Nat, NEW ents \in Seq(S), NEW e \in S,
         NEW pos \in 1 .. Len(ents) + 1, Ascending(ents),
         \A i \in DOMAIN ents : i < pos => ents[i].key < e.key,
         \A i \in DOMAIN ents : pos <= i => e.key < ents[i].key
  PROVE  Ascending(InsertAt(ents, pos, e))
<1> DEFINE s == InsertAt(ents, pos, e)
           n == Len(ents)
           k == e.key
<1>1. s \in Seq(S) /\ Len(s) = n + 1
      /\ \A i \in 1 .. n + 1 : s[i] = IF i < pos THEN ents[i]
                                     ELSE IF i = pos THEN e ELSE ents[i - 1]
  <2>1. s \in Seq(S)
    BY InsertAtFacts
  <2>2. OneMore(s, ents, pos, e)
    BY InsertOneMore
  <2> HIDE DEF s
  <2> QED
    BY <2>1, <2>2 DEF OneMore
<1>2. n \in Nat /\ DOMAIN ents = 1 .. n /\ DOMAIN s = 1 .. n + 1 /\ pos \in 1 .. n + 1
  BY <1>1, SeqFacts
<1>3. \A i \in 1 .. n : ents[i].key \in Nat
  BY <1>2, SeqFacts
<1>4. k \in Nat /\ e.key = k
  OBVIOUS
<1>5. \A i \in 1 .. n : i < pos => ents[i].key < k
  BY <1>2
<1>6. \A i \in 1 .. n : pos <= i => k < ents[i].key
  BY <1>2
<1>7. \A i, j \in 1 .. n : i < j => ents[i].key < ents[j].key
  BY <1>2 DEF Ascending
<1> HIDE DEF s, n, k
<1>8. ASSUME NEW i \in 1 .. n + 1, NEW j \in 1 .. n + 1, i < j
      PROVE  s[i].key < s[j].key
  <2> DEFINE a == i - 1
             b == j - 1
  <2>1. CASE j < pos
    <3>1. i \in 1 .. n /\ j \in 1 .. n /\ s[i] = ents[i] /\ s[j] = ents[j]
      BY <1>1, <1>2, <1>8, <2>1
    <3> QED
      BY <1>7, <1>8, <3>1
  <2>2. CASE j = pos
    <3>1. i \in 1 .. n /\ i < pos /\ s[i] = ents[i] /\ s[j] = e
      BY <1>1, <1>2, <1>8, <2>2
    <3> QED
      BY <1>4, <1>5, <3>1
  <2>3. CASE pos < j
    <3>0. b \in 1 .. n /\ pos <= b /\ s[j] = ents[b]
      BY <1>1, <1>2, <1>8, <2>3
    <3> HIDE DEF b
    <3>1. CASE i < pos
      <4>1. i \in 1 .. n /\ s[i] = ents[i] /\ i < b
        BY <1>1, <1>2, <1>8, <3>0, <3>1
      <4> QED
        BY <1>7, <3>0, <4>1
    <3>2. CASE i = pos
      BY <1>1, <1>2, <1>4, <1>6, <3>0, <3>2
    <3>3. CASE pos < i
      <4>1. a \in 1 .. n /\ a < b /\ s[i] = ents[a]
        BY <1>1, <1>2, <1>8, <2>3, <3>3 DEF b
      <4> HIDE DEF a
      <4> QED
        BY <1>7, <3>0, <4>1
    <3> QED
      BY <1>2, <3>1, <3>2, <3>3
  <2> QED
    BY <1>2, <2>1, <2>2, <2>3
<1>9. Ascending(s)
  BY <1>2, <1>8 DEF Ascending
<1> QED
  BY <1>9 DEF s

\* A removal does, too, and brings in nothing.
LEMMA RemoveAscending ==
  ASSUME NEW S, NEW ents \in Seq(S), NEW pos \in 1 .. Len(ents), Ascending(ents)
  PROVE  /\ Ascending(RemoveAt(ents, pos))
         /\ \A i \in DOMAIN RemoveAt(ents, pos) :
              \E j \in DOMAIN ents : RemoveAt(ents, pos)[i] = ents[j]
<1> DEFINE s == RemoveAt(ents, pos)
           n == Len(ents)
<1>1. s \in Seq(S) /\ Len(s) = n - 1
      /\ \A i \in 1 .. n - 1 : s[i] = IF i < pos THEN ents[i] ELSE ents[i + 1]
  <2>1. s \in Seq(S) /\ Len(s) = n - 1
    BY RemoveAtFacts
  <2>2. \A i \in 1 .. n - 1 : s[i] = IF i < pos THEN ents[i] ELSE ents[i + 1]
    BY RemoveAtFacts
  <2> QED
    BY <2>1, <2>2
<1>2. n \in Nat /\ DOMAIN ents = 1 .. n /\ DOMAIN s = 1 .. n - 1 /\ pos \in 1 .. n
  BY <1>1, SeqFacts
<1> HIDE DEF s, n
<1>3. ASSUME NEW i \in 1 .. n - 1
      PROVE  \E a \in 1 .. n : s[i] = ents[a] /\ (IF i < pos THEN a = i ELSE a = i + 1)
  <2>1. i \in 1 .. n /\ i + 1 \in 1 .. n
    BY <1>2
  <2> QED
    BY <1>1, <2>1
<1>4. ASSUME NEW i \in 1 .. n - 1, NEW j \in 1 .. n - 1, i < j
      PROVE  s[i].key < s[j].key
  <2>1. PICK a \in 1 .. n : s[i] = ents[a] /\ (IF i < pos THEN a = i ELSE a = i + 1)
    BY <1>3
  <2>2. PICK b \in 1 .. n : s[j] = ents[b] /\ (IF j < pos THEN b = j ELSE b = j + 1)
    BY <1>3
  <2>3. a < b
    BY <1>2, <1>4, <2>1, <2>2
  <2> QED
    BY <1>2, <2>1, <2>2, <2>3 DEF Ascending
<1>5. Ascending(s)
  BY <1>2, <1>4 DEF Ascending
<1>6. \A i \in DOMAIN s : \E j \in DOMAIN ents : s[i] = ents[j]
  BY <1>2, <1>3
<1> QED
  BY <1>5, <1>6 DEF s

\* InsertAt loses nothing.
LEMMA InsertKeeps ==
  ASSUME NEW S, NEW ents \in Seq(S), NEW e \in S, NEW pos \in 1 .. Len(ents) + 1
  PROVE  /\ \A j \in DOMAIN ents : \E i \in DOMAIN InsertAt(ents, pos, e) :
              InsertAt(ents, pos, e)[i] = ents[j]
         /\ \E i \in DOMAIN InsertAt(ents, pos, e) : InsertAt(ents, pos, e)[i] = e
<1> DEFINE s == InsertAt(ents, pos, e)
           n == Len(ents)
<1>1. s \in Seq(S) /\ Len(s) = n + 1
      /\ \A i \in 1 .. n + 1 : s[i] = IF i < pos THEN ents[i]
                                     ELSE IF i = pos THEN e ELSE ents[i - 1]
  <2>1. s \in Seq(S)
    BY InsertAtFacts
  <2>2. OneMore(s, ents, pos, e)
    BY InsertOneMore
  <2> HIDE DEF s
  <2> QED
    BY <2>1, <2>2 DEF OneMore
<1>2. n \in Nat /\ DOMAIN ents = 1 .. n /\ DOMAIN s = 1 .. n + 1 /\ pos \in 1 .. n + 1
  BY <1>1, SeqFacts
<1> HIDE DEF s, n
<1>3. ASSUME NEW j \in DOMAIN ents PROVE \E i \in DOMAIN s : s[i] = ents[j]
  <2>1. CASE j < pos
    BY <1>1, <1>2, <2>1
  <2>2. CASE ~ (j < pos)
    <3> DEFINE i == j + 1
    <3>1. i \in 1 .. n + 1 /\ ~ (i < pos) /\ i # pos /\ i - 1 = j
      BY <1>2, <2>2
    <3> HIDE DEF i
    <3> QED
      BY <1>1, <1>2, <3>1
  <2> QED
    BY <2>1, <2>2
<1>4. pos \in DOMAIN s /\ s[pos] = e
  BY <1>1, <1>2
<1> QED
  BY <1>3, <1>4 DEF s

\* The separator on its way up belongs to a page beside the one split last.
Rising(A, lo, lv) ==
  /\ Attached(pages, A, sep.child)
  /\ Beside(pages, A, lo, lv, cur, sep.child)
  /\ lo[sep.child] = sep.key
  /\ sep.src = "leaf" <=> pages[cur].leaf
  /\ sep.src = "leaf" =>
       /\ lo[cur] <= sep.last /\ sep.last < sep.key
       /\ \A i \in DOMAIN pages[cur].ents : pages[cur].ents[i].key <= sep.last

\* Where a call is in the tree.
KeyCall(A, lo, lv) ==
  /\ \A i \in DOMAIN path : path[i].pgno \in A
  /\ pc # "up" => Attached(pages, A, P_INVALID)
  /\ pc = "descend" => Arrives(A, lo, lv, cur, job.key)
  /\ pc = "up" => Rising(A, lo, lv)

\* The pages A form the tree.
Tree(A) == \E lo, lv : Shape(pages, A, lo, lv) /\ KeyCall(A, lo, lv)

\* A step after which there is a tree again, and one of all pages if there
\* was one of all pages before.
KeepsTree(A) == \E B : Tree(B)' /\ (A = DOMAIN pages => B = DOMAIN pages')

\* A call that ends.
LEMMA EndsTree ==
  ASSUME NEW ans, Return(ans), NEW B, NEW lo, NEW lv,
         Shape(pages', B, lo, lv), Attached(pages', B, P_INVALID)
  PROVE  Tree(B)'
<1>1. pc' # "up" /\ pc' # "descend" /\ path' = <<>>
  BY DEF Return
<1>2. DOMAIN path' = {}
  BY <1>1
<1>3. KeyCall(B, lo, lv)'
  BY <1>1, <1>2 DEF KeyCall
<1> QED
  BY <1>3 DEF Tree

\* A call that begins: it reaches the root whatever its key.
LEMMA StartTree ==
  ASSUME IInv, NEW A, Tree(A), NEW call, call.key \in Nat, Start(call)
  PROVE  Tree(A)'
<1>1. PICK lo, lv : Shape(pages, A, lo, lv) /\ KeyCall(A, lo, lv)
  BY DEF Tree
<1>2. /\ pages' = pages /\ pc = "idle" /\ pc' = "descend" /\ job' = call
      /\ cur' = cur /\ path' = path
  BY DEF Start
<1>3. cur = P_ROOT
  BY <1>2 DEF IInv, CallInv
<1>4. Attached(pages, A, P_INVALID)
  BY <1>1, <1>2 DEF KeyCall
<1>5. /\ A \subseteq DOMAIN pages /\ P_ROOT \in A /\ lo[P_ROOT] = 0
      /\ \A q \in A : lo[q] \in Nat /\ lv[q] \in Nat /\ lv[q] <= lv[P_ROOT]
  BY <1>1 DEF Shape, Measured
<1>6. ASSUME NEW q \in A, lv[P_ROOT] <= lv[q], lo[P_ROOT] < lo[q] PROVE FALSE
  <2>1. q # P_ROOT /\ q # P_INVALID
    <3>1. q \in DOMAIN pages
      BY <1>5
    <3>2. \A i \in DOMAIN pages : i \in Nat \ {0}
      BY ArenaFacts, SeqFacts
    <3> QED
      BY <1>5, <1>6, <3>1, <3>2 DEF P_INVALID
  <2>2. PICK p \in A : ~ pages[p].leaf /\
          \E i \in DOMAIN pages[p].ents : pages[p].ents[i].child = q
    BY <1>4, <2>1 DEF Attached
  <2>3. lv[q] + 1 = lv[p]
    BY <1>1, <2>2 DEF Shape, Hanging
  <2> QED
    BY <1>5, <1>6, <2>3
<1>7. Arrives(A, lo, lv, P_ROOT, call.key)
  BY <1>5, <1>6 DEF Arrives
<1>8. KeyCall(A, lo, lv)'
  BY <1>1, <1>2, <1>3, <1>4, <1>7 DEF KeyCall
<1>9. Shape(pages', A, lo, lv)
  BY <1>1, <1>2
<1> QED
  BY <1>8, <1>9 DEF Tree

\* One turn of descend arrives one level lower.
LEMMA ArrivesChild ==
  ASSUME NEW ps \in Seq(AnyPage), NEW A, NEW lo, NEW lv, Shape(ps, A, lo, lv),
         Attached(ps, A, P_INVALID),
         NEW k, NEW c, Arrives(A, lo, lv, c, k), ~ ps[c].leaf,
         NEW i, IsPick(ps[c].ents, k, i)
  PROVE  Arrives(A, lo, lv, ps[c].ents[i].child, k)
<1> DEFINE s == ps[c].ents
           d == s[i].child
<1>1. /\ c \in A /\ c \in DOMAIN ps /\ A \subseteq DOMAIN ps /\ P_ROOT \in A
      /\ \A q \in A : lo[q] \in Nat /\ lv[q] \in Nat /\ lv[q] <= lv[P_ROOT]
      /\ k \in Nat /\ lo[c] <= k
      /\ \A q \in A : lv[c] <= lv[q] /\ lo[c] < lo[q] => k < lo[q]
  BY DEF Shape, Measured, Arrives
<1>2. /\ i \in DOMAIN s /\ (i = 1 \/ s[i].key <= k)
      /\ \A j \in DOMAIN s : j > i => k < s[j].key
  BY DEF IsPick
<1>3. d \in A /\ lv[d] + 1 = lv[c] /\ lo[d] = s[i].key
  BY <1>1, <1>2 DEF Shape, Hanging
<1>4. \A j \in DOMAIN s : lo[c] <= s[j].key /\ s[j].key \in Nat /\ j \in Nat \ {0}
  <2>1. s \in Seq(EntryOf(ps[c].leaf))
    BY <1>1, EntsFacts
  <2>2. \A j \in DOMAIN s : j \in Nat \ {0}
    BY <2>1, SeqFacts
  <2> QED
    BY <1>1, <2>2, KeysNat DEF Shape, FirstKeys
<1>5. lo[d] <= k
  <2>1. CASE i = 1
    <3>1. PICK j \in DOMAIN s : s[j].key = lo[c]
      BY <1>1 DEF Shape, FirstKeys
    <3>2. CASE j = 1
      BY <1>1, <1>3, <2>1, <3>1, <3>2
    <3>3. CASE j # 1
      <4>1. i < j
        BY <1>4, <2>1, <3>3
      <4>2. k < s[j].key
        BY <1>2, <1>4, <4>1
      <4> QED
        BY <1>1, <3>1, <4>2
    <3> QED
      BY <3>2, <3>3
  <2>2. CASE s[i].key <= k
    BY <1>3, <2>2
  <2> QED
    BY <1>2, <2>1, <2>2
<1> HIDE DEF d
<1>6. ASSUME NEW q \in A, lv[d] <= lv[q], lo[d] < lo[q]
      PROVE  k < lo[q]
  <2>0. lo[c] <= lo[d]
    BY <1>2, <1>3, <1>4
  <2>1. lo[c] < lo[q]
    BY <1>1, <1>3, <1>6, <2>0
  <2>2. CASE lv[c] <= lv[q]
    BY <1>1, <2>1, <2>2
  <2>3. CASE ~ (lv[c] <= lv[q])
    <3>1. lv[q] + 1 = lv[c] /\ q # P_ROOT
      BY <1>1, <1>3, <1>6, <2>3
    <3>2. q # P_INVALID
      <4>1. q \in DOMAIN ps
        BY <1>1
      <4> QED
        BY <4>1, SeqFacts DEF P_INVALID
    <3>3. PICK p \in A : ~ ps[p].leaf /\
            \E j \in DOMAIN ps[p].ents : ps[p].ents[j].child = q
      BY <3>1, <3>2 DEF Attached
    <3>4. PICK j \in DOMAIN ps[p].ents : ps[p].ents[j].child = q
      BY <3>3
    <3>5. lv[q] + 1 = lv[p] /\ lo[q] = ps[p].ents[j].key /\ lo[p] <= lo[q]
      BY <3>3, <3>4 DEF Shape, Hanging, FirstKeys
    <3>6. lv[p] = lv[c]
      BY <1>1, <3>1, <3>5
    <3>7. CASE p = c
      <4>1. s[i].key < s[j].key /\ j \in DOMAIN s
        BY <1>3, <1>6, <3>4, <3>5, <3>7
      <4>2. i < j
        <5> SUFFICES ASSUME ~ (i < j) PROVE FALSE
          OBVIOUS
        <5>1. i = j \/ j < i
          BY <1>2, <1>4, <4>1
        <5>2. j < i => s[j].key < s[i].key
          BY <1>1, <1>2, <4>1 DEF Shape, Ordered, Ascending
        <5> QED
          BY <1>2, <1>4, <4>1, <5>1, <5>2
      <4> QED
        BY <1>2, <1>4, <3>5, <3>7, <4>1, <4>2
    <3>8. CASE p # c /\ lo[p] = lo[c]
      BY <1>1, <3>6, <3>8 DEF Shape, Apart
    <3>9. CASE lo[c] < lo[p]
      <4>1. k < lo[p]
        BY <1>1, <3>6, <3>9
      <4> QED
        BY <1>1, <3>5, <4>1
    <3>10. CASE lo[p] < lo[c]
      <4>0. lv[p] <= lv[c]
        BY <1>1, <3>6
      <4>1. ps[p].ents[j].key < lo[c]
        BY <1>1, <3>4, <3>10, <4>0 DEF Shape, Below
      <4>2. lo[q] < lo[c]
        BY <3>5, <4>1
      <4> QED
        BY <1>1, <2>1, <4>2
    <3> QED
      BY <1>1, <3>7, <3>8, <3>9, <3>10
  <2> QED
    BY <2>2, <2>3
<1>7. Arrives(A, lo, lv, d, k)
  BY <1>3, <1>5, <1>6 DEF Arrives
<1> QED
  BY <1>7 DEF d

\* A page is divided the same way whatever entries it held.
LEMMA DividedAfter ==
  ASSUME NEW ps \in Seq(AnyPage), NEW mid, NEW new, NEW p, NEW s, NEW l, NEW r,
         Changed(ps, mid, p, s), Divided(ps, new, p, l, r), p \in DOMAIN ps
  PROVE  /\ mid \in Seq(AnyPage) /\ DOMAIN mid = DOMAIN ps /\ mid[p].ents = s
         /\ Fresh(mid) = Fresh(ps) /\ Divided(mid, new, p, l, r)
<1>1. mid \in Seq(AnyPage) /\ DOMAIN mid = DOMAIN ps
  BY DEF Changed
<1>2. Len(mid) = Len(ps)
  <2>1. /\ DOMAIN mid = 1 .. Len(mid) /\ Len(mid) \in Nat
        /\ DOMAIN ps = 1 .. Len(ps) /\ Len(ps) \in Nat
    BY <1>1, SeqFacts
  <2>2. \A m, n \in Nat : 1 .. m = 1 .. n => m = n
    <3> SUFFICES ASSUME NEW m \in Nat, NEW n \in Nat, 1 .. m = 1 .. n, m < n PROVE FALSE
      OBVIOUS
    <3>1. n \in 1 .. n /\ n \notin 1 .. m
      OBVIOUS
    <3> QED
      BY <3>1
  <2> QED
    BY <1>1, <2>1, <2>2
<1>3. Fresh(mid) = Fresh(ps)
  BY <1>2 DEF Fresh
<1>4. /\ \A q \in DOMAIN ps : mid[q].leaf = ps[q].leaf
      /\ \A q \in DOMAIN ps : q # p => mid[q].ents = ps[q].ents
  BY DEF Changed
<1>5. mid[p].ents = s
  BY DEF Changed
<1>6. Divided(mid, new, p, l, r)
  <2> DEFINE f == Fresh(ps)
  <2>1. /\ new \in Seq(AnyPage) /\ f \notin DOMAIN ps /\ f \in Nat
        /\ DOMAIN new = DOMAIN ps \cup {f}
        /\ \A q \in DOMAIN ps : new[q].leaf = ps[q].leaf
        /\ \A q \in DOMAIN ps : q # p => new[q].ents = ps[q].ents
        /\ new[p].ents = l
        /\ new[f].leaf = ps[p].leaf /\ new[f].ents = r
    BY DEF Divided
  <2>2. f = Fresh(mid)
    BY <1>3
  <2> HIDE DEF f
  <2>3. \A q \in DOMAIN mid : new[q].leaf = mid[q].leaf
    BY <1>1, <1>4, <2>1
  <2>4. \A q \in DOMAIN mid : new[q].ents = IF q = p THEN l ELSE mid[q].ents
    BY <1>1, <1>4, <2>1
  <2>5. new[f].leaf = mid[p].leaf
    BY <1>4, <2>1
  <2> QED
    BY <1>1, <2>1, <2>2, <2>3, <2>4, <2>5 DEF Divided
<1> QED
  BY <1>1, <1>3, <1>5, <1>6

\* So is a root.
LEMMA GrownAfter ==
  ASSUME NEW ps \in Seq(AnyPage), NEW mid, NEW new, NEW s, NEW l, NEW r,
         Changed(ps, mid, P_ROOT, s), Grown(ps, new, l, r), P_ROOT \in DOMAIN ps
  PROVE  /\ mid \in Seq(AnyPage) /\ DOMAIN mid = DOMAIN ps /\ mid[P_ROOT].ents = s
         /\ Fresh(mid) = Fresh(ps) /\ Grown(mid, new, l, r)
<1>1. mid \in Seq(AnyPage) /\ DOMAIN mid = DOMAIN ps
  BY DEF Changed
<1>2. Len(mid) = Len(ps)
  <2>1. /\ DOMAIN mid = 1 .. Len(mid) /\ Len(mid) \in Nat
        /\ DOMAIN ps = 1 .. Len(ps) /\ Len(ps) \in Nat
    BY <1>1, SeqFacts
  <2>2. \A m, n \in Nat : 1 .. m = 1 .. n => m = n
    <3> SUFFICES ASSUME NEW m \in Nat, NEW n \in Nat, 1 .. m = 1 .. n, m < n PROVE FALSE
      OBVIOUS
    <3>1. n \in 1 .. n /\ n \notin 1 .. m
      OBVIOUS
    <3> QED
      BY <3>1
  <2> QED
    BY <1>1, <2>1, <2>2
<1>3. Fresh(mid) = Fresh(ps)
  BY <1>2 DEF Fresh
<1>4. /\ \A q \in DOMAIN ps \ {P_ROOT} : mid[q].leaf = ps[q].leaf /\ mid[q].ents = ps[q].ents
      /\ mid[P_ROOT].leaf = ps[P_ROOT].leaf
      /\ mid[P_ROOT].ents = s
  BY DEF Changed
<1>5. Grown(mid, new, l, r)
  <2> DEFINE f == Fresh(ps)
             g == Fresh(ps) + 1
  <2>1. /\ new \in Seq(AnyPage)
        /\ f \notin DOMAIN ps /\ g \notin DOMAIN ps /\ f \in Nat /\ g \in Nat /\ f # g
        /\ DOMAIN new = DOMAIN ps \cup {f, g}
        /\ \A q \in DOMAIN ps \ {P_ROOT} : new[q].leaf = ps[q].leaf /\ new[q].ents = ps[q].ents
        /\ new[P_ROOT].leaf = FALSE
        /\ DOMAIN new[P_ROOT].ents = 1 .. 2 /\ Len(new[P_ROOT].ents) = 2
        /\ new[P_ROOT].ents[1].key = 0 /\ new[P_ROOT].ents[1].child = f
        /\ new[P_ROOT].ents[2].key = r[1].key /\ new[P_ROOT].ents[2].child = g
        /\ new[f].leaf = ps[P_ROOT].leaf /\ new[f].ents = l
        /\ new[g].leaf = ps[P_ROOT].leaf /\ new[g].ents = r
    BY DEF Grown
  <2>2. f = Fresh(mid) /\ g = Fresh(mid) + 1
    BY <1>3
  <2> HIDE DEF f, g
  <2>3. \A q \in DOMAIN mid \ {P_ROOT} : new[q].leaf = mid[q].leaf /\ new[q].ents = mid[q].ents
    BY <1>1, <1>4, <2>1
  <2> QED
    BY <1>1, <1>4, <2>1, <2>2, <2>3 DEF Grown
<1> QED
  BY <1>1, <1>3, <1>4, <1>5

\* What is known of the leaf a call has reached.
LEMMA LeafKeys ==
  ASSUME IInv, NEW op, AtLeaf(op), NEW A, NEW lo, NEW lv,
         Shape(pages, A, lo, lv), KeyCall(A, lo, lv)
  PROVE  /\ cur \in A /\ job.key \in Nat
         /\ Attached(pages, A, P_INVALID)
         /\ Ascending(Ents)
         /\ \A i \in DOMAIN Ents :
              /\ Ents[i].key \in Nat /\ lo[cur] <= Ents[i].key
              /\ \A q \in A : lo[cur] < lo[q] => Ents[i].key < lo[q]
         /\ lo[cur] <= job.key
         /\ \A q \in A : lo[cur] < lo[q] => job.key < lo[q]
<1>1. pc = "descend" /\ pages[cur].leaf
  BY DEF AtLeaf
<1>2. Arrives(A, lo, lv, cur, job.key) /\ Attached(pages, A, P_INVALID)
  BY <1>1 DEF KeyCall
<1>3. /\ cur \in A /\ job.key \in Nat /\ lo[cur] <= job.key
      /\ \A q \in A : lv[cur] <= lv[q] /\ lo[cur] < lo[q] => job.key < lo[q]
  BY <1>2 DEF Arrives
<1>4. \A q \in A : lv[cur] <= lv[q]
  BY <1>1, <1>3 DEF Shape, Measured
<1>5. cur \in DOMAIN pages /\ pages \in Seq(AnyPage)
  BY LeafView
<1>6. Ascending(Ents)
  BY <1>5 DEF Shape, Ordered, Ents
<1>7. \A i \in DOMAIN Ents : Ents[i].key \in Nat
  BY <1>5, KeysNat DEF Ents
<1>8. \A i \in DOMAIN Ents : lo[cur] <= Ents[i].key
  BY <1>3 DEF Shape, FirstKeys, Ents
<1>9. \A q \in A : lo[cur] < lo[q] => \A i \in DOMAIN Ents : Ents[i].key < lo[q]
  BY <1>3, <1>4 DEF Shape, Below, Ents
<1> QED
  BY <1>2, <1>3, <1>4, <1>6, <1>7, <1>8, <1>9

\* The keys of leaf entries, of separators.
LEMMA EntryKeys ==
  /\ \A y \in LeafEntry : y.key \in Nat
  /\ \A y \in SepEntry : y.key \in Nat
  BY StringsAssumption DEF LeafEntry, SepEntry

\* A leaf with the new entry at its place: what InsertLeafEntry makes, and
\* what a split divides.
LEMMA LeafInserted ==
  ASSUME IInv, AtLeaf("put"), NEW A, NEW lo, NEW lv,
         Shape(pages, A, lo, lv), KeyCall(A, lo, lv),
         NEW pos \in 1 .. Len(Ents) + 1, IsLeafPos(Ents, job.key, pos),
         NEW new, NEW s, s = InsertAt(Ents, pos, NewLeafEntry), Changed(pages, new, cur, s)
  PROVE  Shape(new, A, lo, lv) /\ Attached(new, A, P_INVALID) /\ Ascending(s)
<1>1. /\ pages \in Seq(AnyPage) /\ cur \in DOMAIN pages /\ pages[cur].leaf = TRUE
      /\ Ents \in Seq(LeafEntry)
  BY LeafView
<1>2. NewLeafEntry \in LeafEntry /\ NewLeafEntry.key = job.key
  BY PutView
<1> DEFINE e == NewLeafEntry
           ents == Ents
           k == job.key
<1>3. /\ cur \in A /\ k \in Nat
      /\ Attached(pages, A, P_INVALID)
      /\ Ascending(ents)
      /\ \A i \in DOMAIN ents :
           /\ ents[i].key \in Nat /\ lo[cur] <= ents[i].key
           /\ \A q \in A : lo[cur] < lo[q] => ents[i].key < lo[q]
      /\ lo[cur] <= k
      /\ \A q \in A : lo[cur] < lo[q] => k < lo[q]
  BY LeafKeys
<1>4. \A i \in DOMAIN ents : IF i < pos THEN ents[i].key < k ELSE k < ents[i].key
  BY DEF IsLeafPos
<1>5. /\ ents \in Seq(LeafEntry) /\ e \in LeafEntry /\ e.key = k
      /\ pos \in 1 .. Len(ents) + 1 /\ s = InsertAt(ents, pos, e)
  BY <1>1, <1>2
<1> HIDE DEF e, ents, k
<1>6. /\ \A i \in DOMAIN ents : i < pos => ents[i].key < e.key
      /\ \A i \in DOMAIN ents : pos <= i => e.key < ents[i].key
  <2>1. \A i \in DOMAIN ents : i \in Nat /\ pos \in Nat
    BY <1>5, SeqFacts
  <2>2. \A i \in DOMAIN ents : pos <= i => k < ents[i].key
    BY <1>4, <2>1
  <2> QED
    BY <1>4, <1>5, <2>2
<1>7. Ascending(s)
  BY <1>3, <1>5, <1>6, EntryKeys, InsertAscending
<1>8. From(s, ents, e)
  BY <1>5, InsertFrom
<1>9. \A i \in DOMAIN s : /\ lo[cur] <= s[i].key
                          /\ \A q \in A : lo[cur] < lo[q] => s[i].key < lo[q]
  <2> SUFFICES ASSUME NEW i \in DOMAIN s
               PROVE  /\ lo[cur] <= s[i].key
                      /\ \A q \in A : lo[cur] < lo[q] => s[i].key < lo[q]
    OBVIOUS
  <2>1. CASE s[i] = e
    <3>1. s[i].key = k
      BY <1>5, <2>1
    <3> QED
      BY <1>3, <3>1
  <2>2. CASE \E j \in DOMAIN ents : s[i] = ents[j]
    BY <1>3, <2>2
  <2> QED
    BY <1>8, <2>1, <2>2 DEF From
<1>10. pages[cur].leaf
  BY <1>1
<1>11. /\ Shape(new, A, lo, lv)
       /\ \A x : Attached(pages, A, x) => Attached(new, A, x)
  BY <1>3, <1>7, <1>9, <1>10, ShapeSetLeaf
<1> QED
  BY <1>3, <1>7, <1>11

\* There is an arena with just that leaf changed.
LEMMA LeafMid ==
  ASSUME IInv, AtLeaf("put"), NEW pos \in 1 .. Len(Ents) + 1
  PROVE  /\ InsertAt(Ents, pos, NewLeafEntry) \in Seq(LeafEntry)
         /\ \E mid : Changed(pages, mid, cur, InsertAt(Ents, pos, NewLeafEntry))
<1>1. /\ pages \in Seq(AnyPage) /\ cur \in DOMAIN pages
      /\ Ents \in Seq(LeafEntry) /\ EntryOf(pages[cur].leaf) = LeafEntry
  BY LeafView
<1>2. NewLeafEntry \in LeafEntry
  BY PutView
<1> DEFINE s == InsertAt(Ents, pos, NewLeafEntry)
<1>3. s \in Seq(LeafEntry)
  BY <1>1, <1>2, InsertAtFacts
<1> HIDE DEF s
<1>4. s \in Seq(EntryOf(pages[cur].leaf))
  BY <1>1, <1>3
<1>5. Changed(pages, [pages EXCEPT ![cur].ents = s], cur, s)
  BY <1>1, <1>4, ViewSetEnts
<1> QED
  BY <1>3, <1>5 DEF s

\* The last key of the left part of a cut is its greatest.
LEMMA LastOfLeft ==
  ASSUME NEW S, \A y \in S : y.key \in Nat, NEW s, NEW l \in Seq(S), NEW r,
         l # <<>>, Cut(s, l, r)
  PROVE  /\ \E i \in DOMAIN l : Last(l) = l[i]
         /\ \A i \in DOMAIN l : l[i].key <= Last(l).key
         /\ Last(l).key < r[1].key
<1> DEFINE n == Len(l)
<1>1. n \in Nat \ {0} /\ Last(l) = l[n] /\ DOMAIN l = 1 .. n
      /\ \A i \in DOMAIN l : l[i].key \in Nat
  BY FrontLastFacts, SeqFacts
<1> HIDE DEF n
<1>2. n \in DOMAIN l
  BY <1>1
<1>3. \A i \in DOMAIN l : l[i].key <= l[n].key
  <2> SUFFICES ASSUME NEW i \in DOMAIN l PROVE l[i].key <= l[n].key
    OBVIOUS
  <2>1. i = n \/ i < n
    BY <1>1
  <2>2. CASE i = n
    BY <1>1, <2>2
  <2>3. CASE i < n
    <3>1. l[i].key < l[n].key
      BY <1>2, <2>3 DEF Cut, Ascending
    <3> QED
      BY <1>1, <1>2, <3>1
  <2> QED
    BY <2>1, <2>2, <2>3
<1>4. l[n].key < r[1].key
  BY <1>2 DEF Cut
<1> QED
  BY <1>1, <1>2, <1>3, <1>4

\* The tree A has a new page f, for the entries r, next to p.
OneMorePage(new, A, p, f, r) ==
  \E lo, lv : /\ Shape(new, A \cup {f}, lo, lv) /\ Attached(new, A \cup {f}, f)
             /\ Beside(new, A \cup {f}, lo, lv, p, f)
             /\ lo[f] = r[1].key

\* A page below the root that is cut in two leaves the tree one page larger.
LEMMA DivideTree ==
  ASSUME NEW ps \in Seq(AnyPage), NEW new, NEW A, NEW lo, NEW lv, Shape(ps, A, lo, lv),
         NEW p \in A, p # P_ROOT, NEW l, NEW r, Cut(ps[p].ents, l, r),
         Divided(ps, new, p, l, r), Attached(ps, A, P_INVALID),
         NEW f, f = Fresh(ps)
  PROVE  OneMorePage(new, A, p, f, r)
<1>1. f \notin A
  BY DEF Divided, Shape, Measured
<1>2. PICK lo2 : lo2 = [q \in A \cup {f} |-> IF q = f THEN r[1].key ELSE lo[q]]
  OBVIOUS
<1>3. PICK lv2 : lv2 = [q \in A \cup {f} |-> IF q = f THEN lv[p] ELSE lv[q]]
  OBVIOUS
<1>4. PICK B : B = A \cup {f}
  OBVIOUS
<1>5. \A q \in A : lo2[q] = lo[q] /\ lv2[q] = lv[q]
  BY <1>1, <1>2, <1>3
<1>6. lo2[f] = r[1].key
  BY <1>2
<1>7. lv2[f] = lv[p]
  BY <1>3
<1>n. NextTo(A, lo, lv, lo2, lv2, p, f, r)
  BY <1>5, <1>6, <1>7 DEF NextTo
<1>8. Shape(new, B, lo2, lv2) /\ Attached(new, B, f) /\ Beside(new, B, lo2, lv2, p, f)
  BY <1>4, <1>n, ShapeDivide
<1> QED
  BY <1>4, <1>6, <1>8 DEF OneMorePage

\* The same for a root that is cut in two.
LEMMA GrowTree ==
  ASSUME NEW ps \in Seq(AnyPage), NEW new, NEW A, NEW lo, NEW lv, Shape(ps, A, lo, lv),
         NEW l, NEW r, Cut(ps[P_ROOT].ents, l, r), Grown(ps, new, l, r),
         Attached(ps, A, P_INVALID), NEW f, f = Fresh(ps), NEW g, g = Fresh(ps) + 1
  PROVE  \E lo2, lv2 : /\ Shape(new, A \cup {f, g}, lo2, lv2)
                      /\ Attached(new, A \cup {f, g}, P_INVALID)
<1>1. /\ f \notin A /\ g \notin A /\ f # g /\ P_ROOT \in A
      /\ f # P_ROOT /\ g # P_ROOT
  BY DEF Grown, Shape, Measured
<1>b. PICK B : B = A \cup {f, g}
  OBVIOUS
<1>l. PICK lo2 : lo2 = [q \in B |-> IF q = P_ROOT \/ q = f THEN 0
                                  ELSE IF q = g THEN r[1].key ELSE lo[q]]
  OBVIOUS
<1>v. PICK lv2 : lv2 = [q \in B |-> IF q = P_ROOT THEN lv[P_ROOT] + 1
                                  ELSE IF q = f \/ q = g THEN lv[P_ROOT] ELSE lv[q]]
  OBVIOUS
<1>2. \A q \in A \ {P_ROOT} : lo2[q] = lo[q] /\ lv2[q] = lv[q]
  BY <1>1, <1>b, <1>l, <1>v
<1>3. lo2[P_ROOT] = 0
  BY <1>1, <1>b, <1>l
<1>4. lv2[P_ROOT] = lv[P_ROOT] + 1
  BY <1>1, <1>b, <1>v
<1>5. lo2[f] = 0
  BY <1>1, <1>b, <1>l
<1>6. lv2[f] = lv[P_ROOT]
  BY <1>1, <1>b, <1>v
<1>7. lo2[g] = r[1].key
  BY <1>1, <1>b, <1>l
<1>8. lv2[g] = lv[P_ROOT]
  BY <1>1, <1>b, <1>v
<1>n. UnderRoot(A, lo, lv, lo2, lv2, f, g, r)
  BY <1>2, <1>3, <1>4, <1>5, <1>6, <1>7, <1>8 DEF UnderRoot
<1>9. Shape(new, B, lo2, lv2) /\ Attached(new, B, P_INVALID)
  BY <1>b, <1>n, ShapeGrow
<1> QED
  BY <1>b, <1>9

\* A turn of descend.
LEMMA DescendTree ==
  ASSUME IInv, NEW A, Tree(A), Descend
  PROVE  Tree(A)'
<1>1. PICK lo, lv : Shape(pages, A, lo, lv) /\ KeyCall(A, lo, lv)
  BY DEF Tree
<1>2. PICK i \in DOMAIN Ents :
        /\ IsPick(Ents, job.key, i)
        /\ path' = Append(path, [pgno |-> cur, slot |-> i])
        /\ cur' = Ents[i].child
  BY DEF Descend
<1>3. /\ pages' = pages /\ pc = "descend" /\ pc' = "descend" /\ job' = job
      /\ ~ pages[cur].leaf
  BY DEF Descend
<1>4. /\ pages \in Seq(AnyPage) /\ path \in Seq(Hop) /\ cur \in Nat
  BY TypeFacts DEF IInv, TypeOK
<1>5. Arrives(A, lo, lv, cur, job.key) /\ Attached(pages, A, P_INVALID)
  BY <1>1, <1>3 DEF KeyCall
<1>6. Arrives(A, lo, lv, pages[cur].ents[i].child, job.key)
  <2> DEFINE k == job.key
             c == cur
  <2>1. Arrives(A, lo, lv, c, k) /\ ~ pages[c].leaf /\ IsPick(pages[c].ents, k, i)
    BY <1>2, <1>3, <1>5 DEF Ents
  <2> HIDE DEF k, c
  <2>2. Arrives(A, lo, lv, pages[c].ents[i].child, k)
    BY <1>1, <1>4, <1>5, <2>1, ArrivesChild
  <2> QED
    BY <2>2 DEF k, c
<1>7. Arrives(A, lo, lv, cur, job.key)'
  BY <1>2, <1>3, <1>6 DEF Ents
<1>8. \A j \in DOMAIN path' : path'[j].pgno \in A
  <2> DEFINE hop == [pgno |-> cur, slot |-> i]
             n == Len(path)
             pth == path'
  <2>1. i \in Nat \ {0}
    <3>1. cur \in DOMAIN pages
      BY <1>3, ArenaFacts
    <3>2. Ents \in Seq(EntryOf(pages[cur].leaf))
      BY <1>4, <3>1, EntsFacts DEF Ents
    <3> QED
      BY <3>2, SeqFacts
  <2>2. hop \in Hop /\ hop.pgno = cur
    BY <1>4, <2>1 DEF Hop
  <2>3. pth = Append(path, hop)
    BY <1>2
  <2> HIDE DEF hop, pth
  <2>4. /\ pth \in Seq(Hop) /\ Len(pth) = n + 1 /\ n \in Nat
        /\ \A j \in 1 .. n : pth[j] = path[j]
        /\ pth[n + 1] = hop
    BY <1>4, <2>2, <2>3, AppendFacts, SeqFacts
  <2>5. DOMAIN path = 1 .. n /\ DOMAIN pth = 1 .. n + 1
    BY <1>4, <2>4, SeqFacts
  <2>6. \A j \in 1 .. n + 1 : j = n + 1 \/ j \in 1 .. n
    BY <2>4
  <2>7. cur \in A /\ \A j \in DOMAIN path : path[j].pgno \in A
    BY <1>1, <1>5 DEF KeyCall, Arrives
  <2>8. \A j \in DOMAIN pth : pth[j].pgno \in A
    BY <2>2, <2>4, <2>5, <2>6, <2>7
  <2> QED
    BY <2>8 DEF pth
<1>9. KeyCall(A, lo, lv)'
  BY <1>3, <1>5, <1>7, <1>8 DEF KeyCall
<1> QED
  BY <1>1, <1>3, <1>9 DEF Tree

\* A new entry in a leaf with room for it.
LEMMA InsertLeafTree ==
  ASSUME IInv, NEW A, Tree(A), InsertLeafEntry
  PROVE  KeepsTree(A)
<1>1. PICK lo, lv : Shape(pages, A, lo, lv) /\ KeyCall(A, lo, lv)
  BY DEF Tree
<1>2. AtLeaf("put") /\ Return("true")
  BY DEF InsertLeafEntry
<1>3. PICK pos \in 1 .. Len(Ents) + 1 :
        /\ IsLeafPos(Ents, job.key, pos)
        /\ Changed(pages, pages', cur, InsertAt(Ents, pos, NewLeafEntry))
  BY InsertView
<1>4. Shape(pages', A, lo, lv) /\ Attached(pages', A, P_INVALID)
  BY <1>1, <1>2, <1>3, LeafInserted
<1>5. Tree(A)'
  BY <1>2, <1>4, EndsTree
<1>6. DOMAIN pages' = DOMAIN pages
  BY <1>3 DEF Changed
<1> QED
  BY <1>5, <1>6 DEF KeepsTree

\* An entry fewer in a leaf.
LEMMA DelHitTree ==
  ASSUME IInv, NEW A, Tree(A), DelHit
  PROVE  KeepsTree(A)
<1>1. PICK lo, lv : Shape(pages, A, lo, lv) /\ KeyCall(A, lo, lv)
  BY DEF Tree
<1>2. AtLeaf("del") /\ Return("true")
  BY DEF DelHit
<1>3. PICK i \in 1 .. Len(Ents) : Changed(pages, pages', cur, RemoveAt(Ents, i))
  BY DelView
<1>4. Ents \in Seq(LeafEntry) /\ pages[cur].leaf
  BY <1>2, LeafView
<1>5. /\ cur \in A /\ Attached(pages, A, P_INVALID) /\ Ascending(Ents)
      /\ \A j \in DOMAIN Ents :
           /\ lo[cur] <= Ents[j].key
           /\ \A q \in A : lo[cur] < lo[q] => Ents[j].key < lo[q]
  BY <1>1, <1>2, LeafKeys
<1> DEFINE s == RemoveAt(Ents, i)
<1>6. Ascending(s) /\ \A j \in DOMAIN s : \E m \in DOMAIN Ents : s[j] = Ents[m]
  BY <1>4, <1>5, RemoveAscending
<1>7. Changed(pages, pages', cur, s)
  BY <1>3
<1> HIDE DEF s
<1>8. \A j \in DOMAIN s : /\ lo[cur] <= s[j].key
                          /\ \A q \in A : lo[cur] < lo[q] => s[j].key < lo[q]
  BY <1>5, <1>6
<1>9. /\ Shape(pages', A, lo, lv)
      /\ \A x : Attached(pages, A, x) => Attached(pages', A, x)
  BY <1>1, <1>4, <1>5, <1>6, <1>7, <1>8, ShapeSetLeaf
<1>10. Tree(A)'
  BY <1>2, <1>5, <1>9, EndsTree
<1>11. DOMAIN pages' = DOMAIN pages
  BY <1>7 DEF Changed
<1> QED
  BY <1>10, <1>11 DEF KeepsTree

\* A leaf below the root that is split.
LEMMA LeafSplitTree ==
  ASSUME IInv, NEW A, Tree(A), NEW pos, SplitLeafSortedOpt(pos) \/ SplitLeafFull(pos)
  PROVE  KeepsTree(A)
<1>1. PICK lo, lv : Shape(pages, A, lo, lv) /\ KeyCall(A, lo, lv)
  BY DEF Tree
<1>2. /\ AtLeaf("put") /\ IsLeafPos(Ents, job.key, pos) /\ cur # P_ROOT
      /\ pos \in 1 .. Len(Ents) + 1
      /\ pc' = "up" /\ job' = job /\ cur' = cur /\ path' = path
  BY LeafSplitView
<1>3. PICK l, r :
        /\ Split(LeafEntry, TRUE, cur, pos, NewLeafEntry, l, r)
        /\ Divided(pages, pages', cur, l, r)
        /\ sep' = [src |-> "leaf", key |-> r[1].key, child |-> Fresh(pages),
                   last |-> Last(l).key]
  BY LeafSplitView
<1> DEFINE s == InsertAt(Ents, pos, NewLeafEntry)
<1>f. PICK f : f = Fresh(pages)
  OBVIOUS
<1>k. PICK k, z : k = r[1].key /\ z = Last(l).key
  OBVIOUS
<1>4. s \in Seq(LeafEntry) /\ \E mid : Changed(pages, mid, cur, s)
  BY <1>2, LeafMid
<1>5. PICK mid : Changed(pages, mid, cur, s)
  BY <1>4
<1>6. /\ l \in Seq(LeafEntry) /\ r \in Seq(LeafEntry) /\ l # <<>> /\ r # <<>>
      /\ Parts(s, l, r)
  BY <1>3 DEF Split, Ents
<1>7. /\ pages \in Seq(AnyPage) /\ cur \in DOMAIN pages /\ pages[cur].leaf = TRUE
  BY <1>2, LeafView
<1>8. Shape(mid, A, lo, lv) /\ Attached(mid, A, P_INVALID) /\ Ascending(s)
  BY <1>1, <1>2, <1>5, LeafInserted
<1>9. /\ sep'.src = "leaf" /\ sep'.key = k /\ sep'.child = f /\ sep'.last = z
  BY <1>3, <1>f, <1>k
<1>10. f = Fresh(pages) /\ k = r[1].key /\ z = Last(l).key
  BY <1>f, <1>k
<1> HIDE DEF s
<1>11. Cut(s, l, r)
  BY <1>4, <1>6, <1>8, EntryKeys, CutFacts
<1>12. /\ mid \in Seq(AnyPage) /\ DOMAIN mid = DOMAIN pages /\ mid[cur].ents = s
       /\ f = Fresh(mid) /\ Divided(mid, pages', cur, l, r)
  BY <1>3, <1>5, <1>7, <1>10, DividedAfter
<1>13. cur \in A
  BY <1>1, <1>2, LeafKeys
<1>14. PICK lo2, lv2 :
         /\ Shape(pages', A \cup {f}, lo2, lv2) /\ Attached(pages', A \cup {f}, f)
         /\ Beside(pages', A \cup {f}, lo2, lv2, cur, f)
         /\ lo2[f] = r[1].key
  <2>1. OneMorePage(pages', A, cur, f, r)
    BY <1>2, <1>8, <1>11, <1>12, <1>13, DivideTree
  <2> QED
    BY <2>1 DEF OneMorePage
<1>15. PICK B : B = A \cup {f}
  OBVIOUS
<1>16. /\ \A i \in DOMAIN l : l[i].key <= z
       /\ z < k /\ \E i \in DOMAIN l : z = l[i].key
  BY <1>6, <1>10, <1>11, EntryKeys, LastOfLeft
<1>17. pages'[cur].ents = l /\ pages'[cur].leaf = TRUE
  BY <1>3, <1>7 DEF Divided
<1>18. lo2[cur] <= z
  <2>1. \A i \in DOMAIN l : lo2[cur] <= l[i].key
    BY <1>13, <1>14, <1>15, <1>17 DEF Shape, FirstKeys
  <2> QED
    BY <1>16, <2>1
<1>19. Rising(B, lo2, lv2)'
  BY <1>2, <1>9, <1>10, <1>14, <1>15, <1>16, <1>17, <1>18 DEF Rising
<1>20. \A i \in DOMAIN path : path[i].pgno \in A
  BY <1>1 DEF KeyCall
<1>21. KeyCall(B, lo2, lv2)'
  BY <1>2, <1>15, <1>19, <1>20 DEF KeyCall
<1>22. Tree(B)'
  BY <1>14, <1>15, <1>21 DEF Tree
<1>23. DOMAIN pages' = DOMAIN pages \cup {f}
  BY <1>3, <1>10 DEF Divided
<1> QED
  BY <1>15, <1>22, <1>23 DEF KeepsTree

\* A leaf that is the root and is split.
LEMMA RootLeafTree ==
  ASSUME IInv, NEW A, Tree(A), NEW pos, SplitRootLeaf(pos)
  PROVE  KeepsTree(A)
<1>1. PICK lo, lv : Shape(pages, A, lo, lv) /\ KeyCall(A, lo, lv)
  BY DEF Tree
<1>2. /\ AtLeaf("put") /\ IsLeafPos(Ents, job.key, pos) /\ cur = P_ROOT
      /\ pos \in 1 .. Len(Ents) + 1 /\ Return("true")
  BY RootLeafView DEF IsLeafPos, SplitRootLeaf, LeafFull
<1>3. PICK l, r : /\ Split(LeafEntry, TRUE, P_ROOT, pos, NewLeafEntry, l, r)
                  /\ Grown(pages, pages', l, r)
  BY RootLeafView
<1> DEFINE s == InsertAt(Ents, pos, NewLeafEntry)
<1>4. s \in Seq(LeafEntry) /\ \E mid : Changed(pages, mid, cur, s)
  BY <1>2, LeafMid
<1>5. PICK mid : Changed(pages, mid, cur, s)
  BY <1>4
<1>6. /\ l \in Seq(LeafEntry) /\ r \in Seq(LeafEntry) /\ l # <<>> /\ r # <<>>
      /\ Parts(s, l, r)
  BY <1>2, <1>3 DEF Split, Ents
<1>7. /\ pages \in Seq(AnyPage) /\ P_ROOT \in DOMAIN pages
  BY <1>2, LeafView
<1>8. Shape(mid, A, lo, lv) /\ Attached(mid, A, P_INVALID) /\ Ascending(s)
  BY <1>1, <1>2, <1>5, LeafInserted
<1>10. PICK f, g : f = Fresh(pages) /\ g = Fresh(pages) + 1
  OBVIOUS
<1> HIDE DEF s
<1>11. Cut(s, l, r)
  BY <1>4, <1>6, <1>8, EntryKeys, CutFacts
<1>12. /\ mid \in Seq(AnyPage) /\ mid[P_ROOT].ents = s
       /\ f = Fresh(mid) /\ Grown(mid, pages', l, r)
  BY <1>2, <1>3, <1>5, <1>7, <1>10, GrownAfter
<1>13. PICK lo2, lv2 : /\ Shape(pages', A \cup {f, g}, lo2, lv2)
                      /\ Attached(pages', A \cup {f, g}, P_INVALID)
  <2>1. g = Fresh(mid) + 1
    BY <1>10, <1>12
  <2>2. Cut(mid[P_ROOT].ents, l, r)
    BY <1>11, <1>12
  <2> QED
    BY <1>8, <1>12, <2>1, <2>2, GrowTree
<1>15. PICK B : B = A \cup {f, g}
  OBVIOUS
<1>14. Shape(pages', B, lo2, lv2) /\ Attached(pages', B, P_INVALID)
  BY <1>13, <1>15
<1>16. Tree(B)'
  BY <1>2, <1>14, EndsTree
<1>17. DOMAIN pages' = DOMAIN pages \cup {f, g}
  BY <1>3, <1>10 DEF Grown
<1> QED
  BY <1>15, <1>16, <1>17 DEF KeepsTree

\* What is known of a separator on its way up: the page it goes to, and that
\* its key, cut short or not, lies between what it has to keep apart.
LEMMA SepBounds ==
  ASSUME IInv, GoingUp, NEW A, NEW lo, NEW lv, Shape(pages, A, lo, lv), KeyCall(A, lo, lv),
         NEW k, k = NewSepEntry.key, NEW x, x = sep.child
  PROVE  /\ Parent \in A /\ k \in Nat /\ lo[cur] < k /\ k <= lo[x]
         /\ Attached(pages, A, x) /\ Beside(pages, A, lo, lv, cur, x)
         /\ \A i \in DOMAIN pages[cur].ents : pages[cur].ents[i].key < k
         /\ pages[cur].leaf \/ k = lo[x]
<1>1. pc = "up" /\ path # <<>>
  BY DEF GoingUp
<1>2. Parent \in A
  <2>1. path \in Seq(Hop)
    BY TypeFacts DEF IInv, TypeOK
  <2>3. Len(path) \in Nat \ {0} /\ DOMAIN path = 1 .. Len(path)
    BY <1>1, <2>1
  <2>2. Len(path) \in DOMAIN path /\ Last(path) = path[Len(path)]
    BY <2>3 DEF Last
  <2> QED
    BY <2>2 DEF KeyCall, Parent
<1>3. /\ Attached(pages, A, x) /\ Beside(pages, A, lo, lv, cur, x)
      /\ lo[x] = sep.key
      /\ sep.src = "leaf" <=> pages[cur].leaf
      /\ sep.src = "leaf" =>
           /\ lo[cur] <= sep.last /\ sep.last < sep.key
           /\ \A i \in DOMAIN pages[cur].ents : pages[cur].ents[i].key <= sep.last
  BY <1>1 DEF KeyCall, Rising
<1>4. sep \in LeafSep \cup InternalSep /\ k = EncodedKey(sep, pages[Parent].prev, SepSlot)
  BY ParentView
<1>5. /\ cur \in A /\ x \in A /\ lv[x] = lv[cur] /\ lo[cur] < lo[x]
      /\ cur \in DOMAIN pages /\ lo[cur] \in Nat /\ lo[x] \in Nat /\ lv[x] \in Nat
  BY <1>3 DEF Beside, Shape, Measured
<1>6. \A i \in DOMAIN pages[cur].ents : pages[cur].ents[i].key \in Nat
  BY <1>5, ArenaFacts, KeysNat
<1>7. CASE k = sep.key
  <2>1. \A i \in DOMAIN pages[cur].ents : pages[cur].ents[i].key < lo[x]
    BY <1>5 DEF Shape, Below
  <2> QED
    BY <1>2, <1>3, <1>5, <1>7, <2>1
<1>8. CASE sep.src = "leaf" /\ k = Pfx[sep.last][sep.key]
  <2>1. sep.last \in Strings /\ sep.key \in Strings
    BY <1>4, <1>8 DEF LeafSep, InternalSep
  <2>2. sep.last \in Nat /\ sep.last < k /\ k <= sep.key /\ k \in Nat
    <3>1. PICK a, b : a = sep.last /\ b = sep.key
      OBVIOUS
    <3>2. a \in Strings /\ b \in Strings /\ a < b /\ k = Pfx[a][b]
      BY <1>3, <1>8, <2>1, <3>1
    <3>3. a < k /\ k <= b /\ k \in Strings
      BY <3>2, PfxAssumption
    <3> QED
      BY <3>1, <3>2, <3>3, StringsAssumption
  <2>3. \A i \in DOMAIN pages[cur].ents : pages[cur].ents[i].key < k
    BY <1>3, <1>6, <1>8, <2>2
  <2> QED
    BY <1>2, <1>3, <1>5, <1>8, <2>2, <2>3
<1> QED
  BY <1>4, <1>7, <1>8 DEF EncodedKey

\* A separator belongs right behind the one of the page that was split.
LEMMA SepPlace ==
  ASSUME NEW ps \in Seq(AnyPage), NEW A, NEW lo, NEW lv, Shape(ps, A, lo, lv),
         NEW p \in A, ~ ps[p].leaf, NEW n \in DOMAIN ps[p].ents,
         NEW c, ps[p].ents[n].child = c, NEW x, Beside(ps, A, lo, lv, c, x),
         NEW k \in Nat, lo[c] < k, k <= lo[x]
  PROVE  /\ \A i \in DOMAIN ps[p].ents : i <= n => ps[p].ents[i].key < k
         /\ \A i \in DOMAIN ps[p].ents : n < i => k < ps[p].ents[i].key
<1> DEFINE s == ps[p].ents
<1>1. /\ p \in DOMAIN ps /\ c \in A /\ x \in A
      /\ \A q \in A : lo[q] \in Nat /\ lv[q] \in Nat
  BY DEF Shape, Measured, Beside
<1>2. \A i \in DOMAIN s : s[i].key \in Nat /\ i \in Nat
  <2>1. s \in Seq(EntryOf(ps[p].leaf))
    BY <1>1, EntsFacts
  <2>2. \A i \in DOMAIN s : i \in Nat
    BY <2>1, SeqFacts
  <2> QED
    BY <1>1, <2>2, KeysNat
<1>3. \A i \in DOMAIN s : s[i].child \in A /\ lv[s[i].child] + 1 = lv[p]
                          /\ lo[s[i].child] = s[i].key
  BY DEF Shape, Hanging
<1>4. s[n].key = lo[c] /\ lv[c] + 1 = lv[p]
  BY <1>3
<1>5. \A i, j \in DOMAIN s : i < j => s[i].key < s[j].key
  BY <1>1 DEF Shape, Ordered, Ascending
<1>6. ASSUME NEW i \in DOMAIN s, i <= n PROVE s[i].key < k
  <2>1. i = n \/ i < n
    BY <1>2, <1>6
  <2>2. s[i].key <= lo[c]
    BY <1>1, <1>2, <1>4, <1>5, <2>1
  <2> QED
    BY <1>1, <1>2, <2>2
<1>7. ASSUME NEW i \in DOMAIN s, n < i PROVE k < s[i].key
  <2> DEFINE d == s[i].child
  <2>1. d \in A /\ lv[d] + 1 = lv[p] /\ lo[d] = s[i].key
    BY <1>3
  <2>2. lo[c] < s[i].key
    BY <1>4, <1>5, <1>7
  <2>3. d # x
    BY <1>1 DEF Beside
  <2> HIDE DEF d
  <2>4. lv[c] <= lv[d] /\ lo[c] < lo[d]
    BY <1>1, <1>4, <2>1, <2>2
  <2>5. lo[x] < lo[d]
    BY <2>1, <2>3, <2>4 DEF Beside
  <2> QED
    BY <1>1, <2>1, <2>5
<1> QED
  BY <1>6, <1>7

\* The parent with the separator at its place: what InsertInternalInPlace
\* makes, and what a split of the parent divides.
LEMMA SepInserted ==
  ASSUME IInv, GoingUp, NEW A, NEW lo, NEW lv, Shape(pages, A, lo, lv), KeyCall(A, lo, lv),
         NEW s, s = InsertAt(ParentEnts, SepSlot, NewSepEntry)
  PROVE  /\ s \in Seq(SepEntry) /\ Ascending(s) /\ Parent \in A
         /\ \E mid : Changed(pages, mid, Parent, s)
         /\ \A new : Changed(pages, new, Parent, s) =>
              \E lo2 : Shape(new, A, lo2, lv) /\ Attached(new, A, P_INVALID)
<1>k. PICK k, x, p, n, e : /\ k = NewSepEntry.key /\ x = sep.child /\ p = Parent
                          /\ n = SepSlot - 1 /\ e = NewSepEntry
  OBVIOUS
<1>1. /\ p \in A /\ k \in Nat /\ lo[cur] < k /\ k <= lo[x]
      /\ Attached(pages, A, x) /\ Beside(pages, A, lo, lv, cur, x)
      /\ \A i \in DOMAIN pages[cur].ents : pages[cur].ents[i].key < k
      /\ pages[cur].leaf \/ k = lo[x]
  BY <1>k, SepBounds
<1>2. /\ pages \in Seq(AnyPage) /\ p \in DOMAIN pages /\ ~ pages[p].leaf
      /\ ParentEnts = pages[p].ents /\ ParentEnts \in Seq(SepEntry)
      /\ EntryOf(pages[p].leaf) = SepEntry
      /\ SepSlot \in 1 .. Len(ParentEnts) + 1
      /\ n \in DOMAIN ParentEnts /\ ParentEnts[n].child = cur
      /\ e \in SepEntry /\ e.child = x /\ e.key = k
  BY <1>k, ParentView
<1>3. n + 1 = SepSlot /\ SepSlot \in Nat /\ n \in Nat
  <2>1. Len(ParentEnts) \in Nat
    BY <1>2, SeqFacts
  <2>2. SepSlot \in Nat
    BY <1>2, <2>1
  <2>3. n \in Nat
    BY <1>2, SeqFacts
  <2> QED
    BY <1>k, <2>2, <2>3
<1>4. PICK ents, pos : ents = ParentEnts /\ pos = SepSlot
  OBVIOUS
<1>5. /\ ents \in Seq(SepEntry) /\ e \in SepEntry /\ pos \in 1 .. Len(ents) + 1
      /\ s = InsertAt(ents, pos, e) /\ n + 1 = pos /\ n \in Nat /\ pos \in Nat
      /\ ents = pages[p].ents /\ n \in DOMAIN ents /\ ents[n].child = cur
  BY <1>k, <1>2, <1>3, <1>4
<1>6. /\ \A i \in DOMAIN ents : i <= n => ents[i].key < k
      /\ \A i \in DOMAIN ents : n < i => k < ents[i].key
  BY <1>1, <1>2, <1>5, SepPlace
<1>7. /\ \A i \in DOMAIN ents : i < pos => ents[i].key < e.key
      /\ \A i \in DOMAIN ents : pos <= i => e.key < ents[i].key
  <2>1. \A i \in DOMAIN ents : i \in Nat
    BY <1>5, SeqFacts
  <2>2. \A i \in DOMAIN ents : (i < pos => i <= n) /\ (pos <= i => n < i)
    BY <1>5, <2>1
  <2> QED
    BY <1>2, <1>6, <2>2
<1>8. Ascending(ents)
  BY <1>2, <1>5 DEF Shape, Ordered
<1>9. Ascending(s)
  BY <1>5, <1>7, <1>8, EntryKeys, InsertAscending
<1>10. s \in Seq(SepEntry)
  BY <1>5, InsertAtFacts
<1>11. From(s, ents, e)
  BY <1>5, InsertFrom
<1>12. /\ \A j \in DOMAIN ents : \E i \in DOMAIN s : s[i] = ents[j]
       /\ \E i \in DOMAIN s : s[i] = e
  BY <1>5, InsertKeeps
<1>13. \E mid : Changed(pages, mid, p, s)
  <2>1. s \in Seq(EntryOf(pages[p].leaf))
    BY <1>2, <1>10
  <2>2. Changed(pages, [pages EXCEPT ![p].ents = s], p, s)
    BY <1>2, <2>1, ViewSetEnts
  <2> QED
    BY <2>2
<1>14. ASSUME NEW new, Changed(pages, new, p, s)
       PROVE  \E lo2 : Shape(new, A, lo2, lv) /\ Attached(new, A, P_INVALID)
  <2>1. PICK lo2 : lo2 = [q \in A |-> IF q = x THEN k ELSE lo[q]]
    OBVIOUS
  <2>2. lo2[x] = k /\ \A q \in A : q # x => lo2[q] = lo[q]
    BY <1>1, <2>1 DEF Beside
  <2>3. MovedTo(A, lo, lo2, x, k)
    BY <2>2 DEF MovedTo
  <2>4. RefersTo(pages, p, cur)
    BY <1>5 DEF RefersTo
  <2>5. OneMoreIn(s, pages[p].ents, e)
    BY <1>5, <1>11, <1>12 DEF OneMoreIn
  <2>7. Separates(pages, lo, k, cur, x)
    BY <1>1 DEF Separates
  <2>6. Shape(new, A, lo2, lv) /\ Attached(new, A, P_INVALID)
    BY <1>1, <1>2, <1>9, <1>14, <2>3, <2>4, <2>5, <2>7, ShapePlace
  <2> QED
    BY <2>6
<1> QED
  BY <1>k, <1>1, <1>9, <1>10, <1>13, <1>14

\* A separator for which its page has room.
LEMMA PlaceTree ==
  ASSUME IInv, NEW A, Tree(A), InsertInternalInPlace
  PROVE  KeepsTree(A)
<1>1. PICK lo, lv : Shape(pages, A, lo, lv) /\ KeyCall(A, lo, lv)
  BY DEF Tree
<1>2. GoingUp /\ Return("true")
  BY DEF InsertInternalInPlace
<1>3. PICK s : s = InsertAt(ParentEnts, SepSlot, NewSepEntry)
  OBVIOUS
<1>4. Changed(pages, pages', Parent, s)
  BY <1>3, PlaceView
<1>5. \A new : Changed(pages, new, Parent, s) =>
        \E lo2 : Shape(new, A, lo2, lv) /\ Attached(new, A, P_INVALID)
  BY <1>1, <1>2, <1>3, SepInserted
<1>6. PICK lo2 : Shape(pages', A, lo2, lv) /\ Attached(pages', A, P_INVALID)
  BY <1>4, <1>5
<1>7. Tree(A)'
  BY <1>2, <1>6, EndsTree
<1>8. DOMAIN pages' = DOMAIN pages
  BY <1>4 DEF Changed
<1> QED
  BY <1>7, <1>8 DEF KeepsTree

\* What a split of the parent cuts in two, and the arena it is cut in.
LEMMA ParentCut ==
  ASSUME IInv, GoingUp, NEW A, NEW lo, NEW lv, Shape(pages, A, lo, lv), KeyCall(A, lo, lv),
         NEW l, NEW r, NEW p, p = Parent, Split(SepEntry, FALSE, p, SepSlot, NewSepEntry, l, r)
  PROVE  \E s, mid, lo2 :
           /\ Cut(s, l, r) /\ Changed(pages, mid, p, s)
           /\ Shape(mid, A, lo2, lv) /\ Attached(mid, A, P_INVALID)
<1>1. PICK s : s = InsertAt(ParentEnts, SepSlot, NewSepEntry)
  OBVIOUS
<1>2. /\ s \in Seq(SepEntry) /\ Ascending(s)
      /\ \E mid : Changed(pages, mid, Parent, s)
      /\ \A new : Changed(pages, new, Parent, s) =>
           \E lo2 : Shape(new, A, lo2, lv) /\ Attached(new, A, P_INVALID)
  BY <1>1, SepInserted
<1>3. PICK mid : Changed(pages, mid, Parent, s)
  BY <1>2
<1>4. PICK lo2 : Shape(mid, A, lo2, lv) /\ Attached(mid, A, P_INVALID)
  BY <1>2, <1>3
<1>5. ParentEnts = pages[p].ents
  BY DEF ParentEnts
<1>6. /\ l \in Seq(SepEntry) /\ r \in Seq(SepEntry) /\ l # <<>> /\ r # <<>>
      /\ Parts(s, l, r)
  BY <1>1, <1>5 DEF Split
<1>7. Cut(s, l, r)
  BY <1>2, <1>6, EntryKeys, CutFacts
<1> QED
  BY <1>3, <1>4, <1>7

\* A root that is split because a separator has no room in it.
LEMMA RootInternalTree ==
  ASSUME IInv, FitInv, NEW A, Tree(A), SplitRootInternal
  PROVE  KeepsTree(A)
<1>1. PICK lo, lv : Shape(pages, A, lo, lv) /\ KeyCall(A, lo, lv)
  BY DEF Tree
<1>2. RootTakes(sep.key) /\ GoingUp
  BY DEF SplitRootInternal, ParentFull, GoingUp, FitInv
<1>3. Parent = P_ROOT /\ Return("true")
  BY <1>2, RootInternalView
<1>4. PICK l, r : /\ Split(SepEntry, FALSE, P_ROOT, SepSlot, NewSepEntry, l, r)
                  /\ Grown(pages, pages', l, r)
  BY <1>2, RootInternalView
<1>5. PICK s, mid, lo2 :
        /\ Cut(s, l, r) /\ Changed(pages, mid, P_ROOT, s)
        /\ Shape(mid, A, lo2, lv) /\ Attached(mid, A, P_INVALID)
  BY <1>1, <1>2, <1>3, <1>4, ParentCut
<1>6. pages \in Seq(AnyPage) /\ P_ROOT \in DOMAIN pages
  BY ArenaFacts
<1>7. PICK f, g : f = Fresh(pages) /\ g = Fresh(pages) + 1
  OBVIOUS
<1>8. /\ mid \in Seq(AnyPage) /\ mid[P_ROOT].ents = s
      /\ f = Fresh(mid) /\ g = Fresh(mid) + 1 /\ Grown(mid, pages', l, r)
  BY <1>4, <1>5, <1>6, <1>7, GrownAfter
<1>9. Cut(mid[P_ROOT].ents, l, r)
  BY <1>5, <1>8
<1>10. PICK lo3, lv3 : /\ Shape(pages', A \cup {f, g}, lo3, lv3)
                      /\ Attached(pages', A \cup {f, g}, P_INVALID)
  BY <1>5, <1>8, <1>9, GrowTree
<1>11. PICK B : B = A \cup {f, g}
  OBVIOUS
<1>12. Shape(pages', B, lo3, lv3) /\ Attached(pages', B, P_INVALID)
  BY <1>10, <1>11
<1>13. Tree(B)'
  BY <1>3, <1>12, EndsTree
<1>14. DOMAIN pages' = DOMAIN pages \cup {f, g}
  BY <1>4, <1>7 DEF Grown
<1> QED
  BY <1>11, <1>13, <1>14 DEF KeepsTree

\* An internal page below the root that is split: its own separator goes on.
LEMMA ParentSplitTree ==
  ASSUME IInv, FitInv, NEW A, Tree(A), SplitInternalSortedOpt \/ SplitInternalPage
  PROVE  KeepsTree(A)
<1>1. PICK lo, lv : Shape(pages, A, lo, lv) /\ KeyCall(A, lo, lv)
  BY DEF Tree
<1>2. RootTakes(sep.key) /\ GoingUp
  BY DEF SplitInternalSortedOpt, SplitInternalPage, ParentFull, GoingUp, FitInv
<1>p. PICK p : p = Parent
  OBVIOUS
<1>3. p # P_ROOT
  BY <1>2, <1>p, ParentSplitView
<1>4. PICK l, r : /\ Split(SepEntry, FALSE, p, SepSlot, NewSepEntry, l, r)
                  /\ Divided(pages, pages', p, l, r)
                  /\ Ascend(r[1].key)
  BY <1>2, <1>p, ParentSplitView
<1>5. PICK s, mid, lo2 :
        /\ Cut(s, l, r) /\ Changed(pages, mid, p, s)
        /\ Shape(mid, A, lo2, lv) /\ Attached(mid, A, P_INVALID)
  BY <1>1, <1>2, <1>p, <1>4, ParentCut
<1>6. pages \in Seq(AnyPage) /\ p \in DOMAIN pages /\ pages[p].leaf = FALSE
  BY <1>2, <1>p, ParentView
<1>7. p \in A
  BY <1>1, <1>2, <1>p, SepBounds
<1>8. PICK f : f = Fresh(pages)
  OBVIOUS
<1>9. /\ mid \in Seq(AnyPage) /\ mid[p].ents = s
      /\ f = Fresh(mid) /\ Divided(mid, pages', p, l, r)
  BY <1>4, <1>5, <1>6, <1>8, DividedAfter
<1>10. Cut(mid[p].ents, l, r)
  BY <1>5, <1>9
<1>11. PICK lo3, lv3 :
         /\ Shape(pages', A \cup {f}, lo3, lv3) /\ Attached(pages', A \cup {f}, f)
         /\ Beside(pages', A \cup {f}, lo3, lv3, p, f)
         /\ lo3[f] = r[1].key
  <2>1. Shape(mid, A, lo2, lv) /\ Attached(mid, A, P_INVALID) /\ p \in A /\ p # P_ROOT
    BY <1>3, <1>5, <1>7
  <2>2. mid \in Seq(AnyPage) /\ f = Fresh(mid) /\ Divided(mid, pages', p, l, r)
    BY <1>9
  <2>3. PICK new : new = pages'
    OBVIOUS
  <2>4. OneMorePage(new, A, p, f, r)
    BY <1>10, <2>1, <2>2, <2>3, DivideTree
  <2> QED
    BY <2>3, <2>4 DEF OneMorePage
<1>12. PICK B : B = A \cup {f}
  OBVIOUS
<1>13. /\ sep'.src = "internal" /\ sep'.key = r[1].key /\ sep'.child = f
       /\ cur' = p /\ path' = Front(path) /\ pc' = "up"
  BY <1>2, <1>p, <1>4, <1>8 DEF Ascend, NextFreePgno, Fresh, GoingUp
<1>14. pages'[p].leaf = FALSE
  BY <1>4, <1>6 DEF Divided
<1>15. Rising(B, lo3, lv3)'
  BY <1>11, <1>12, <1>13, <1>14 DEF Rising
<1>16. \A i \in DOMAIN path' : path'[i].pgno \in A
  <2>1. path \in Seq(Hop) /\ path # <<>>
    BY <1>2, TypeFacts DEF IInv, TypeOK, GoingUp
  <2>2. /\ Front(path) \in Seq(Hop) /\ Len(Front(path)) = Len(path) - 1
        /\ \A i \in 1 .. Len(path) - 1 : Front(path)[i] = path[i]
    BY <2>1, FrontLastFacts
  <2>3. \A i \in DOMAIN path : path[i].pgno \in A
    BY <1>1 DEF KeyCall
  <2>4. Len(path) \in Nat /\ DOMAIN path = 1 .. Len(path)
    BY <2>1
  <2>5. DOMAIN Front(path) = 1 .. Len(path) - 1
    BY <2>2
  <2>6. \A i \in 1 .. Len(path) - 1 : i \in 1 .. Len(path)
    BY <2>4
  <2> QED
    BY <1>13, <2>2, <2>3, <2>4, <2>5, <2>6
<1>17. KeyCall(B, lo3, lv3)'
  BY <1>12, <1>13, <1>15, <1>16 DEF KeyCall
<1>18. Tree(B)'
  BY <1>11, <1>12, <1>17 DEF Tree
<1>19. DOMAIN pages' = DOMAIN pages \cup {f}
  BY <1>4, <1>8 DEF Divided
<1> QED
  BY <1>12, <1>18, <1>19 DEF KeepsTree

\* A call that ends without a change to the arena, not on its way up.
LEMMA AnswerTree ==
  ASSUME NEW A, Tree(A), pc # "up", NEW ans, Return(ans), UNCHANGED pages
  PROVE  KeepsTree(A)
<1>1. PICK lo, lv : Shape(pages, A, lo, lv) /\ KeyCall(A, lo, lv)
  BY DEF Tree
<1>2. Shape(pages', A, lo, lv) /\ Attached(pages', A, P_INVALID)
  BY <1>1 DEF KeyCall
<1>3. Tree(A)'
  BY <1>2, EndsTree
<1> QED
  BY <1>3 DEF KeepsTree

\* The separator that has no place to go: what hangs from it is no longer
\* part of the tree.
LEMMA UnfitTree ==
  ASSUME IInv, NEW A, Tree(A), SplitInternalUnfit
  PROVE  \E B : Tree(B)'
<1>1. PICK lo, lv : Shape(pages, A, lo, lv) /\ KeyCall(A, lo, lv)
  BY DEF Tree
<1>2. GoingUp /\ pages' = pages /\ \E ans : Return(ans)
  BY DEF SplitInternalUnfit, ParentFull
<1>3. PICK x : x = sep.child
  OBVIOUS
<1>4. Attached(pages, A, x) /\ Beside(pages, A, lo, lv, cur, x)
  BY <1>1, <1>2, <1>3, SepBounds
<1>5. pages \in Seq(AnyPage)
  BY ArenaFacts
<1>6. PICK B : Shape(pages, B, lo, lv) /\ Attached(pages, B, P_INVALID)
  BY <1>1, <1>4, <1>5, ShapeShrink
<1>7. Shape(pages', B, lo, lv) /\ Attached(pages', B, P_INVALID)
  BY <1>2, <1>6
<1>8. Tree(B)'
  BY <1>2, <1>7, EndsTree
<1> QED
  BY <1>8

\* The first tree is a leaf without entries.
LEMMA InitTree == Init => Tree(DOMAIN pages)
<1> SUFFICES ASSUME Init PROVE Tree(DOMAIN pages)
  OBVIOUS
<1>1. /\ pages = <<Page(TRUE, P_INVALID, P_INVALID, <<>>)>>
      /\ pc = "idle" /\ path = <<>>
  BY DEF Init
<1>2. DOMAIN pages = {P_ROOT} /\ pages[P_ROOT].leaf = TRUE /\ DOMAIN pages[P_ROOT].ents = {}
  BY <1>1 DEF Page, P_ROOT
<1>3. PICK zero : zero = [q \in {P_ROOT} |-> 0]
  OBVIOUS
<1>4. zero[P_ROOT] = 0
  BY <1>3
<1>5. Shape(pages, {P_ROOT}, zero, zero)
  <2>1. Measured(pages, {P_ROOT}, zero, zero)
    BY <1>2, <1>4 DEF Measured
  <2>2. Ordered(pages)
    BY <1>2 DEF Ordered, Ascending
  <2>3. FirstKeys(pages, {P_ROOT}, zero) /\ Hanging(pages, {P_ROOT}, zero, zero)
    BY <1>2 DEF FirstKeys, Hanging
  <2>4. Below(pages, {P_ROOT}, zero, zero) /\ Apart({P_ROOT}, zero, zero)
    BY <1>2 DEF Below, Apart
  <2>5. Detached(pages, {P_ROOT})
    BY <1>2 DEF Detached
  <2> QED
    BY <2>1, <2>2, <2>3, <2>4, <2>5 DEF Shape
<1>6. KeyCall({P_ROOT}, zero, zero)
  BY <1>1 DEF KeyCall, Attached
<1> QED
  BY <1>2, <1>5, <1>6 DEF Tree

\* Every step but the one that leaves pages behind keeps the tree.
LEMMA StepTree ==
  ASSUME IInv, FitInv, NEW A, Tree(A), [Next]_vars, ~ SplitInternalUnfit
  PROVE  KeepsTree(A)
<1>1. CASE UNCHANGED vars
  <2>1. Tree(A)' /\ DOMAIN pages' = DOMAIN pages
    BY <1>1 DEF vars, Tree, KeyCall, Rising
  <2> QED
    BY <2>1 DEF KeepsTree
<1>2. ASSUME NEW k \in Keys, NEW v \in Values, RejectPut(k, v) PROVE KeepsTree(A)
  BY <1>2, AnswerTree DEF RejectPut
<1>3. ASSUME NEW call, call.key \in Keys, Start(call) PROVE KeepsTree(A)
  <2>1. call.key \in Nat
    BY <1>3, StringsAssumption
  <2>2. Tree(A)'
    BY <1>3, <2>1, StartTree
  <2>3. DOMAIN pages' = DOMAIN pages
    BY <1>3 DEF Start
  <2> QED
    BY <2>2, <2>3 DEF KeepsTree
<1>4. ASSUME NEW k \in Keys, NEW v \in Values, CallPut(k, v) PROVE KeepsTree(A)
  <2>1. PICK call : call = [op |-> "put", key |-> k, val |-> v]
    OBVIOUS
  <2>2. call.key \in Keys /\ Start(call)
    BY <1>4, <2>1 DEF CallPut
  <2> QED
    BY <1>3, <2>2
<1>5. ASSUME NEW k \in Keys, CallDel(k) PROVE KeepsTree(A)
  <2>1. PICK call : call = [op |-> "del", key |-> k]
    OBVIOUS
  <2>2. call.key \in Keys /\ Start(call)
    BY <1>5, <2>1 DEF CallDel
  <2> QED
    BY <1>3, <2>2
<1>6. CASE Descend
  <2>1. Tree(A)'
    BY <1>6, DescendTree
  <2>2. DOMAIN pages' = DOMAIN pages
    BY <1>6 DEF Descend
  <2> QED
    BY <2>1, <2>2 DEF KeepsTree
<1>7. CASE DelHit
  BY <1>7, DelHitTree
<1>8. CASE DelMiss
  BY <1>8, AnswerTree DEF DelMiss, AtLeaf
<1>9. CASE PutDuplicate
  BY <1>9, AnswerTree DEF PutDuplicate, AtLeaf
<1>10. CASE InsertLeafEntry
  BY <1>10, InsertLeafTree
<1>11. ASSUME NEW pos \in 1 .. Len(Ents) + 1, SplitRootLeaf(pos) PROVE KeepsTree(A)
  BY <1>11, RootLeafTree
<1>12. ASSUME NEW pos \in 1 .. Len(Ents) + 1, SplitLeafSortedOpt(pos) \/ SplitLeafFull(pos)
       PROVE  KeepsTree(A)
  BY <1>12, LeafSplitTree
<1>13. ASSUME NEW pos \in 1 .. Len(Ents) + 1, SplitLeafUnfit(pos) PROVE KeepsTree(A)
  <2>1. pc # "up" /\ UNCHANGED pages /\ \E ans : Return(ans)
    BY <1>13 DEF SplitLeafUnfit, LeafFull, AtLeaf
  <2> QED
    BY <2>1, AnswerTree
<1>14. CASE InsertInternalInPlace
  BY <1>14, PlaceTree
<1>15. CASE SplitRootInternal
  BY <1>15, RootInternalTree
<1>16. CASE SplitInternalSortedOpt \/ SplitInternalPage
  BY <1>16, ParentSplitTree
<1> QED
  BY <1>1, <1>2, <1>4, <1>5, <1>6, <1>7, <1>8, <1>9, <1>10, <1>11, <1>12, <1>13,
     <1>14, <1>15, <1>16 DEF Next, Call, Step

\* There is always a tree, and what failed calls left behind is apart from it.
TreeInv == IInv /\ FitInv /\ \E A : Tree(A)

\* The arena has that shape in every state.
LEMMA TreeHolds == Spec => []TreeInv
<1>1. Init => TreeInv
  BY InitEstablishes, InitFits, InitTree DEF TreeInv
<1>2. TreeInv /\ [Next]_vars => TreeInv'
  <2> SUFFICES ASSUME TreeInv, [Next]_vars PROVE TreeInv'
    OBVIOUS
  <2>1. IInv' /\ FitInv'
    BY NextPreserves, NextFits DEF TreeInv
  <2>2. PICK A : Tree(A)
    BY DEF TreeInv
  <2>3. \E B : Tree(B)'
    <3>1. CASE SplitInternalUnfit
      BY <2>2, <3>1, UnfitTree DEF TreeInv
    <3>2. CASE ~ SplitInternalUnfit
      BY <2>2, <3>2, StepTree DEF TreeInv, KeepsTree
    <3> QED
      BY <3>1, <3>2
  <2> QED
    BY <2>1, <2>3 DEF TreeInv
<1> QED
  BY <1>1, <1>2, PTL DEF Spec

\* The keys of a page are strictly increasing.
THEOREM KeysSortedCorrect == Spec => []KeysSorted
<1>1. TreeInv => KeysSorted
  BY DEF TreeInv, Tree, Shape, Ordered, Ascending, KeysSorted
<1> QED
  BY <1>1, TreeHolds, PTL

\* Every key of a page lies within the range its parent's separators give it.
THEOREM ChildRangesCorrect == Spec => []ChildRanges
<1>1. TreeInv => ChildRanges
  <2> SUFFICES ASSUME TreeInv, NEW p \in DOMAIN pages, ~ pages[p].leaf,
                      NEW i \in DOMAIN pages[p].ents
               PROVE  InRange(pages, p, i)
    BY DEF ChildRanges, InRange
  <2>1. PICK A, lo, lv : Shape(pages, A, lo, lv)
    BY DEF TreeInv, Tree
  <2>2. pages \in Seq(AnyPage)
    BY ArenaFacts DEF TreeInv
  <2>3. CASE p \in A
    BY <2>1, <2>2, <2>3, RangeWithin
  <2>4. CASE p \notin A
    BY <2>1, <2>4 DEF Shape, Detached
  <2> QED
    BY <2>3, <2>4
<1> QED
  BY <1>1, TreeHolds, PTL

-----------------------------------------------------------------------------
(* When no separator takes more than half a page, no separator is ever left *)
(* without a place.                                                         *)

\* An entry and its slot take at most half a page.
HalfEntry(leaf, e) == 2 * (EntryBytes(leaf, e) + LINP_SIZE) <= Usable

\* None of the entries takes more than half a page.
HalfEach(leaf, s) == \A i \in 1 .. Len(s) : HalfEntry(leaf, s[i])

\* One entry more, and none takes more than half a page.
LEMMA HalfOneMore ==
  ASSUME NEW leaf, NEW t, NEW s, NEW pos, NEW e, OneMore(t, s, pos, e), HalfEach(leaf, s),
         Len(s) \in Nat, HalfEntry(leaf, e)
  PROVE  HalfEach(leaf, t)
<1> SUFFICES ASSUME NEW i \in 1 .. Len(t)
             PROVE  HalfEntry(leaf, t[i])
  BY DEF HalfEach
<1>1. /\ pos \in 1 .. Len(s) + 1 /\ Len(t) = Len(s) + 1
      /\ t[i] = IF i < pos THEN s[i] ELSE IF i = pos THEN e ELSE s[i - 1]
  BY DEF OneMore
<1>2. CASE i < pos
  <2>1. i \in 1 .. Len(s)
    BY <1>1, <1>2
  <2> QED
    BY <1>1, <1>2, <2>1 DEF HalfEach
<1>3. CASE i = pos
  BY <1>1, <1>3
<1>4. CASE pos < i
  <2>1. i - 1 \in 1 .. Len(s) /\ ~ (i < pos) /\ i # pos
    BY <1>1, <1>4
  <2> QED
    BY <1>1, <2>1 DEF HalfEach
<1> QED
  BY <1>1, <1>2, <1>3, <1>4

\* What is left of a page of u bytes that had an entry of b more than it, when
\* a has gone to the left half.
LEMMA RestCost ==
  ASSUME NEW a \in Nat, NEW b \in Nat, NEW c \in Nat, NEW u \in Nat, NEW w \in Nat,
         a + w = c + b + 2, c <= u
  PROVE  w <= u + b + 2 - a
  OBVIOUS

\* It fits when half a page has gone.
LEMMA HalfRest ==
  ASSUME NEW a \in Nat, NEW b \in Nat, NEW u \in Nat, NEW w \in Nat,
         w <= u + b + 2 - a, 2 * (b + 2) <= u, 2 * a + 1 >= u
  PROVE  w <= u
  OBVIOUS

\* And when a whole page has gone but for an entry of at most half a page.
LEMMA HalvesRest ==
  ASSUME NEW a \in Nat, NEW b \in Nat, NEW d \in Nat, NEW u \in Nat, NEW w \in Nat,
         NEW z, w <= u + b + 2 - a, 2 * (b + 2) <= u,
         z = a + d + 2, z >= u, 2 * (d + 2) <= u
  PROVE  w <= u
  OBVIOUS

\* A page that fits and a new entry, none of them more than half a page: the
\* right half fits wherever psplit_loop breaks.
LEMMA HalvesHalf ==
  ASSUME NEW leaf, NEW S, NEW ents \in Seq(S), NEW e \in S,
         \A x \in S : EntryBytes(leaf, x) \in Nat,
         NEW pos \in 1 .. Len(ents) + 1, NEW h \in Halves(leaf, ents, pos, e),
         Fits(leaf, ents), HalfEach(leaf, ents),
         HalfEntry(leaf, e)
  PROVE  Fits(leaf, h.right)
<1> DEFINE all == InsertAt(ents, pos, e)
           pre == PrefixCost(leaf, all)
           skip == pos - 1
           top == Len(ents)
           n == Len(h.left)
           r == h.right
<1>0. top \in Nat /\ pos \in 1 .. top + 1
  BY SeqFacts
<1>1. OneMore(all, ents, pos, e)
  BY InsertOneMore
<1>2. all \in Seq(S) /\ Len(all) = top + 1
  <2>1. all \in Seq(S)
    BY InsertAtFacts
  <2>2. Len(all) = top + 1
    BY <1>1 DEF OneMore
  <2> QED
    BY <2>1, <2>2
<1>3. /\ Parts(all, h.left, r)
      /\ h.left \in Seq(S) /\ r \in Seq(S)
      /\ n \in 0 .. top
      /\ SplitsAt(leaf, ents, pos, e, n)
  BY HalvesParts
<1>4. Len(all) = n + Len(r) /\ \A i \in 1 .. Len(r) : r[i] = all[n + i]
  BY <1>3 DEF Parts
<1>5. IsSplit(pre, skip, top, Usable, n)
  BY <1>3 DEF SplitsAt
<1>6. Sized(leaf, ents) /\ Sized(leaf, all) /\ Sized(leaf, h.left) /\ Sized(leaf, r)
  <2> HIDE DEF all, n, r
  <2>1. \A s \in Seq(S) : Sized(leaf, s)
    BY DEF Sized
  <2> QED
    BY <1>2, <1>3, <2>1
<1> HIDE DEF all, n, r
<1>7. Cost(leaf, all) = pre[n] + Cost(leaf, r)
  BY <1>3, <1>6, CostParts DEF n
<1>8. Cost(leaf, all) = Cost(leaf, ents) + EntryBytes(leaf, e) + LINP_SIZE
  BY <1>1, <1>6, CostOneMore
<1>9. HalfEach(leaf, all)
  BY <1>0, <1>1, HalfOneMore
<1>10. Usable \in Nat /\ EntryBytes(leaf, e) \in Nat /\ Cost(leaf, ents) \in Nat
       /\ Cost(leaf, r) \in Nat
  BY <1>6, UsableFacts, CostNat
<1>11. \A x : HalfEntry(leaf, x) => 2 * (EntryBytes(leaf, x) + 2) <= Usable
  BY DEF HalfEntry, LINP_SIZE
<1>12. pre \in [0 .. Len(all) -> Nat]
       /\ \A i \in 1 .. Len(all) : pre[i] = pre[i - 1] + EntryBytes(leaf, all[i]) + LINP_SIZE
  BY <1>6, CostFacts
<1>13. n \in 0 .. Len(all) /\ n + 1 \in 1 .. Len(all) /\ n + 1 - 1 = n
  BY <1>0, <1>2, <1>3
<1> HIDE DEF pre, top, skip
<1>14. pre[n] \in Nat
  BY <1>12, <1>13
<1>15. Cost(leaf, ents) <= Usable /\ 2 * (EntryBytes(leaf, e) + 2) <= Usable
  BY <1>11 DEF Fits
<1>16. Cost(leaf, r) <= Usable + EntryBytes(leaf, e) + 2 - pre[n]
  <2>1. pre[n] + Cost(leaf, r) = Cost(leaf, ents) + EntryBytes(leaf, e) + 2
    BY <1>7, <1>8 DEF LINP_SIZE
  <2> QED
    BY <1>10, <1>14, <1>15, <2>1, RestCost
<1>17. CASE n > 0 /\ pre[n] >= Usable \div 2
  <2>1. 2 * pre[n] + 1 >= Usable
    BY <1>10, <1>14, <1>17
  <2>2. Cost(leaf, r) <= Usable
    BY <1>10, <1>14, <1>15, <1>16, <2>1, HalfRest
  <2> QED
    BY <2>2 DEF Fits, r
<1>18. CASE OldBefore(skip, n) + 1 >= top
  <2>1. n + 1 >= top
    BY <1>0, <1>3, <1>18 DEF OldBefore, skip
  <2>2. Len(r) \in Nat /\ Len(r) = top + 1 - n
    BY <1>0, <1>2, <1>3, <1>4, <1>6 DEF Sized
  <2>3. Len(r) = 1 \/ Len(r) = 2
    BY <1>0, <1>3, <2>1, <2>2
  <2>4. ASSUME NEW i \in 1 .. Len(r)
        PROVE  EntryBytes(leaf, r[i]) \in Nat /\ 2 * (EntryBytes(leaf, r[i]) + 2) <= Usable
    <3>1. n + i \in 1 .. Len(all) /\ r[i] = all[n + i]
      BY <1>0, <1>2, <1>3, <1>4, <2>2
    <3> QED
      BY <1>6, <1>9, <1>11, <3>1 DEF HalfEach, Sized
  <2>5. CASE Len(r) = 1
    <3>1. 1 \in 1 .. Len(r) /\ Cost(leaf, r) = EntryBytes(leaf, r[1]) + 2
      BY <1>6, <2>5, CostOne DEF LINP_SIZE
    <3>2. EntryBytes(leaf, r[1]) \in Nat /\ 2 * (EntryBytes(leaf, r[1]) + 2) <= Usable
      BY <2>4, <3>1
    <3> QED
      BY <1>10, <3>1, <3>2 DEF Fits, r
  <2>6. CASE Len(r) = 2
    <3>1. /\ 1 \in 1 .. Len(r) /\ 2 \in 1 .. Len(r)
          /\ Cost(leaf, r) = EntryBytes(leaf, r[1]) + 2 + (EntryBytes(leaf, r[2]) + 2)
      BY <1>6, <2>6, CostTwo DEF LINP_SIZE
    <3>2. /\ EntryBytes(leaf, r[1]) \in Nat /\ 2 * (EntryBytes(leaf, r[1]) + 2) <= Usable
          /\ EntryBytes(leaf, r[2]) \in Nat /\ 2 * (EntryBytes(leaf, r[2]) + 2) <= Usable
      BY <2>4, <3>1
    <3> QED
      BY <1>10, <3>1, <3>2 DEF Fits, r
  <2> QED
    BY <2>3, <2>5, <2>6
<1>19. CASE skip <= n /\ pre[n + 1] >= Usable
  <2>1. /\ pre[n + 1] = pre[n] + EntryBytes(leaf, all[n + 1]) + 2
        /\ EntryBytes(leaf, all[n + 1]) \in Nat
    BY <1>6, <1>12, <1>13 DEF Sized, LINP_SIZE
  <2>2. 2 * (EntryBytes(leaf, all[n + 1]) + 2) <= Usable
    BY <1>9, <1>11, <1>13 DEF HalfEach
  <2>3. PICK d : d = EntryBytes(leaf, all[n + 1])
    OBVIOUS
  <2>4. PICK z : z = pre[n + 1]
    OBVIOUS
  <2>5. d \in Nat /\ z = pre[n] + d + 2 /\ z >= Usable /\ 2 * (d + 2) <= Usable
    BY <1>19, <2>1, <2>2, <2>3, <2>4
  <2>6. Cost(leaf, r) <= Usable
    <3>1. PICK a, b, u, w : /\ a = pre[n] /\ b = EntryBytes(leaf, e)
                            /\ u = Usable /\ w = Cost(leaf, r)
      OBVIOUS
    <3>2. a \in Nat /\ b \in Nat /\ u \in Nat /\ w \in Nat
      BY <1>10, <1>14, <3>1
    <3>3. w <= u + b + 2 - a /\ 2 * (b + 2) <= u
      BY <1>15, <1>16, <3>1
    <3>4. d \in Nat /\ z = a + d + 2 /\ z >= u /\ 2 * (d + 2) <= u
      BY <2>5, <3>1
    <3>5. w <= u
      BY <3>2, <3>3, <3>4, HalvesRest
    <3> QED
      BY <3>1, <3>5
  <2> QED
    BY <2>6 DEF Fits, r
<1> QED
  BY <1>5, <1>17, <1>18, <1>19 DEF IsSplit, SplitStops

\* Of the separators put lets into a page, none takes more than half of it.
HalfSeps ==
  \A k \in Strings : RootTakes(k) => 2 * (SepBytes(k) + LINP_SIZE) <= Usable

\* Then there is always a place for a separator.
LEMMA SepNeverUnfit ==
  ASSUME HalfSeps, IInv, FitInv
  PROVE  ~ SplitInternalUnfit
<1> SUFFICES ASSUME SplitInternalUnfit PROVE FALSE
  OBVIOUS
<1>1. GoingUp
  BY DEF SplitInternalUnfit, ParentFull
<1>2. PICK h \in Halves(FALSE, ParentEnts, SepSlot, NewSepEntry) : ~ Fits(FALSE, h.right)
  BY DEF SplitInternalUnfit, ParentHalves
<1>3. PICK p : p = Parent
  OBVIOUS
<1>4. PICK ents : ents = ParentEnts
  OBVIOUS
<1>5. PICK e : e = NewSepEntry
  OBVIOUS
<1>6. /\ p \in DOMAIN pages /\ pages[p].leaf = FALSE /\ ents = pages[p].ents
      /\ ents \in Seq(SepEntry) /\ e \in SepEntry /\ RootTakes(e.key)
      /\ SepSlot \in 1 .. Len(ents) + 1
  <2>1. RootTakes(sep.key)
    BY <1>1 DEF FitInv, GoingUp
  <2> QED
    BY <1>1, <1>3, <1>4, <1>5, <2>1, ParentView
<1>7. PageFits(FALSE, ents)
  BY <1>6 DEF FitInv, ArenaFits
<1>8. \A x \in SepEntry : RootTakes(x.key) => HalfEntry(FALSE, x)
  BY DEF HalfSeps, SepEntry, EntryBytes, HalfEntry
<1>9. HalfEach(FALSE, ents)
  <2>1. DOMAIN ents = 1 .. Len(ents) /\ \A i \in 1 .. Len(ents) : ents[i] \in SepEntry
    BY <1>6
  <2> QED
    BY <1>7, <1>8, <2>1 DEF HalfEach, PageFits
<1>10. h \in Halves(FALSE, ents, SepSlot, e)
  BY <1>2, <1>4, <1>5
<1>11. \A x \in SepEntry : EntryBytes(FALSE, x) \in Nat
  BY EntrySizes
<1>12. Fits(FALSE, ents) /\ HalfEntry(FALSE, e)
  BY <1>6, <1>7, <1>8 DEF PageFits
<1> QED
  BY <1>2, <1>6, <1>9, <1>10, <1>11, <1>12, HalvesHalf

\* Every page is part of the tree.
WholeInv == IInv /\ FitInv /\ Tree(DOMAIN pages)

\* As long as every separator finds its place, that remains so.
LEMMA WholeStep ==
  WholeInv /\ [Next]_vars /\ ~ SplitInternalUnfit => WholeInv'
<1> SUFFICES ASSUME WholeInv, [Next]_vars, ~ SplitInternalUnfit PROVE WholeInv'
  OBVIOUS
<1>1. IInv' /\ FitInv'
  BY NextPreserves, NextFits DEF WholeInv
<1>2. PICK A : A = DOMAIN pages
  OBVIOUS
<1>3. Tree(A)
  BY <1>2 DEF WholeInv
<1>4. KeepsTree(A)
  BY <1>3, StepTree DEF WholeInv
<1>5. PICK B : Tree(B)' /\ (A = DOMAIN pages => B = DOMAIN pages')
  BY <1>4 DEF KeepsTree
<1>6. Tree(DOMAIN pages)'
  BY <1>2, <1>5
<1> QED
  BY <1>1, <1>6 DEF WholeInv

\* When no separator takes more than half a page, all pages are in the tree
\* in every state.
LEMMA WholeHolds ==
  ASSUME HalfSeps
  PROVE  Spec => []WholeInv
<1>1. Init => WholeInv
  BY InitEstablishes, InitFits, InitTree DEF WholeInv
<1>2. WholeInv /\ [Next]_vars => WholeInv'
  BY WholeStep, SepNeverUnfit DEF WholeInv
<1> QED
  BY <1>1, <1>2, PTL DEF Spec

\* In a tree of all pages, the way to a key leads to the one leaf for it.
LEMMA DescentHolds == WholeInv => DescentExact
<1> SUFFICES ASSUME WholeInv, pc = "descend", pages[cur].leaf,
                    NEW p \in DOMAIN pages, p # cur, pages[p].leaf,
                    NEW i \in DOMAIN pages[p].ents, pages[p].ents[i].key = job.key
             PROVE  FALSE
  BY DEF DescentExact, Holds
<1>1. PICK lo, lv : /\ Shape(pages, DOMAIN pages, lo, lv)
                    /\ KeyCall(DOMAIN pages, lo, lv)
  BY DEF WholeInv, Tree
<1>2. /\ cur \in DOMAIN pages /\ job.key \in Nat /\ lo[cur] <= job.key
      /\ \A q \in DOMAIN pages : lv[cur] <= lv[q] /\ lo[cur] < lo[q] => job.key < lo[q]
  BY <1>1 DEF KeyCall, Arrives
<1>3. lo[p] \in Nat /\ lo[cur] \in Nat /\ lv[p] = 0 /\ lv[cur] = 0
  BY <1>1, <1>2 DEF Shape, Measured
<1>4. lo[p] <= job.key
  BY <1>1 DEF Shape, FirstKeys
<1>5. lo[p] # lo[cur]
  BY <1>1, <1>2, <1>3 DEF Shape, Apart
<1>6. ~ (lo[cur] < lo[p])
  BY <1>2, <1>3, <1>4
<1>7. lo[p] < lo[cur]
  BY <1>3, <1>5, <1>6
<1>8. job.key < lo[cur]
  BY <1>1, <1>2, <1>3, <1>7 DEF Shape, Below
<1> QED
  BY <1>2, <1>3, <1>8

\* When descend arrives at a leaf, no other leaf holds the key.
THEOREM DescentCorrect ==
  ASSUME HalfSeps
  PROVE  Spec => []DescentExact
  BY DescentHolds, WholeHolds, PTL

\* No entry costs more than the list it is in.
LEMMA CostMember ==
  ASSUME NEW leaf, NEW s, Sized(leaf, s), NEW i \in 1 .. Len(s)
  PROVE  EntryBytes(leaf, s[i]) + LINP_SIZE <= Cost(leaf, s)
<1> DEFINE pre == PrefixCost(leaf, s)
<1>1. Len(s) \in Nat /\ EntryBytes(leaf, s[i]) \in Nat
  BY DEF Sized
<1>2. /\ pre \in [0 .. Len(s) -> Nat]
      /\ pre[i] = pre[i - 1] + EntryBytes(leaf, s[i]) + LINP_SIZE
  BY CostFacts
<1>3. i \in 0 .. Len(s) /\ i - 1 \in 0 .. Len(s) /\ Len(s) \in i .. Len(s)
  BY <1>1
<1>4. pre[i] <= pre[Len(s)]
  BY <1>3, CostGrows
<1> HIDE DEF pre
<1>5. pre[i] \in Nat /\ pre[i - 1] \in Nat /\ pre[Len(s)] \in Nat
  BY <1>1, <1>2, <1>3
<1> QED
  BY <1>1, <1>2, <1>4, <1>5 DEF Cost, LINP_SIZE, pre

\* Of the entries put lets into a leaf, none takes more than half of it.
HalfLeaves ==
  \A k \in Strings, v \in Values :
    ~ TooLarge(k, v) => 2 * (LeafBytes(k, v) + LINP_SIZE) <= Usable

\* What is in a leaf that fits has passed put's bounds.
LEMMA LeafAccepted ==
  ASSUME NEW ents \in Seq(LeafEntry), PageFits(TRUE, ents), NEW i \in 1 .. Len(ents)
  PROVE  ~ TooLarge(ents[i].key, ents[i].val)
<1>1. Sized(TRUE, ents)
  <2>1. \A x \in LeafEntry : EntryBytes(TRUE, x) \in Nat
    BY EntrySizes
  <2>2. Len(ents) \in Nat /\ \A j \in 1 .. Len(ents) : ents[j] \in LeafEntry
    OBVIOUS
  <2> QED
    BY <2>1, <2>2 DEF Sized
<1>2. Cost(TRUE, ents) \in Nat /\ Cost(TRUE, ents) <= Usable /\ Usable \in Nat
  BY <1>1, CostNat, UsableFacts DEF PageFits, Fits
<1>3. /\ EntryBytes(TRUE, ents[i]) \in Nat
      /\ EntryBytes(TRUE, ents[i]) + LINP_SIZE <= Cost(TRUE, ents)
  BY <1>1, CostMember DEF Sized
<1>4. PICK x \in LeafEntry : x = ents[i]
  OBVIOUS
<1>5. PICK k \in Strings, v \in Values : k = x.key /\ v = x.val
  BY DEF LeafEntry
<1>6. EntryBytes(TRUE, ents[i]) = LeafBytes(k, v)
  BY <1>4, <1>5 DEF EntryBytes
<1>7. i \in DOMAIN ents
  OBVIOUS
<1>8. RootTakes(k)
  BY <1>4, <1>5, <1>7 DEF PageFits
<1>9. LeafBytes(k, v) \in Nat /\ LeafBytes(k, v) + LINP_SIZE <= Usable
  <2>1. PICK c, d : c = EntryBytes(TRUE, ents[i]) /\ d = Cost(TRUE, ents)
    OBVIOUS
  <2>2. c \in Nat /\ c + 2 <= d /\ d \in Nat /\ d <= Usable
    BY <1>2, <1>3, <2>1 DEF LINP_SIZE
  <2>3. c + 2 <= Usable
    BY <1>2, <2>2
  <2>4. LeafBytes(k, v) = c
    BY <1>6, <2>1
  <2> QED
    BY <2>2, <2>3, <2>4 DEF LINP_SIZE
<1>10. SepBytes(k) \in Nat /\ align_entry(ENTRY_HEADER_SIZE) \in Nat
  BY SepBytesFacts
<1>11. ~ (LeafBytes(k, v) + LINP_SIZE > Usable)
  BY <1>2, <1>9 DEF LINP_SIZE
<1>12. ~ (SepBytes(k) + align_entry(ENTRY_HEADER_SIZE) + 2 * LINP_SIZE > Usable)
  BY <1>2, <1>8, <1>10 DEF RootTakes, LINP_SIZE
<1> QED
  BY <1>4, <1>5, <1>11, <1>12 DEF TooLarge

\* Then a leaf that is split leaves no half that does not fit.
LEMMA LeafNeverUnfit ==
  ASSUME HalfLeaves, IInv, FitInv, NEW pos
  PROVE  ~ SplitLeafUnfit(pos)
<1> SUFFICES ASSUME SplitLeafUnfit(pos) PROVE FALSE
  OBVIOUS
<1>1. AtLeaf("put") /\ IsLeafPos(Ents, job.key, pos)
  BY DEF SplitLeafUnfit, LeafFull
<1>2. PICK h \in Halves(TRUE, Ents, pos, NewLeafEntry) : ~ Fits(TRUE, h.right)
  BY DEF SplitLeafUnfit, LeafHalves
<1>3. PICK ents, e : ents = Ents /\ e = NewLeafEntry
  OBVIOUS
<1>4. /\ cur \in DOMAIN pages /\ pages[cur].leaf = TRUE /\ ents = pages[cur].ents
      /\ ents \in Seq(LeafEntry)
  BY <1>1, <1>3, LeafView
<1>5. e \in LeafEntry /\ e.key \in Strings /\ e.val \in Values /\ ~ TooLarge(e.key, e.val)
  BY <1>1, <1>3, PutView DEF NewLeafEntry, LeafEntry
<1>6. pos \in 1 .. Len(ents) + 1
  BY <1>1, <1>3 DEF IsLeafPos
<1>7. \A x \in LeafEntry : ~ TooLarge(x.key, x.val) => HalfEntry(TRUE, x)
  BY DEF HalfLeaves, HalfEntry, LeafEntry, EntryBytes
<1>8. PageFits(TRUE, ents)
  BY <1>4 DEF FitInv, ArenaFits
<1>9. HalfEach(TRUE, ents)
  <2> SUFFICES ASSUME NEW i \in 1 .. Len(ents) PROVE HalfEntry(TRUE, ents[i])
    BY DEF HalfEach
  <2>1. ents[i] \in LeafEntry
    BY <1>4
  <2> QED
    BY <1>4, <1>7, <1>8, <2>1, LeafAccepted
<1>10. Fits(TRUE, ents) /\ HalfEntry(TRUE, e)
  BY <1>5, <1>7, <1>8 DEF PageFits
<1>11. h \in Halves(TRUE, ents, pos, e)
  BY <1>2, <1>3
<1>12. \A x \in LeafEntry : EntryBytes(TRUE, x) \in Nat
  BY EntrySizes
<1> QED
  BY <1>2, <1>4, <1>5, <1>6, <1>9, <1>10, <1>11, <1>12, HalvesHalf

\* put's bounds keep every split within the page when they let in nothing
\* that takes more than half a page.
THEOREM PutNeverUnfitCorrect ==
  ASSUME HalfSeps, HalfLeaves
  PROVE  Spec => []PutNeverUnfit
<1>1. Init => PutNeverUnfit
  BY DEF Init, PutNeverUnfit
<1>2. IInv /\ FitInv /\ PutNeverUnfit /\ [Next]_vars => PutNeverUnfit'
  <2> SUFFICES ASSUME IInv, FitInv, PutNeverUnfit, [Next]_vars PROVE PutNeverUnfit'
    OBVIOUS
  <2> USE DEF PutNeverUnfit
  <2>1. CASE UNCHANGED vars
    BY <2>1 DEF vars
  <2>2. ASSUME NEW k \in Keys, NEW v \in Values, RejectPut(k, v) PROVE PutNeverUnfit'
    BY <2>2 DEF RejectPut, Return
  <2>3. ASSUME NEW call, Start(call) PROVE PutNeverUnfit'
    BY <2>3 DEF Start
  <2>4. CASE Descend
    BY <2>4 DEF Descend
  <2>5. CASE DelHit \/ DelMiss \/ PutDuplicate \/ InsertLeafEntry
    BY <2>5 DEF DelHit, DelMiss, PutDuplicate, InsertLeafEntry, Return
  <2>6. ASSUME NEW pos, SplitRootLeaf(pos) PROVE PutNeverUnfit'
    BY <2>6 DEF SplitRootLeaf, Return
  <2>7. ASSUME NEW pos, SplitLeafSortedOpt(pos) \/ SplitLeafFull(pos) PROVE PutNeverUnfit'
    BY <2>7 DEF SplitLeafSortedOpt, SplitLeafFull
  <2>8. ASSUME NEW pos, SplitLeafUnfit(pos) PROVE PutNeverUnfit'
    BY <2>8, LeafNeverUnfit
  <2>9. CASE InsertInternalInPlace \/ SplitRootInternal
    BY <2>9 DEF InsertInternalInPlace, SplitRootInternal, Return
  <2>10. CASE SplitInternalSortedOpt \/ SplitInternalPage
    BY <2>10 DEF SplitInternalSortedOpt, SplitInternalPage, Ascend
  <2>11. CASE SplitInternalUnfit
    BY <2>11, SepNeverUnfit
  <2> QED
    BY <2>1, <2>2, <2>3, <2>4, <2>5, <2>6, <2>7, <2>8, <2>9, <2>10, <2>11
       DEF Next, Call, Step, CallPut, CallDel
<1> QED
  BY <1>1, <1>2, FitHolds, PTL DEF Spec

\* Of an interval there is no injection into a shorter one.
LEMMA Pigeons ==
  ASSUME NEW m \in Nat, NEW n \in Nat, NEW f \in [1 .. m -> 1 .. n],
         \A i, j \in 1 .. m : f[i] = f[j] => i = j
  PROVE  m <= n
<1>1. f \in Injection(1 .. m, 1 .. n)
  BY DEF Injection, IsInjective
<1>2. /\ IsFiniteSet(1 .. m) /\ Cardinality(1 .. m) = IF 1 > m THEN 0 ELSE m - 1 + 1
      /\ IsFiniteSet(1 .. n) /\ Cardinality(1 .. n) = IF 1 > n THEN 0 ELSE n - 1 + 1
  BY FS_Interval
<1>3. Cardinality(1 .. m) <= Cardinality(1 .. n)
  BY <1>1, <1>2, FS_Injection
<1> QED
  BY <1>2, <1>3

\* No separator of the tree refers to the page another one refers to.
LEMMA OneParent ==
  ASSUME NEW ps \in Seq(AnyPage), NEW A, NEW lo, NEW lv, Shape(ps, A, lo, lv),
         NEW p \in A, ~ ps[p].leaf, NEW i \in DOMAIN ps[p].ents,
         NEW q \in A, ~ ps[q].leaf, NEW j \in DOMAIN ps[q].ents,
         ps[p].ents[i].child = ps[q].ents[j].child
  PROVE  p = q /\ i = j
<1> DEFINE c == ps[p].ents[i].child
<1>1. /\ c \in A /\ lv[c] + 1 = lv[p] /\ lo[c] = ps[p].ents[i].key
      /\ lv[c] + 1 = lv[q] /\ lo[c] = ps[q].ents[j].key
  BY DEF Shape, Hanging
<1> HIDE DEF c
<1>2. /\ lo[c] \in Nat /\ lo[p] \in Nat /\ lo[q] \in Nat
      /\ lv[p] \in Nat /\ lv[q] \in Nat /\ lv[p] = lv[q]
  BY <1>1 DEF Shape, Measured
<1>3. lo[p] <= lo[c] /\ lo[q] <= lo[c]
  BY <1>1 DEF Shape, FirstKeys
<1>4. /\ lv[p] <= lv[q] /\ lo[p] < lo[q] => ps[p].ents[i].key < lo[q]
      /\ lv[q] <= lv[p] /\ lo[q] < lo[p] => ps[q].ents[j].key < lo[p]
  BY DEF Shape, Below
<1>5. ~ (lo[p] < lo[q])
  <2> SUFFICES ASSUME lo[p] < lo[q] PROVE FALSE
    OBVIOUS
  <2>1. lv[p] <= lv[q]
    BY <1>2
  <2>2. lo[c] < lo[q]
    BY <1>1, <1>4, <2>1
  <2> QED
    BY <1>2, <1>3, <2>2
<1>6. ~ (lo[q] < lo[p])
  <2> SUFFICES ASSUME lo[q] < lo[p] PROVE FALSE
    OBVIOUS
  <2>1. lv[q] <= lv[p]
    BY <1>2
  <2>2. lo[c] < lo[p]
    BY <1>1, <1>4, <2>1
  <2> QED
    BY <1>2, <1>3, <2>2
<1>7. lo[p] = lo[q]
  BY <1>2, <1>5, <1>6
<1>8. p = q
  BY <1>2, <1>7 DEF Shape, Apart
<1>9. Ascending(ps[p].ents) /\ DOMAIN ps[p].ents = 1 .. Len(ps[p].ents)
  <2>1. p \in DOMAIN ps
    BY DEF Shape, Measured
  <2>2. ps[p].ents \in Seq(EntryOf(ps[p].leaf))
    BY <2>1, EntsFacts
  <2> QED
    BY <2>1, <2>2 DEF Shape, Ordered
<1>10. ~ (i < j) /\ ~ (j < i)
  <2>1. ps[p].ents[i].key = lo[c] /\ ps[p].ents[j].key = lo[c] /\ j \in DOMAIN ps[p].ents
    BY <1>1, <1>8
  <2>2. /\ i < j => ps[p].ents[i].key < ps[p].ents[j].key
        /\ j < i => ps[p].ents[j].key < ps[p].ents[i].key
    BY <1>9, <2>1 DEF Ascending
  <2> QED
    BY <1>2, <2>1, <2>2
<1>11. i \in 1 .. Len(ps[p].ents) /\ j \in 1 .. Len(ps[p].ents)
  BY <1>8, <1>9
<1> QED
  BY <1>8, <1>10, <1>11

\* A page has no more slots than there are pages.
LEMMA SlotsBounded ==
  ASSUME NEW ps \in Seq(AnyPage), NEW A, NEW lo, NEW lv, Shape(ps, A, lo, lv),
         NEW p \in A, ~ ps[p].leaf, NEW i \in DOMAIN ps[p].ents
  PROVE  i \in 1 .. Len(ps) + 1
<1> DEFINE m == Len(ps[p].ents)
           n == Len(ps)
           f == [k \in 1 .. m |-> ps[p].ents[k].child]
<1>1. p \in DOMAIN ps /\ A \subseteq DOMAIN ps
  BY DEF Shape, Measured
<1>2. ps[p].ents \in Seq(EntryOf(ps[p].leaf))
  BY <1>1, EntsFacts
<1>3. m \in Nat /\ DOMAIN ps[p].ents = 1 .. m /\ n \in Nat /\ DOMAIN ps = 1 .. n
  BY <1>2
<1>4. \A k \in 1 .. m : f[k] \in 1 .. n
  BY <1>1, <1>3 DEF Shape, Hanging
<1>5. \A k, l \in 1 .. m : f[k] = f[l] => k = l
  <2> SUFFICES ASSUME NEW k \in 1 .. m, NEW l \in 1 .. m, f[k] = f[l] PROVE k = l
    OBVIOUS
  <2>1. ps[p].ents[k].child = ps[p].ents[l].child
    OBVIOUS
  <2>2. k \in DOMAIN ps[p].ents /\ l \in DOMAIN ps[p].ents
    BY <1>3
  <2> HIDE DEF f, m
  <2> QED
    BY <2>1, <2>2, OneParent
<1>6. f \in [1 .. m -> 1 .. n]
  BY <1>4
<1> HIDE DEF f
<1>7. m <= n
  BY <1>3, <1>5, <1>6, Pigeons
<1> QED
  BY <1>3, <1>7

\* Between calls every page but the root hangs from exactly one separator.
THEOREM NoPhantomPageCorrect ==
  ASSUME HalfSeps
  PROVE  Spec => []NoPhantomPage
<1>1. WholeInv => NoPhantomPage
  <2> SUFFICES ASSUME WholeInv, pc = "idle", NEW c \in DOMAIN pages \ {P_ROOT}
               PROVE  Cardinality(ParentSlots(c)) = 1
    BY DEF NoPhantomPage
  <2>1. pages \in Seq(AnyPage) /\ DOMAIN pages = 1 .. Len(pages)
    BY ArenaFacts DEF WholeInv
  <2>2. PICK A, lo, lv : A = DOMAIN pages /\ Shape(pages, A, lo, lv) /\ KeyCall(A, lo, lv)
    BY DEF WholeInv, Tree
  <2>3. Attached(pages, A, P_INVALID) /\ c # P_INVALID
    BY <2>1, <2>2 DEF KeyCall, P_INVALID
  <2>4. PICK p \in A : ~ pages[p].leaf /\
          \E k \in DOMAIN pages[p].ents : pages[p].ents[k].child = c
    BY <2>2, <2>3 DEF Attached
  <2>5. PICK i \in DOMAIN pages[p].ents : pages[p].ents[i].child = c
    BY <2>4
  <2>6. <<p, i>> \in ParentSlots(c)
    <3>1. i \in 1 .. Len(pages) + 1
      BY <2>1, <2>2, <2>4, SlotsBounded
    <3> QED
      BY <2>2, <2>4, <2>5, <3>1 DEF ParentSlots
  <2>7. ASSUME NEW at \in ParentSlots(c) PROVE at = <<p, i>>
    <3>1. /\ at \in (DOMAIN pages) \X (1 .. Len(pages) + 1)
          /\ ~ pages[at[1]].leaf
          /\ at[2] \in DOMAIN pages[at[1]].ents
          /\ pages[at[1]].ents[at[2]].child = c
      BY <2>7 DEF ParentSlots
    <3>2. PICK q, j : q = at[1] /\ j = at[2] /\ at = <<q, j>> /\ q \in A
      BY <2>2, <3>1
    <3>3. q = p /\ j = i
      BY <2>1, <2>2, <2>4, <2>5, <3>1, <3>2, OneParent
    <3> QED
      BY <3>2, <3>3
  <2>8. ParentSlots(c) = {<<p, i>>}
    BY <2>6, <2>7
  <2> QED
    BY <2>8, FS_Singleton
<1> QED
  BY <1>1, WholeHolds, PTL

-----------------------------------------------------------------------------
(* What a caller sees: the pairs in the leaves.                             *)

\* What a leaf entry says.
KV(x) == <<x.key, x.val>>

\* What the entries of a leaf say.
Pairs(s) == {KV(s[i]) : i \in DOMAIN s}

\* What the leaves of an arena say.
StoredIn(ps) == UNION {Pairs(ps[p].ents) : p \in {q \in DOMAIN ps : ps[q].leaf}}

\* The pairs of all other keys.
Without(set, k) == {kv \in set : kv[1] # k}

\* Stored is what the pages of the arena store.
LEMMA StoredPairs == Stored = StoredIn(pages)
  BY DEF Stored, StoredIn, Pairs, KV

\* A pair is stored when a leaf has an entry for it.
LEMMA StoredMember ==
  ASSUME NEW ps, NEW kv
  PROVE  kv \in StoredIn(ps) <=> \E p \in DOMAIN ps : ps[p].leaf /\ kv \in Pairs(ps[p].ents)
  BY DEF StoredIn

\* An entry more is a pair more.
LEMMA PairsInsert ==
  ASSUME NEW s, NEW ents, NEW e, OneMoreIn(s, ents, e)
  PROVE  Pairs(s) = Pairs(ents) \cup {KV(e)}
<1>1. /\ \A i \in DOMAIN s : s[i] = e \/ \E j \in DOMAIN ents : s[i] = ents[j]
      /\ \A i \in DOMAIN ents : \E j \in DOMAIN s : s[j] = ents[i]
      /\ \E j \in DOMAIN s : s[j] = e
  BY DEF OneMoreIn, From
<1>2. ASSUME NEW kv \in Pairs(s) PROVE kv \in Pairs(ents) \cup {KV(e)}
  BY <1>1, <1>2 DEF Pairs
<1>3. ASSUME NEW kv \in Pairs(ents) PROVE kv \in Pairs(s)
  <2>1. PICK i \in DOMAIN ents : kv = KV(ents[i])
    BY <1>3 DEF Pairs
  <2>2. PICK j \in DOMAIN s : s[j] = ents[i]
    BY <1>1
  <2> QED
    BY <2>1, <2>2 DEF Pairs
<1>4. KV(e) \in Pairs(s)
  <2>1. PICK j \in DOMAIN s : s[j] = e
    BY <1>1
  <2> QED
    BY <2>1 DEF Pairs
<1> QED
  BY <1>2, <1>3, <1>4

\* Two parts have the pairs of the whole.
LEMMA PairsCut ==
  ASSUME NEW s, NEW l, NEW r, Cut(s, l, r)
  PROVE  Pairs(s) = Pairs(l) \cup Pairs(r)
<1>1. /\ \A i \in DOMAIN l : \E j \in DOMAIN s : l[i] = s[j]
      /\ \A i \in DOMAIN r : \E j \in DOMAIN s : r[i] = s[j]
      /\ \A j \in DOMAIN s : \/ \E i \in DOMAIN l : l[i] = s[j]
                            \/ \E i \in DOMAIN r : r[i] = s[j]
  BY DEF Cut
<1>2. ASSUME NEW kv \in Pairs(s) PROVE kv \in Pairs(l) \cup Pairs(r)
  <2>1. PICK j \in DOMAIN s : kv = KV(s[j])
    BY <1>2 DEF Pairs
  <2>2. CASE \E i \in DOMAIN l : l[i] = s[j]
    BY <2>1, <2>2 DEF Pairs
  <2>3. CASE \E i \in DOMAIN r : r[i] = s[j]
    BY <2>1, <2>3 DEF Pairs
  <2> QED
    BY <1>1, <2>2, <2>3
<1>3. ASSUME NEW kv \in Pairs(l) PROVE kv \in Pairs(s)
  <2>1. PICK i \in DOMAIN l : kv = KV(l[i])
    BY <1>3 DEF Pairs
  <2>2. PICK j \in DOMAIN s : l[i] = s[j]
    BY <1>1
  <2> QED
    BY <2>1, <2>2 DEF Pairs
<1>4. ASSUME NEW kv \in Pairs(r) PROVE kv \in Pairs(s)
  <2>1. PICK i \in DOMAIN r : kv = KV(r[i])
    BY <1>4 DEF Pairs
  <2>2. PICK j \in DOMAIN s : r[i] = s[j]
    BY <1>1
  <2> QED
    BY <2>1, <2>2 DEF Pairs
<1> QED
  BY <1>2, <1>3, <1>4

\* The pair of the entry taken away is gone, and no other.
LEMMA PairsRemove ==
  ASSUME NEW S, \A y \in S : y.key \in Nat, NEW ents \in Seq(S), NEW pos \in 1 .. Len(ents),
         Ascending(ents), NEW k, k = ents[pos].key
  PROVE  Pairs(RemoveAt(ents, pos)) = Without(Pairs(ents), k)
<1> DEFINE s == RemoveAt(ents, pos)
           n == Len(ents)
<1>1. OneMore(ents, s, pos, ents[pos])
  BY RemoveOneMore
<1>2. n \in Nat /\ DOMAIN ents = 1 .. n /\ s \in Seq(S)
  BY RemoveAtFacts
<1> HIDE DEF s
<1>3. Len(s) \in Nat /\ DOMAIN s = 1 .. Len(s)
  BY <1>2
<1>4. n = Len(s) + 1 /\ \A i \in 1 .. n :
        ents[i] = IF i < pos THEN s[i] ELSE IF i = pos THEN ents[pos] ELSE s[i - 1]
  BY <1>1 DEF OneMore
<1>5. \A x : KV(x)[1] = x.key
  BY DEF KV
<1>6. ASSUME NEW kv \in Pairs(s) PROVE kv \in Pairs(ents) /\ kv[1] # k
  <2>1. PICK i \in 1 .. Len(s) : kv = KV(s[i])
    BY <1>3, <1>6 DEF Pairs
  <2>2. PICK j \in 1 .. n : j # pos /\ ents[j] = s[i]
    <3>1. CASE i < pos
      <4>1. i \in 1 .. n /\ i # pos
        BY <1>2, <1>3, <1>4, <3>1
      <4> QED
        BY <1>4, <3>1, <4>1
    <3>2. CASE ~ (i < pos)
      <4>1. PICK j : j = i + 1
        OBVIOUS
      <4>2. j \in 1 .. n /\ ~ (j < pos) /\ j # pos /\ j - 1 = i
        BY <1>2, <1>3, <1>4, <3>2, <4>1
      <4>3. ents[j] = s[i]
        BY <1>4, <4>2
      <4> QED
        BY <4>2, <4>3
    <3> QED
      BY <3>1, <3>2
  <2>3. ents[j].key # ents[pos].key
    <3>1. ents[j] \in S /\ ents[pos] \in S
      BY <1>2
    <3>2. ents[j].key \in Nat /\ ents[pos].key \in Nat
      BY <3>1
    <3>3. /\ j < pos => ents[j].key < ents[pos].key
          /\ pos < j => ents[pos].key < ents[j].key
      BY <1>2 DEF Ascending
    <3>4. j < pos \/ pos < j
      BY <1>2, <2>2
    <3> QED
      BY <3>2, <3>3, <3>4
  <2>4. kv = KV(ents[j]) /\ j \in DOMAIN ents
    BY <1>2, <2>1, <2>2
  <2> QED
    BY <1>5, <2>3, <2>4 DEF Pairs
<1>7. ASSUME NEW kv \in Pairs(ents), kv[1] # k PROVE kv \in Pairs(s)
  <2>1. PICK j \in 1 .. n : kv = KV(ents[j])
    BY <1>2, <1>7 DEF Pairs
  <2>2. j # pos
    BY <1>5, <1>7, <2>1
  <2>3. PICK i \in DOMAIN s : s[i] = ents[j]
    <3>1. CASE j < pos
      <4>1. j \in 1 .. Len(s)
        BY <1>2, <1>3, <1>4, <3>1
      <4> QED
        BY <1>3, <1>4, <3>1, <4>1
    <3>2. CASE pos < j
      <4>1. j - 1 \in 1 .. Len(s) /\ ~ (j < pos) /\ j # pos
        BY <1>2, <1>3, <1>4, <3>2
      <4> QED
        BY <1>3, <1>4, <4>1
    <3> QED
      BY <1>2, <2>2, <3>1, <3>2
  <2> QED
    BY <2>1, <2>3 DEF Pairs
<1> QED
  BY <1>6, <1>7 DEF s, Without

\* A page that is no leaf stores nothing.
LEMMA StoredInternal ==
  ASSUME NEW ps, NEW new, NEW p, p \in DOMAIN ps => ~ ps[p].leaf, NEW s, Changed(ps, new, p, s)
  PROVE  StoredIn(new) = StoredIn(ps)
<1>1. /\ DOMAIN new = DOMAIN ps
      /\ \A q \in DOMAIN ps : new[q].leaf = ps[q].leaf
      /\ \A q \in DOMAIN ps : q # p => new[q].ents = ps[q].ents
  BY DEF Changed
<1>2. ASSUME NEW kv PROVE kv \in StoredIn(new) <=> kv \in StoredIn(ps)
  BY <1>1, StoredMember
<1>3. \A kv : kv \in StoredIn(new) <=> kv \in StoredIn(ps)
  BY <1>2
<1> QED
  BY <1>3 DEF StoredIn

\* Dividing an internal page leaves what is stored alone.
LEMMA StoredInternalDivided ==
  ASSUME NEW ps, NEW new, NEW p \in DOMAIN ps, ~ ps[p].leaf, NEW l, NEW r,
         Divided(ps, new, p, l, r)
  PROVE  StoredIn(new) = StoredIn(ps)
<1>1. PICK f : f = Fresh(ps)
  OBVIOUS
<1>2. /\ DOMAIN new = DOMAIN ps \cup {f} /\ f \notin DOMAIN ps
      /\ \A q \in DOMAIN ps : new[q].leaf = ps[q].leaf
      /\ \A q \in DOMAIN ps : q # p => new[q].ents = ps[q].ents
      /\ ~ new[f].leaf
  BY <1>1 DEF Divided
<1>3. ASSUME NEW kv PROVE kv \in StoredIn(new) <=> kv \in StoredIn(ps)
  BY <1>2, StoredMember
<1>4. \A kv : kv \in StoredIn(new) <=> kv \in StoredIn(ps)
  BY <1>3
<1> QED
  BY <1>4 DEF StoredIn

\* So does growing an internal root.
LEMMA StoredInternalGrown ==
  ASSUME NEW ps, NEW new, P_ROOT \in DOMAIN ps, ~ ps[P_ROOT].leaf, NEW l, NEW r,
         Grown(ps, new, l, r)
  PROVE  StoredIn(new) = StoredIn(ps)
<1>1. PICK f, g : f = Fresh(ps) /\ g = Fresh(ps) + 1
  OBVIOUS
<1>2. /\ DOMAIN new = DOMAIN ps \cup {f, g}
      /\ \A q \in DOMAIN ps \ {P_ROOT} : new[q].leaf = ps[q].leaf /\ new[q].ents = ps[q].ents
      /\ ~ new[f].leaf /\ ~ new[g].leaf /\ ~ new[P_ROOT].leaf
  BY <1>1 DEF Grown
<1>3. ASSUME NEW kv PROVE kv \in StoredIn(new) <=> kv \in StoredIn(ps)
  BY <1>2, StoredMember
<1>4. \A kv : kv \in StoredIn(new) <=> kv \in StoredIn(ps)
  BY <1>3
<1> QED
  BY <1>4 DEF StoredIn

\* A leaf that gets one more entry.
LEMMA StoredInsert ==
  ASSUME NEW ps, NEW new, NEW p \in DOMAIN ps, ps[p].leaf, NEW s, NEW e,
         Changed(ps, new, p, s), OneMoreIn(s, ps[p].ents, e)
  PROVE  StoredIn(new) = StoredIn(ps) \cup {KV(e)}
<1>1. /\ DOMAIN new = DOMAIN ps
      /\ \A q \in DOMAIN ps : new[q].leaf = ps[q].leaf
      /\ \A q \in DOMAIN ps : q # p => new[q].ents = ps[q].ents
      /\ new[p].ents = s
  BY DEF Changed
<1>2. Pairs(s) = Pairs(ps[p].ents) \cup {KV(e)}
  BY PairsInsert
<1>3. ASSUME NEW kv PROVE kv \in StoredIn(new) <=> kv \in StoredIn(ps) \cup {KV(e)}
  BY <1>1, <1>2, StoredMember
<1>4. \A kv : kv \in StoredIn(new) <=> kv \in StoredIn(ps) \cup {KV(e)}
  BY <1>3
<1> QED
  BY <1>4 DEF StoredIn

\* A leaf that loses one, with a key no other leaf has.
LEMMA StoredRemove ==
  ASSUME NEW ps, NEW new, NEW p \in DOMAIN ps, ps[p].leaf, NEW s, NEW k,
         Changed(ps, new, p, s), Pairs(s) = Without(Pairs(ps[p].ents), k),
         \A q \in DOMAIN ps \ {p} : ps[q].leaf => \A kv \in Pairs(ps[q].ents) : kv[1] # k
  PROVE  StoredIn(new) = Without(StoredIn(ps), k)
<1>1. /\ DOMAIN new = DOMAIN ps
      /\ \A q \in DOMAIN ps : new[q].leaf = ps[q].leaf
      /\ \A q \in DOMAIN ps : q # p => new[q].ents = ps[q].ents
      /\ new[p].ents = s
  BY DEF Changed
<1>2. ASSUME NEW kv PROVE kv \in StoredIn(new) <=> kv \in StoredIn(ps) /\ kv[1] # k
  <2>1. \A x : x \in Pairs(s) <=> x \in Pairs(ps[p].ents) /\ x[1] # k
    BY DEF Without
  <2> QED
    BY <1>1, <2>1, StoredMember
<1>3. \A kv : kv \in StoredIn(new) <=> kv \in StoredIn(ps) /\ kv[1] # k
  BY <1>2
<1> QED
  BY <1>3 DEF StoredIn, Without

\* A page that is cut in two, or whose entries go below it.
LEMMA StoredDivided ==
  ASSUME NEW ps, NEW new, NEW p \in DOMAIN ps, NEW l, NEW r,
         Cut(ps[p].ents, l, r), Divided(ps, new, p, l, r)
  PROVE  StoredIn(new) = StoredIn(ps)
<1>1. PICK f : f = Fresh(ps)
  OBVIOUS
<1>2. /\ DOMAIN new = DOMAIN ps \cup {f} /\ f \notin DOMAIN ps
      /\ \A q \in DOMAIN ps : new[q].leaf = ps[q].leaf
      /\ \A q \in DOMAIN ps : q # p => new[q].ents = ps[q].ents
      /\ new[f].leaf = ps[p].leaf /\ new[p].ents = l /\ new[f].ents = r
  BY <1>1 DEF Divided
<1>3. Pairs(ps[p].ents) = Pairs(l) \cup Pairs(r)
  BY PairsCut
<1>4. ASSUME NEW kv PROVE kv \in StoredIn(new) <=> kv \in StoredIn(ps)
  BY <1>2, <1>3, StoredMember
<1>5. \A kv : kv \in StoredIn(new) <=> kv \in StoredIn(ps)
  BY <1>4
<1> QED
  BY <1>5 DEF StoredIn

\* Growing a leaf that is the root keeps what is stored.
LEMMA StoredGrown ==
  ASSUME NEW ps, NEW new, P_ROOT \in DOMAIN ps, NEW l, NEW r,
         Cut(ps[P_ROOT].ents, l, r), Grown(ps, new, l, r)
  PROVE  StoredIn(new) = StoredIn(ps)
<1>1. PICK f, g : f = Fresh(ps) /\ g = Fresh(ps) + 1
  OBVIOUS
<1>2. /\ DOMAIN new = DOMAIN ps \cup {f, g} /\ f \notin DOMAIN ps /\ g \notin DOMAIN ps
      /\ \A q \in DOMAIN ps \ {P_ROOT} : new[q].leaf = ps[q].leaf /\ new[q].ents = ps[q].ents
      /\ new[f].leaf = ps[P_ROOT].leaf /\ new[g].leaf = ps[P_ROOT].leaf /\ ~ new[P_ROOT].leaf
      /\ new[f].ents = l /\ new[g].ents = r
  BY <1>1 DEF Grown
<1>3. Pairs(ps[P_ROOT].ents) = Pairs(l) \cup Pairs(r)
  BY PairsCut
<1>4. ASSUME NEW kv PROVE kv \in StoredIn(new) <=> kv \in StoredIn(ps)
  BY <1>2, <1>3, StoredMember
<1>5. \A kv : kv \in StoredIn(new) <=> kv \in StoredIn(ps)
  BY <1>4
<1> QED
  BY <1>5 DEF StoredIn

\* At the leaf, a key the leaf does not hold is stored nowhere.
LEMMA KeyAbsent ==
  ASSUME WholeInv, NEW op, AtLeaf(op), ~ Holds(Ents, job.key)
  PROVE  \A kv \in Stored : kv[1] # job.key
<1> SUFFICES ASSUME NEW kv \in Stored, kv[1] = job.key PROVE FALSE
  OBVIOUS
<1>1. PICK p \in DOMAIN pages : pages[p].leaf /\ kv \in Pairs(pages[p].ents)
  BY StoredPairs, StoredMember
<1>2. PICK i \in DOMAIN pages[p].ents : kv = KV(pages[p].ents[i])
  BY <1>1 DEF Pairs
<1>3. pages[p].ents[i].key = job.key
  BY <1>2 DEF KV
<1>4. Holds(pages[p].ents, job.key)
  BY <1>3 DEF Holds
<1>5. p # cur
  BY <1>4 DEF Ents
<1> QED
  BY <1>1, <1>4, <1>5, DescentHolds DEF DescentExact, AtLeaf

\* No leaf but the one that was reached holds the key.
LEMMA KeyElsewhere ==
  ASSUME WholeInv, NEW op, AtLeaf(op), NEW p \in DOMAIN pages \ {cur}, pages[p].leaf,
         NEW kv \in Pairs(pages[p].ents)
  PROVE  kv[1] # job.key
<1> SUFFICES ASSUME kv[1] = job.key PROVE FALSE
  OBVIOUS
<1>1. PICK i \in DOMAIN pages[p].ents : kv = KV(pages[p].ents[i])
  BY DEF Pairs
<1>2. pages[p].ents[i].key = job.key
  BY <1>1 DEF KV
<1>3. Holds(pages[p].ents, job.key)
  BY <1>2 DEF Holds
<1> QED
  BY <1>3, DescentHolds DEF DescentExact, AtLeaf

\* A key the leaf holds is stored with a value.
LEMMA KeyPresent ==
  ASSUME WholeInv, NEW op, AtLeaf(op), Holds(Ents, job.key)
  PROVE  \E v \in Values : <<job.key, v>> \in Stored
<1>1. /\ cur \in DOMAIN pages /\ pages[cur].leaf = TRUE
      /\ Ents = pages[cur].ents /\ Ents \in Seq(LeafEntry)
  BY LeafView DEF WholeInv
<1>2. PICK i \in DOMAIN Ents : Ents[i].key = job.key
  BY DEF Holds
<1>3. PICK x \in LeafEntry : x = Ents[i]
  BY <1>1
<1>4. x.val \in Values /\ x.key = job.key
  BY <1>2, <1>3 DEF LeafEntry
<1>5. KV(x) \in Pairs(pages[cur].ents)
  BY <1>1, <1>3 DEF Pairs
<1>6. KV(x) \in Stored
  BY <1>1, <1>5, StoredPairs, StoredMember
<1> QED
  BY <1>4, <1>6 DEF KV

\* The place where a key is inserted exists only when the key is absent.
LEMMA PosAbsent ==
  ASSUME NEW ents, NEW k, NEW pos, IsLeafPos(ents, k, pos), k \in Nat,
         \A i \in DOMAIN ents : ents[i].key \in Nat
  PROVE  ~ Holds(ents, k)
  BY DEF IsLeafPos, Holds

\* A put that has found the place for its entry.
LEMMA PutNew ==
  ASSUME WholeInv, AtLeaf("put"), NEW pos, IsLeafPos(Ents, job.key, pos)
  PROVE  /\ \A kv \in Stored : kv[1] # job.key
         /\ job \in PutJob
         /\ KV(NewLeafEntry) = <<job.key, job.val>>
<1>1. Ents \in Seq(LeafEntry)
  BY LeafView DEF WholeInv
<1>2. job.key \in Nat
  BY PutView, StringsAssumption DEF WholeInv
<1>3. \A i \in DOMAIN Ents : Ents[i].key \in Nat
  BY <1>1, EntryKeys
<1>4. ~ Holds(Ents, job.key)
  BY <1>2, <1>3, PosAbsent
<1>5. \A kv \in Stored : kv[1] # job.key
  BY <1>4, KeyAbsent
<1>6. job \in PutJob
  BY DEF WholeInv, IInv, TypeOK, AtLeaf, NoJob, DelJob
<1>7. KV(NewLeafEntry) = <<job.key, job.val>>
  BY DEF KV, NewLeafEntry
<1> QED
  BY <1>5, <1>6, <1>7

\* The leaf with the new entry at its place.
LEMMA LeafGains ==
  ASSUME IInv, AtLeaf("put"), NEW pos \in 1 .. Len(Ents) + 1,
         NEW s, s = InsertAt(Ents, pos, NewLeafEntry), NEW new, Changed(pages, new, cur, s)
  PROVE  StoredIn(new) = StoredIn(pages) \cup {KV(NewLeafEntry)}
<1>1. /\ cur \in DOMAIN pages /\ pages[cur].leaf = TRUE
      /\ Ents = pages[cur].ents /\ Ents \in Seq(LeafEntry)
  BY LeafView
<1>2. NewLeafEntry \in LeafEntry
  BY PutView
<1>3. OneMoreIn(s, Ents, NewLeafEntry)
  BY <1>1, <1>2, InsertFrom, InsertKeeps DEF OneMoreIn
<1>4. PICK p, e : p = cur /\ e = NewLeafEntry
  OBVIOUS
<1>5. OneMoreIn(s, pages[p].ents, e) /\ pages[p].leaf
  BY <1>1, <1>3, <1>4
<1> QED
  BY <1>1, <1>4, <1>5, StoredInsert

\* What a split of the leaf cuts in two, and the arena it is cut in.
LEMMA LeafCut ==
  ASSUME WholeInv, AtLeaf("put"), NEW pos \in 1 .. Len(Ents) + 1,
         IsLeafPos(Ents, job.key, pos), NEW p, p = cur, NEW l, NEW r,
         Split(LeafEntry, TRUE, p, pos, NewLeafEntry, l, r)
  PROVE  \E s, mid : /\ Cut(s, l, r) /\ Changed(pages, mid, p, s)
                     /\ StoredIn(mid) = StoredIn(pages) \cup {KV(NewLeafEntry)}
<1> USE DEF WholeInv
<1>1. PICK s : s = InsertAt(Ents, pos, NewLeafEntry)
  OBVIOUS
<1>2. s \in Seq(LeafEntry) /\ \E mid : Changed(pages, mid, cur, s)
  BY <1>1, LeafMid
<1>3. PICK mid : Changed(pages, mid, cur, s)
  BY <1>2
<1>4. PICK A : A = DOMAIN pages
  OBVIOUS
<1>5. PICK lo, lv : Shape(pages, A, lo, lv) /\ KeyCall(A, lo, lv)
  BY <1>4 DEF Tree
<1>6. Ascending(s)
  BY <1>1, <1>3, <1>5, LeafInserted
<1>7. /\ l \in Seq(LeafEntry) /\ r \in Seq(LeafEntry) /\ l # <<>> /\ r # <<>>
      /\ Parts(s, l, r)
  BY <1>1 DEF Split, Ents
<1>8. Cut(s, l, r)
  BY <1>2, <1>6, <1>7, EntryKeys, CutFacts
<1>9. StoredIn(mid) = StoredIn(pages) \cup {KV(NewLeafEntry)}
  BY <1>1, <1>3, LeafGains
<1> QED
  BY <1>3, <1>8, <1>9

\* However a put makes room for its entry, the entry is all that is new.
LEMMA PutAdds ==
  ASSUME WholeInv, NEW pos,
         \/ InsertLeafEntry
         \/ SplitRootLeaf(pos) \/ SplitLeafSortedOpt(pos) \/ SplitLeafFull(pos)
  PROVE  /\ \A kv \in Stored : kv[1] # job.key
         /\ job \in PutJob
         /\ Stored' = Stored \cup {<<job.key, job.val>>}
<1>1. Stored = StoredIn(pages) /\ Stored' = StoredIn(pages')
  BY StoredPairs DEF Stored, StoredIn, Pairs, KV
<1>2. IInv
  BY DEF WholeInv
<1>3. CASE InsertLeafEntry
  <2>1. AtLeaf("put")
    BY <1>3 DEF InsertLeafEntry
  <2>2. PICK n \in 1 .. Len(Ents) + 1 :
          /\ IsLeafPos(Ents, job.key, n)
          /\ Changed(pages, pages', cur, InsertAt(Ents, n, NewLeafEntry))
    BY <1>2, <1>3, InsertView
  <2>3. PICK s, new : s = InsertAt(Ents, n, NewLeafEntry) /\ new = pages'
    OBVIOUS
  <2>4. StoredIn(new) = StoredIn(pages) \cup {KV(NewLeafEntry)}
    BY <1>2, <2>1, <2>2, <2>3, LeafGains
  <2> QED
    BY <1>1, <2>1, <2>2, <2>3, <2>4, PutNew
<1>4. CASE SplitLeafSortedOpt(pos) \/ SplitLeafFull(pos)
  <2>1. /\ AtLeaf("put") /\ IsLeafPos(Ents, job.key, pos) /\ pos \in 1 .. Len(Ents) + 1
    BY <1>2, <1>4, LeafSplitView
  <2>2. PICK p, new : p = cur /\ new = pages'
    OBVIOUS
  <2>3. PICK l, r : /\ Split(LeafEntry, TRUE, p, pos, NewLeafEntry, l, r)
                    /\ Divided(pages, new, p, l, r)
    BY <1>2, <1>4, <2>2, LeafSplitView
  <2>4. PICK s, mid : /\ Cut(s, l, r) /\ Changed(pages, mid, p, s)
                      /\ StoredIn(mid) = StoredIn(pages) \cup {KV(NewLeafEntry)}
    BY <2>1, <2>2, <2>3, LeafCut
  <2>5. pages \in Seq(AnyPage) /\ p \in DOMAIN pages
    BY <1>2, <2>1, <2>2, LeafView
  <2>6. mid[p].ents = s /\ p \in DOMAIN mid /\ Divided(mid, new, p, l, r)
    BY <2>3, <2>4, <2>5, DividedAfter
  <2>7. Cut(mid[p].ents, l, r)
    BY <2>4, <2>6
  <2>8. StoredIn(new) = StoredIn(mid)
    BY <2>6, <2>7, StoredDivided
  <2> QED
    BY <1>1, <2>1, <2>2, <2>4, <2>8, PutNew
<1>5. CASE SplitRootLeaf(pos)
  <2>1. /\ AtLeaf("put") /\ IsLeafPos(Ents, job.key, pos) /\ pos \in 1 .. Len(Ents) + 1
        /\ cur = P_ROOT
    BY <1>2, <1>5, RootLeafView DEF IsLeafPos, SplitRootLeaf, LeafFull
  <2>2. PICK new : new = pages'
    OBVIOUS
  <2>3. PICK l, r : /\ Split(LeafEntry, TRUE, P_ROOT, pos, NewLeafEntry, l, r)
                    /\ Grown(pages, new, l, r)
    BY <1>2, <1>5, <2>2, RootLeafView
  <2>4. PICK s, mid : /\ Cut(s, l, r) /\ Changed(pages, mid, P_ROOT, s)
                      /\ StoredIn(mid) = StoredIn(pages) \cup {KV(NewLeafEntry)}
    BY <2>1, <2>3, LeafCut
  <2>5. pages \in Seq(AnyPage) /\ P_ROOT \in DOMAIN pages
    BY <1>2, ArenaFacts
  <2>6. mid[P_ROOT].ents = s /\ P_ROOT \in DOMAIN mid /\ Grown(mid, new, l, r)
    BY <2>3, <2>4, <2>5, GrownAfter
  <2>7. Cut(mid[P_ROOT].ents, l, r)
    BY <2>4, <2>6
  <2>8. StoredIn(new) = StoredIn(mid)
    BY <2>6, <2>7, StoredGrown
  <2> QED
    BY <1>1, <2>1, <2>2, <2>4, <2>8, PutNew
<1> QED
  BY <1>3, <1>4, <1>5

\* A separator's way up changes nothing in the leaves.
LEMMA SepAddsNothing ==
  ASSUME WholeInv,
         \/ InsertInternalInPlace \/ SplitRootInternal
         \/ SplitInternalSortedOpt \/ SplitInternalPage
  PROVE  Stored' = Stored
<1>1. Stored = StoredIn(pages) /\ Stored' = StoredIn(pages')
  BY StoredPairs DEF Stored, StoredIn, Pairs, KV
<1>2. IInv /\ GoingUp
  BY DEF WholeInv, InsertInternalInPlace, SplitRootInternal, SplitInternalSortedOpt,
         SplitInternalPage, ParentFull
<1>3. RootTakes(sep.key)
  BY <1>2 DEF WholeInv, FitInv, GoingUp
<1>4. PICK p, new : p = Parent /\ new = pages'
  OBVIOUS
<1>5. p \in DOMAIN pages /\ ~ pages[p].leaf
  BY <1>2, <1>4, ParentView
<1>6. CASE InsertInternalInPlace
  <2>1. \E s : Changed(pages, new, p, s)
    BY <1>2, <1>4, <1>6, PlaceView
  <2> QED
    BY <1>1, <1>4, <1>5, <2>1, StoredInternal
<1>7. CASE SplitRootInternal
  <2>1. p = P_ROOT /\ \E l, r : Grown(pages, new, l, r)
    BY <1>2, <1>3, <1>4, <1>7, RootInternalView
  <2> QED
    BY <1>1, <1>4, <1>5, <2>1, StoredInternalGrown
<1>8. CASE SplitInternalSortedOpt \/ SplitInternalPage
  <2>1. \E l, r : Divided(pages, new, p, l, r)
    BY <1>2, <1>3, <1>4, <1>8, ParentSplitView
  <2> QED
    BY <1>1, <1>4, <1>5, <2>1, StoredInternalDivided
<1> QED
  BY <1>6, <1>7, <1>8

\* A del takes away the one pair that has its key.
LEMMA DelRemoves ==
  ASSUME WholeInv, DelHit
  PROVE  Stored' = Without(Stored, job.key)
<1>1. Stored = StoredIn(pages) /\ Stored' = StoredIn(pages')
  BY StoredPairs DEF Stored, StoredIn, Pairs, KV
<1>2. IInv /\ AtLeaf("del")
  BY DEF WholeInv, DelHit
<1>3. PICK p, new, k, ents : p = cur /\ new = pages' /\ k = job.key /\ ents = Ents
  OBVIOUS
<1>4. /\ p \in DOMAIN pages /\ pages[p].leaf /\ ents = pages[p].ents
      /\ ents \in Seq(LeafEntry) /\ Ascending(ents)
  <2>1. /\ p \in DOMAIN pages /\ pages[p].leaf /\ ents = pages[p].ents
        /\ ents \in Seq(LeafEntry)
    BY <1>2, <1>3, LeafView
  <2>2. PICK A : A = DOMAIN pages
    OBVIOUS
  <2>3. \E lo, lv : Shape(pages, A, lo, lv)
    BY <2>2 DEF WholeInv, Tree
  <2> QED
    BY <2>1, <2>3 DEF Shape, Ordered
<1>5. PICK i \in 1 .. Len(ents) :
        ents[i].key = k /\ Changed(pages, new, p, RemoveAt(ents, i))
  BY <1>2, <1>3, DelView
<1>6. PICK s : s = RemoveAt(ents, i)
  OBVIOUS
<1>7. Pairs(s) = Without(Pairs(ents), k)
  BY <1>4, <1>5, <1>6, EntryKeys, PairsRemove
<1>8. \A q \in DOMAIN pages \ {p} : pages[q].leaf =>
        \A kv \in Pairs(pages[q].ents) : kv[1] # k
  BY <1>2, <1>3, KeyElsewhere
<1>9. StoredIn(new) = Without(StoredIn(pages), k)
  BY <1>4, <1>5, <1>6, <1>7, <1>8, StoredRemove
<1> QED
  BY <1>1, <1>3, <1>9

-----------------------------------------------------------------------------
(* The writer implements the dictionary.                                    *)

\* While a put's separators are on their way up, its pair is the only one
\* stored under its key.
Pending ==
  pc = "up" =>
    /\ job \in PutJob
    /\ Stored = Visible \cup {<<job.key, job.val>>}

\* A writer that waits for a call has none under way.
Waiting == pc = "idle" => job = NoJob

\* The tree is whole, and a put that is on its way up has stored its pair.
DictInv == WholeInv /\ Pending /\ Waiting

\* A step of the dictionary, or none.
DictStep == [Dictionary!Next]_(Dictionary!vars)

\* On the way up the pair of the call's key is not visible yet.
LEMMA VisibleFacts ==
  /\ pc = "up" => Visible = Without(Stored, job.key)
  /\ pc # "up" => Visible = Stored
  BY DEF Visible, Without

\* The same after a step.
LEMMA VisibleNext ==
  /\ pc' = "up" => Visible' = Without(Stored', job'.key)
  /\ pc' # "up" => Visible' = Stored'
  BY DEF Visible, Without

\* A step that shows neither in the pairs nor in the call nor in the answer.
LEMMA HiddenStep ==
  ASSUME Visible' = Visible, job' = job, ret' = ret
  PROVE  DictStep
  BY DEF DictStep, Dictionary!vars

\* The call under way is answered.
LEMMA AnswerGiven ==
  ASSUME NEW r, Return(r)
  PROVE  Dictionary!Answer(r)
  BY DEF Return, Dictionary!Answer, Dictionary!NoCall, NoJob

\* A put under a key that was absent is answered with true: its pair more.
LEMMA InsertStep ==
  ASSUME job \in PutJob, \A kv \in Visible : kv[1] # job.key,
         Visible' = Visible \cup {<<job.key, job.val>>}, Return("true")
  PROVE  DictStep
<1>1. ~ Dictionary!Present
  BY DEF Dictionary!Present
<1>2. job.op = "put"
  BY DEF PutJob
<1>3. Dictionary!Insert
  BY <1>1, <1>2, AnswerGiven DEF Dictionary!Insert
<1> QED
  BY <1>3 DEF DictStep, Dictionary!Next

\* A put under a key that was absent is answered with an error.
LEMMA FailStep ==
  ASSUME job.op = "put", \A kv \in Visible : kv[1] # job.key,
         Visible' = Visible, NEW e \in {"CorruptPage", "panic"}, Return(e)
  PROVE  DictStep
<1>1. ~ Dictionary!Present
  BY DEF Dictionary!Present
<1>2. Dictionary!Fail(e)
  BY <1>1, AnswerGiven DEF Dictionary!Fail
<1> QED
  BY <1>2 DEF DictStep, Dictionary!Next

\* A put that is refused for the size of its pair.
LEMMA RefuseStep ==
  ASSUME Waiting, NEW k \in Keys, NEW v \in Values, RejectPut(k, v), Visible' = Visible
  PROVE  DictStep
<1>1. job = NoJob /\ job' = NoJob /\ ret' = "EntryTooLarge"
  BY DEF Waiting, RejectPut, Return
<1>2. <<k, v>> \in {kv \in Keys \X Values : TooLarge(kv[1], kv[2])}
  BY DEF RejectPut
<1>3. Dictionary!Refuse(k, v)
  BY <1>1, <1>2 DEF Dictionary!Refuse, Dictionary!NoCall, NoJob
<1> QED
  BY <1>3 DEF DictStep, Dictionary!Next

\* A call that begins.
LEMMA BeginStep ==
  ASSUME Waiting, Visible' = Visible,
         \/ \E k \in Keys, v \in Values : CallPut(k, v)
         \/ \E k \in Keys : CallDel(k)
  PROVE  DictStep
<1>1. CASE \E k \in Keys, v \in Values : CallPut(k, v)
  <2>1. PICK k \in Keys, v \in Values : CallPut(k, v)
    BY <1>1
  <2>2. /\ job = NoJob /\ ret' = ret
        /\ job' = [op |-> "put", key |-> k, val |-> v]
    BY <2>1 DEF CallPut, Start, Waiting
  <2>3. <<k, v>> \notin {kv \in Keys \X Values : TooLarge(kv[1], kv[2])}
    BY <2>1 DEF CallPut
  <2>4. Dictionary!BeginPut(k, v)
    BY <2>2, <2>3 DEF Dictionary!BeginPut, Dictionary!NoCall, NoJob
  <2> QED
    BY <2>4 DEF DictStep, Dictionary!Next
<1>2. CASE \E k \in Keys : CallDel(k)
  <2>1. PICK k \in Keys : CallDel(k)
    BY <1>2
  <2>2. job = NoJob /\ ret' = ret /\ job' = [op |-> "del", key |-> k]
    BY <2>1 DEF CallDel, Start, Waiting
  <2>3. Dictionary!BeginDel(k)
    BY <2>2 DEF Dictionary!BeginDel, Dictionary!NoCall, NoJob
  <2> QED
    BY <2>3 DEF DictStep, Dictionary!Next
<1> QED
  BY <1>1, <1>2

\* The calls that find their answer in the leaf.
LEMMA AnswerSteps ==
  ASSUME WholeInv, DelHit \/ DelMiss \/ PutDuplicate
  PROVE  DictStep
<1>1. pc # "up" /\ pc' # "up"
  BY DEF DelHit, DelMiss, PutDuplicate, AtLeaf, Return
<1>2. Visible = Stored /\ Visible' = Stored'
  BY <1>1, VisibleFacts, VisibleNext
<1>3. CASE DelHit
  <2>1. AtLeaf("del") /\ Holds(Ents, job.key) /\ Return("true")
    BY <1>3 DEF DelHit, Holds
  <2>2. Dictionary!Present
    BY <1>2, <2>1, KeyPresent DEF Dictionary!Present
  <2>3. Visible' = {kv \in Visible : kv[1] # job.key}
    BY <1>2, <1>3, DelRemoves DEF Without
  <2>4. Dictionary!Remove
    BY <2>1, <2>2, <2>3, AnswerGiven DEF Dictionary!Remove, AtLeaf
  <2> QED
    BY <2>4 DEF DictStep, Dictionary!Next
<1>4. CASE DelMiss
  <2>1. AtLeaf("del") /\ ~ Holds(Ents, job.key) /\ Return("false") /\ pages' = pages
    BY <1>4 DEF DelMiss
  <2>2. \A kv \in Visible : kv[1] # job.key
    BY <1>2, <2>1, KeyAbsent
  <2>3. ~ Dictionary!Present
    BY <2>2 DEF Dictionary!Present
  <2>4. Visible' = Visible
    BY <1>2, <2>1 DEF Stored
  <2>5. Dictionary!RemoveNothing
    BY <2>1, <2>3, <2>4, AnswerGiven DEF Dictionary!RemoveNothing, AtLeaf
  <2> QED
    BY <2>5 DEF DictStep, Dictionary!Next
<1>5. CASE PutDuplicate
  <2>1. AtLeaf("put") /\ Holds(Ents, job.key) /\ Return("false") /\ pages' = pages
    BY <1>5 DEF PutDuplicate
  <2>2. Dictionary!Present
    BY <1>2, <2>1, KeyPresent DEF Dictionary!Present
  <2>3. Visible' = Visible
    BY <1>2, <2>1 DEF Stored
  <2>4. Dictionary!KeepFirst
    BY <2>1, <2>2, <2>3, AnswerGiven DEF Dictionary!KeepFirst, AtLeaf
  <2> QED
    BY <2>4 DEF DictStep, Dictionary!Next
<1> QED
  BY <1>3, <1>4, <1>5

\* The puts that are done when their leaf is.
LEMMA PutDone ==
  ASSUME WholeInv, NEW pos, InsertLeafEntry \/ SplitRootLeaf(pos)
  PROVE  DictStep /\ Pending'
<1>1. /\ \A kv \in Stored : kv[1] # job.key
      /\ job \in PutJob
      /\ Stored' = Stored \cup {<<job.key, job.val>>}
  BY PutAdds
<1>2. Return("true")
  BY DEF InsertLeafEntry, SplitRootLeaf
<1>3. pc # "up" /\ pc' # "up"
  BY <1>2 DEF InsertLeafEntry, SplitRootLeaf, LeafFull, AtLeaf, Return
<1>4. Visible = Stored /\ Visible' = Stored'
  BY <1>3, VisibleFacts, VisibleNext
<1>5. DictStep
  BY <1>1, <1>2, <1>4, InsertStep
<1> QED
  BY <1>3, <1>5 DEF Pending

\* The put whose leaf cannot be split.
LEMMA PutFails ==
  ASSUME WholeInv, NEW pos, SplitLeafUnfit(pos)
  PROVE  DictStep /\ Pending'
<1>1. AtLeaf("put") /\ IsLeafPos(Ents, job.key, pos) /\ pages' = pages
  BY DEF SplitLeafUnfit, LeafFull
<1>2. \A kv \in Stored : kv[1] # job.key
  BY <1>1, PutNew
<1>3. PICK h, e : e \in Unfit(TRUE, h) /\ Return(e)
  BY DEF SplitLeafUnfit
<1>4. e \in {"CorruptPage", "panic"}
  BY <1>3 DEF Unfit
<1>5. pc # "up" /\ pc' # "up" /\ job.op = "put"
  BY <1>1, <1>3 DEF AtLeaf, Return
<1>6. Visible = Stored /\ Visible' = Stored'
  BY <1>5, VisibleFacts, VisibleNext
<1>7. Visible' = Visible
  BY <1>1, <1>6 DEF Stored
<1>8. DictStep
  BY <1>2, <1>3, <1>4, <1>5, <1>6, <1>7, FailStep
<1> QED
  BY <1>5, <1>8 DEF Pending

\* The puts that have a separator to place first.
LEMMA PutBegun ==
  ASSUME WholeInv, NEW pos, SplitLeafSortedOpt(pos) \/ SplitLeafFull(pos)
  PROVE  DictStep /\ Pending'
<1>1. /\ \A kv \in Stored : kv[1] # job.key
      /\ job \in PutJob
      /\ Stored' = Stored \cup {<<job.key, job.val>>}
  BY PutAdds
<1>2. pc # "up" /\ pc' = "up" /\ ret' = ret /\ job' = job
  BY DEF SplitLeafSortedOpt, SplitLeafFull, LeafFull, AtLeaf
<1>3. Visible = Stored /\ Visible' = Without(Stored', job'.key)
  BY <1>2, VisibleFacts, VisibleNext
<1>4. Without(Stored', job.key) = Stored
  <2>1. <<job.key, job.val>>[1] = job.key
    OBVIOUS
  <2> QED
    BY <1>1, <2>1 DEF Without
<1>5. Visible' = Visible
  BY <1>2, <1>3, <1>4
<1>6. DictStep
  BY <1>2, <1>5, HiddenStep
<1>7. Pending'
  BY <1>1, <1>2, <1>3, <1>5 DEF Pending
<1> QED
  BY <1>6, <1>7

\* The put that has placed its last separator.
LEMMA SepPlaced ==
  ASSUME DictInv, InsertInternalInPlace \/ SplitRootInternal
  PROVE  DictStep /\ Pending'
<1>1. Stored' = Stored
  BY SepAddsNothing DEF DictInv
<1>2. Return("true")
  BY DEF InsertInternalInPlace, SplitRootInternal
<1>3. pc = "up" /\ pc' # "up"
  BY <1>2 DEF InsertInternalInPlace, SplitRootInternal, ParentFull, GoingUp, Return
<1>4. /\ Visible = Without(Stored, job.key) /\ Visible' = Stored'
      /\ job \in PutJob /\ Stored = Visible \cup {<<job.key, job.val>>}
  BY <1>3, VisibleFacts, VisibleNext DEF DictInv, Pending
<1>5. \A kv \in Visible : kv[1] # job.key
  BY <1>4 DEF Without
<1>6. Visible' = Visible \cup {<<job.key, job.val>>}
  BY <1>1, <1>4
<1>7. DictStep
  BY <1>2, <1>4, <1>5, <1>6, InsertStep
<1> QED
  BY <1>3, <1>7 DEF Pending

\* The put that has one more to place.
LEMMA SepPassedOn ==
  ASSUME DictInv, SplitInternalSortedOpt \/ SplitInternalPage
  PROVE  DictStep /\ Pending'
<1>1. Stored' = Stored
  BY SepAddsNothing DEF DictInv
<1>2. pc = "up" /\ pc' = "up" /\ ret' = ret /\ job' = job
  BY DEF SplitInternalSortedOpt, SplitInternalPage, ParentFull, GoingUp, Ascend
<1>3. /\ Visible = Without(Stored, job.key) /\ Visible' = Without(Stored', job'.key)
      /\ job \in PutJob /\ Stored = Visible \cup {<<job.key, job.val>>}
  BY <1>2, VisibleFacts, VisibleNext DEF DictInv, Pending
<1>4. Visible' = Visible
  BY <1>1, <1>2, <1>3
<1>5. DictStep
  BY <1>2, <1>4, HiddenStep
<1>6. Pending'
  BY <1>1, <1>2, <1>3, <1>4 DEF Pending
<1> QED
  BY <1>5, <1>6

\* Every step is one of the dictionary's, or shows nothing.
LEMMA NextDict ==
  ASSUME DictInv, [Next]_vars, ~ SplitInternalUnfit
  PROVE  DictStep /\ Pending'
<1> USE DEF DictInv
<1>1. CASE UNCHANGED vars
  <2>1. Stored' = Stored /\ Visible' = Visible /\ job' = job /\ ret' = ret
    BY <1>1 DEF vars, Stored, Visible
  <2> QED
    BY <1>1, <2>1, HiddenStep DEF vars, Pending
<1>2. ASSUME pc # "up", pc' # "up", pages' = pages PROVE Visible' = Visible /\ Pending'
  BY <1>2 DEF Visible, Stored, Pending
<1>3. ASSUME NEW k \in Keys, NEW v \in Values, RejectPut(k, v) PROVE DictStep /\ Pending'
  <2>1. pc # "up" /\ pc' # "up" /\ pages' = pages
    BY <1>3 DEF RejectPut, Return
  <2> QED
    BY <1>2, <1>3, <2>1, RefuseStep
<1>4. ASSUME \/ \E k \in Keys, v \in Values : CallPut(k, v)
             \/ \E k \in Keys : CallDel(k)
      PROVE  DictStep /\ Pending'
  <2>1. pc # "up" /\ pc' # "up" /\ pages' = pages
    BY <1>4 DEF CallPut, CallDel, Start
  <2> QED
    BY <1>2, <1>4, <2>1, BeginStep
<1>5. CASE Descend
  <2>1. pc # "up" /\ pc' # "up" /\ pages' = pages /\ job' = job /\ ret' = ret
    BY <1>5 DEF Descend
  <2> QED
    BY <1>2, <2>1, HiddenStep
<1>6. CASE DelHit \/ DelMiss \/ PutDuplicate
  <2>1. pc' # "up"
    BY <1>6 DEF DelHit, DelMiss, PutDuplicate, Return
  <2> QED
    BY <1>6, <2>1, AnswerSteps DEF Pending
<1>7. ASSUME NEW pos, InsertLeafEntry \/ SplitRootLeaf(pos) PROVE DictStep /\ Pending'
  BY <1>7, PutDone
<1>8. ASSUME NEW pos, SplitLeafSortedOpt(pos) \/ SplitLeafFull(pos)
      PROVE  DictStep /\ Pending'
  BY <1>8, PutBegun
<1>9. ASSUME NEW pos, SplitLeafUnfit(pos) PROVE DictStep /\ Pending'
  BY <1>9, PutFails
<1>10. CASE InsertInternalInPlace \/ SplitRootInternal
  BY <1>10, SepPlaced
<1>11. CASE SplitInternalSortedOpt \/ SplitInternalPage
  BY <1>11, SepPassedOn
<1> QED
  BY <1>1, <1>3, <1>4, <1>5, <1>6, <1>7, <1>8, <1>9, <1>10, <1>11 DEF Next, Call, Step

\* A writer that waits again has answered the call it had.
LEMMA NextWaiting ==
  ASSUME Waiting, [Next]_vars
  PROVE  Waiting'
<1>1. ASSUME NEW r, Return(r) PROVE Waiting'
  BY <1>1 DEF Return, Waiting
<1>2. ASSUME pc' # "idle" PROVE Waiting'
  BY <1>2 DEF Waiting
<1>3. CASE UNCHANGED vars
  BY <1>3 DEF vars, Waiting
<1>4. CASE Call
  BY <1>1, <1>2, <1>4 DEF Call, RejectPut, CallPut, CallDel, Start
<1>5. CASE DelHit \/ DelMiss \/ PutDuplicate \/ InsertLeafEntry
  BY <1>1, <1>5 DEF DelHit, DelMiss, PutDuplicate, InsertLeafEntry
<1>6. ASSUME NEW pos, SplitRootLeaf(pos) \/ SplitLeafUnfit(pos) PROVE Waiting'
  BY <1>1, <1>6 DEF SplitRootLeaf, SplitLeafUnfit
<1>7. CASE InsertInternalInPlace \/ SplitRootInternal \/ SplitInternalUnfit
  BY <1>1, <1>7 DEF InsertInternalInPlace, SplitRootInternal, SplitInternalUnfit
<1>8. CASE Descend
  BY <1>2, <1>8 DEF Descend
<1>9. ASSUME NEW pos, SplitLeafSortedOpt(pos) \/ SplitLeafFull(pos) PROVE Waiting'
  BY <1>2, <1>9 DEF SplitLeafSortedOpt, SplitLeafFull
<1>10. CASE SplitInternalSortedOpt \/ SplitInternalPage
  BY <1>2, <1>10 DEF SplitInternalSortedOpt, SplitInternalPage, ParentFull, GoingUp, Ascend
<1> QED
  BY <1>3, <1>4, <1>5, <1>6, <1>7, <1>8, <1>9, <1>10 DEF Next, Step

\* The first dictionary is empty, and nothing is under way.
LEMMA InitDict == Init => Dictionary!Init /\ Pending /\ Waiting
<1> SUFFICES ASSUME Init PROVE Dictionary!Init /\ Pending /\ Waiting
  OBVIOUS
<1>1. /\ pages = <<Page(TRUE, P_INVALID, P_INVALID, <<>>)>>
      /\ pc = "idle" /\ ret = "none" /\ job = NoJob
  BY DEF Init
<1>2. DOMAIN pages = {P_ROOT} /\ DOMAIN pages[P_ROOT].ents = {}
  BY <1>1 DEF Page, P_ROOT
<1>3. Stored = {}
  BY <1>2 DEF Stored
<1> QED
  BY <1>1, <1>3
     DEF Visible, Pending, Waiting, Dictionary!Init, Dictionary!NoCall, NoJob

\* As long as every separator has a place, every call of put and del answers
\* and changes what the same call of a dictionary does.
THEOREM DictCorrect ==
  ASSUME HalfSeps
  PROVE  Spec => ImplementsDict
<1>1. Init => Dictionary!Init /\ DictInv
  BY InitDict, InitEstablishes, InitFits, InitTree DEF WholeInv, DictInv
<1>2. DictInv /\ [Next]_vars => DictInv' /\ [Dictionary!Next]_(Dictionary!vars)
  <2> SUFFICES ASSUME DictInv, [Next]_vars
               PROVE  DictInv' /\ [Dictionary!Next]_(Dictionary!vars)
    OBVIOUS
  <2>1. ~ SplitInternalUnfit
    BY SepNeverUnfit DEF DictInv, WholeInv
  <2>2. WholeInv'
    BY <2>1, WholeStep DEF DictInv
  <2>3. DictStep /\ Pending'
    BY <2>1, NextDict
  <2>4. Waiting'
    BY NextWaiting DEF DictInv
  <2> QED
    BY <2>2, <2>3, <2>4 DEF DictInv, DictStep
<1>3. Spec => Dictionary!Spec
  BY <1>1, <1>2, PTL DEF Spec, Dictionary!Spec
<1> QED
  BY <1>3 DEF ImplementsDict

-----------------------------------------------------------------------------
(* The next links of a level and the separators of the level above it.     *)

\* The page that page q refers to first.
FirstChild(ps, q) == ps[q].ents[1].child

\* The page that the level of q refers to after slot i of q.
ChildAfter(ps, q, i) ==
  IF i < Len(ps[q].ents) THEN ps[q].ents[i + 1].child
  ELSE IF ps[q].next = P_INVALID THEN P_INVALID
  ELSE FirstChild(ps, ps[q].next)

\* What follows a page is a page of its type; the root is alone.
Kinds(ps) ==
  /\ P_ROOT \in DOMAIN ps /\ ps[P_ROOT].next = P_INVALID
  /\ \A p \in DOMAIN ps : ps[p].next # P_INVALID =>
       /\ ps[p].next \in DOMAIN ps /\ ps[p].next # P_ROOT
       /\ ps[ps[p].next].leaf = ps[p].leaf

\* Separators refer to pages.
ChildrenIn(ps) ==
  \A q \in DOMAIN ps : ~ ps[q].leaf =>
    \A i \in DOMAIN ps[q].ents : ps[q].ents[i].child \in DOMAIN ps

\* The page that ends what hangs from the separator of d: x for c, as x has
\* no separator yet, d itself for any other.
EndOf(d, c, x) == IF d = c THEN x ELSE d

\* The next links lead from each child to the child of the next separator.
Follows(ps, c, x) ==
  \A q \in DOMAIN ps : ~ ps[q].leaf => \A i \in DOMAIN ps[q].ents :
    ps[EndOf(ps[q].ents[i].child, c, x)].next = ChildAfter(ps, q, i)

\* The next links of every level lead from each page to the one after it, with
\* no page waiting for its separator.
InOrder(ps) == Follows(ps, P_INVALID, P_INVALID)

\* No page of ps has got another next link.
NextSame(ps, new) == \A q \in DOMAIN ps : new[q].next = ps[q].next

\* No internal page of ps has got another first child.
FirstSame(ps, new) ==
  \A q \in DOMAIN ps : ~ ps[q].leaf => FirstChild(new, q) = FirstChild(ps, q)

\* Every page is numbered from one, as are its entries.
LEMMA SlotFacts ==
  ASSUME NEW ps \in Seq(AnyPage)
  PROVE  /\ P_INVALID \notin DOMAIN ps
         /\ \A q \in DOMAIN ps : /\ Len(ps[q].ents) \in Nat
                                 /\ DOMAIN ps[q].ents = 1 .. Len(ps[q].ents)
<1>1. DOMAIN ps = 1 .. Len(ps)
  OBVIOUS
<1>2. P_INVALID \notin DOMAIN ps
  BY <1>1 DEF P_INVALID
<1>3. ASSUME NEW q \in DOMAIN ps
      PROVE  Len(ps[q].ents) \in Nat /\ DOMAIN ps[q].ents = 1 .. Len(ps[q].ents)
  <2>1. ps[q].ents \in Seq(EntryOf(ps[q].leaf))
    BY EntsFacts
  <2> QED
    BY <2>1
<1> QED
  BY <1>2, <1>3

\* What comes after a slot does not change with the other pages, as long as
\* their first children stay.
LEMMA AfterSame ==
  ASSUME NEW ps, NEW new, Kinds(ps), FirstSame(ps, new),
         NEW q \in DOMAIN ps, ~ ps[q].leaf,
         new[q].ents = ps[q].ents, new[q].next = ps[q].next, NEW i
  PROVE  ChildAfter(new, q, i) = ChildAfter(ps, q, i)
<1>1. CASE ps[q].next = P_INVALID
  BY <1>1 DEF ChildAfter
<1>2. CASE ps[q].next # P_INVALID
  <2>1. ps[q].next \in DOMAIN ps /\ ~ ps[ps[q].next].leaf
    BY <1>2 DEF Kinds
  <2>2. FirstChild(new, ps[q].next) = FirstChild(ps, ps[q].next)
    BY <2>1 DEF FirstSame
  <2> QED
    BY <2>2 DEF ChildAfter
<1> QED
  BY <1>1, <1>2

\* The types of an arena of which some page has other entries.
LEMMA KindsChanged ==
  ASSUME NEW ps, NEW new, NEW p, NEW s, Kinds(ps), Changed(ps, new, p, s),
         NextSame(ps, new)
  PROVE  Kinds(new)
  BY DEF Kinds, Changed, NextSame

\* A change to the entries of a leaf.
LEMMA LeafOrder ==
  ASSUME NEW ps, NEW new, NEW p \in DOMAIN ps, NEW s,
         Kinds(ps), ChildrenIn(ps), Changed(ps, new, p, s), NextSame(ps, new),
         ps[p].leaf, NEW c, NEW x, x = c \/ x \in DOMAIN ps, Follows(ps, c, x)
  PROVE  Follows(new, c, x)
<1>1. /\ DOMAIN new = DOMAIN ps
      /\ \A q \in DOMAIN ps : /\ new[q].leaf = ps[q].leaf /\ new[q].next = ps[q].next
                              /\ q # p => new[q].ents = ps[q].ents
  BY DEF Changed, NextSame
<1>2. FirstSame(ps, new)
  BY <1>1 DEF FirstSame, FirstChild
<1> SUFFICES ASSUME NEW q \in DOMAIN ps, ~ ps[q].leaf, NEW i \in DOMAIN ps[q].ents
             PROVE  new[EndOf(ps[q].ents[i].child, c, x)].next = ChildAfter(new, q, i)
  BY <1>1 DEF Follows
<1>3. ChildAfter(new, q, i) = ChildAfter(ps, q, i)
  BY <1>1, <1>2, AfterSame
<1>4. EndOf(ps[q].ents[i].child, c, x) \in DOMAIN ps
  BY DEF EndOf, ChildrenIn
<1>5. ps[EndOf(ps[q].ents[i].child, c, x)].next = ChildAfter(ps, q, i)
  BY DEF Follows
<1> QED
  BY <1>1, <1>3, <1>4, <1>5

-----------------------------------------------------------------------------
(* A page that is divided, and the separator that finds its place.         *)

\* f comes after p on its level.
NextSplit(ps, new, p, f) ==
  /\ new[p].next = f
  /\ new[f].next = ps[p].next
  /\ \A q \in DOMAIN ps : q # p => new[q].next = ps[q].next

\* Dividing a page keeps each level of one kind.
LEMMA KindsDivided ==
  ASSUME NEW ps, NEW new, NEW p \in DOMAIN ps, p # P_ROOT, NEW l, NEW r,
         NEW f, f = Fresh(ps), Kinds(ps), Divided(ps, new, p, l, r),
         NextSplit(ps, new, p, f)
  PROVE  Kinds(new)
<1>1. /\ DOMAIN new = DOMAIN ps \cup {f} /\ f \notin DOMAIN ps
      /\ \A q \in DOMAIN ps : new[q].leaf = ps[q].leaf
      /\ new[f].leaf = ps[p].leaf
  BY DEF Divided
<1>2. /\ new[p].next = f /\ new[f].next = ps[p].next
      /\ \A q \in DOMAIN ps : q # p => new[q].next = ps[q].next
  BY DEF NextSplit
<1>3. P_ROOT \in DOMAIN new /\ new[P_ROOT].next = P_INVALID /\ f # P_ROOT
  BY <1>1, <1>2 DEF Kinds
<1>4. ASSUME NEW q \in DOMAIN new, new[q].next # P_INVALID
      PROVE  /\ new[q].next \in DOMAIN new /\ new[q].next # P_ROOT
             /\ new[new[q].next].leaf = new[q].leaf
  <2>1. CASE q = p
    BY <1>1, <1>2, <1>3, <2>1
  <2>2. CASE q = f
    BY <1>1, <1>2, <1>4, <2>2 DEF Kinds
  <2>3. CASE q \notin {p, f}
    BY <1>1, <1>2, <1>4, <2>3 DEF Kinds
  <2> QED
    BY <2>1, <2>2, <2>3
<1> QED
  BY <1>3, <1>4 DEF Kinds

\* A page that is divided: the new page has no separator yet, and comes
\* after the old one.
LEMMA DividedOrder ==
  ASSUME NEW ps \in Seq(AnyPage), NEW new \in Seq(AnyPage), NEW p \in DOMAIN ps,
         NEW l, NEW r, NEW f, f = Fresh(ps),
         Kinds(ps), ChildrenIn(ps), InOrder(ps), Divided(ps, new, p, l, r),
         NextSplit(ps, new, p, f), NEW n \in Nat, NEW m \in Nat,
         n = Len(l), m = Len(r), n # 0, m # 0, Parts(ps[p].ents, l, r)
  PROVE  Follows(new, p, f)
<1>1. /\ DOMAIN new = DOMAIN ps \cup {f} /\ f \notin DOMAIN ps
      /\ \A q \in DOMAIN ps : /\ new[q].leaf = ps[q].leaf
                              /\ q # p => new[q].ents = ps[q].ents
      /\ new[p].ents = l
      /\ new[f].leaf = ps[p].leaf /\ new[f].ents = r
  BY DEF Divided
<1>2. /\ new[p].next = f /\ new[f].next = ps[p].next
      /\ \A q \in DOMAIN ps : q # p => new[q].next = ps[q].next
  BY DEF NextSplit
<1>3. /\ P_INVALID \notin DOMAIN ps /\ f # P_INVALID
      /\ \A q \in DOMAIN ps : /\ Len(ps[q].ents) \in Nat
                              /\ DOMAIN ps[q].ents = 1 .. Len(ps[q].ents)
      /\ \A q \in DOMAIN new : DOMAIN new[q].ents = 1 .. Len(new[q].ents)
  BY <1>1, SlotFacts
<1>4. /\ Len(ps[p].ents) = n + m
      /\ \A i \in 1 .. n : l[i] = ps[p].ents[i]
      /\ \A i \in 1 .. m : r[i] = ps[p].ents[n + i]
  BY DEF Parts
<1>5. FirstSame(ps, new)
  <2>1. l[1] = ps[p].ents[1]
    BY <1>4
  <2> QED
    BY <1>1, <2>1 DEF FirstSame, FirstChild
<1>6. ASSUME NEW q \in DOMAIN ps, ~ ps[q].leaf, NEW i \in DOMAIN ps[q].ents
      PROVE  new[EndOf(ps[q].ents[i].child, p, f)].next = ChildAfter(ps, q, i)
  <2>1. PICK d : d = ps[q].ents[i].child
    OBVIOUS
  <2>2. d \in DOMAIN ps
    BY <1>6, <2>1 DEF ChildrenIn
  <2>3. ps[d].next = ChildAfter(ps, q, i)
    <3>1. EndOf(d, P_INVALID, P_INVALID) = d
      BY DEF EndOf
    <3> QED
      BY <1>6, <2>1, <3>1 DEF InOrder, Follows
  <2>4. CASE d = p
    BY <1>2, <2>1, <2>3, <2>4 DEF EndOf
  <2>5. CASE d # p
    BY <1>2, <2>1, <2>2, <2>3, <2>5 DEF EndOf
  <2> QED
    BY <2>4, <2>5
<1>7. ASSUME NEW q \in DOMAIN new, ~ new[q].leaf, NEW i \in DOMAIN new[q].ents
      PROVE  new[EndOf(new[q].ents[i].child, p, f)].next = ChildAfter(new, q, i)
  <2>1. CASE q \notin {p, f}
    <3>1. q \in DOMAIN ps /\ ~ ps[q].leaf /\ new[q].ents = ps[q].ents
          /\ new[q].next = ps[q].next
      BY <1>1, <1>2, <1>7, <2>1
    <3>2. ChildAfter(new, q, i) = ChildAfter(ps, q, i)
      BY <1>5, <3>1, AfterSame
    <3> QED
      BY <1>6, <1>7, <3>1, <3>2
  <2>2. CASE q = p
    <3>1. ~ ps[p].leaf /\ i \in 1 .. n /\ i \in DOMAIN ps[p].ents
      BY <1>1, <1>3, <1>4, <1>7, <2>2
    <3>2. new[q].ents[i] = ps[p].ents[i]
      BY <1>1, <1>4, <2>2, <3>1
    <3>3. ChildAfter(ps, p, i) = ps[p].ents[i + 1].child
      BY <1>4, <3>1 DEF ChildAfter
    <3>4. ChildAfter(new, p, i) = ps[p].ents[i + 1].child
      <4>1. CASE i < n
        <5>1. PICK j : j = i + 1
          OBVIOUS
        <5>2. j \in 1 .. n
          BY <3>1, <4>1, <5>1
        <5>3. ChildAfter(new, p, i) = l[j].child
          BY <1>1, <4>1, <5>1 DEF ChildAfter
        <5> QED
          BY <1>4, <5>1, <5>2, <5>3
      <4>2. CASE i = n
        <5>1. ChildAfter(new, p, i) = r[1].child
          <6>1. ~ (i < n)
            BY <4>2
          <6> QED
            BY <1>1, <1>2, <1>3, <6>1 DEF ChildAfter, FirstChild
        <5>2. 1 \in 1 .. m /\ i + 1 = n + 1
          BY <4>2
        <5> QED
          BY <1>4, <5>1, <5>2
      <4>3. i < n \/ i = n
        BY <3>1
      <4> QED
        BY <4>1, <4>2, <4>3
    <3> QED
      BY <1>6, <2>2, <3>1, <3>2, <3>3, <3>4
  <2>3. CASE q = f
    <3>1. PICK j : j = n + i
      OBVIOUS
    <3>2. ~ ps[p].leaf /\ i \in 1 .. m /\ j \in DOMAIN ps[p].ents
      BY <1>1, <1>3, <1>4, <1>7, <2>3, <3>1
    <3>3. new[q].ents[i] = ps[p].ents[j]
      BY <1>1, <1>4, <2>3, <3>1, <3>2
    <3>4. ChildAfter(new, f, i) = ChildAfter(ps, p, j)
      <4>1. CASE i < m
        <5>1. ChildAfter(new, f, i) = r[i + 1].child
          BY <1>1, <4>1 DEF ChildAfter
        <5>2. i + 1 \in 1 .. m /\ j + 1 = n + (i + 1) /\ j < n + m
          <6>1. i \in 1 .. m
            BY <3>2
          <6>2. i + 1 \in 1 .. m
            BY <4>1, <6>1
          <6>3. j + 1 = n + (i + 1)
            BY <3>1, <6>1
          <6>4. j < n + m
            BY <3>1, <4>1, <6>1
          <6> QED
            BY <6>2, <6>3, <6>4
        <5>3. ChildAfter(ps, p, j) = ps[p].ents[j + 1].child
          BY <1>4, <5>2 DEF ChildAfter
        <5> QED
          BY <1>4, <5>1, <5>2, <5>3
      <4>2. CASE i = m
        <5>1. j = n + m /\ ~ (i < m) /\ ~ (j < n + m)
          BY <3>1, <4>2
        <5>2. CASE ps[p].next = P_INVALID
          BY <1>1, <1>2, <1>4, <5>1, <5>2 DEF ChildAfter
        <5>3. CASE ps[p].next # P_INVALID
          <6>1. ps[p].next \in DOMAIN ps /\ ~ ps[ps[p].next].leaf
            BY <3>2, <5>3 DEF Kinds
          <6>2. FirstChild(new, ps[p].next) = FirstChild(ps, ps[p].next)
            BY <1>5, <6>1 DEF FirstSame
          <6>3. ChildAfter(new, f, i) = FirstChild(new, ps[p].next)
            BY <1>1, <1>2, <5>1, <5>3 DEF ChildAfter
          <6>4. ChildAfter(ps, p, j) = FirstChild(ps, ps[p].next)
            BY <1>4, <5>1, <5>3 DEF ChildAfter
          <6> QED
            BY <6>2, <6>3, <6>4
        <5> QED
          BY <5>2, <5>3
      <4> QED
        BY <3>2, <4>1, <4>2
    <3> QED
      BY <1>6, <2>3, <3>2, <3>3, <3>4
  <2> QED
    BY <2>1, <2>2, <2>3
<1> QED
  BY <1>7 DEF Follows

\* Slot n of p alone refers to c.
OnlySlot(ps, p, n, c) ==
  /\ n \in DOMAIN ps[p].ents /\ ps[p].ents[n].child = c
  /\ \A q \in DOMAIN ps : ~ ps[q].leaf => \A i \in DOMAIN ps[q].ents :
       ps[q].ents[i].child = c => q = p /\ i = n

\* A separator that finds its place next to the one of the page before.
LEMMA PlaceOrder ==
  ASSUME NEW ps \in Seq(AnyPage), NEW new \in Seq(AnyPage), NEW p \in DOMAIN ps, ~ ps[p].leaf,
         NEW s, NEW n, NEW e, NEW c, NEW x,
         Kinds(ps), Changed(ps, new, p, s), NextSame(ps, new),
         OneMore(s, ps[p].ents, n + 1, e), OnlySlot(ps, p, n, c), e.child = x,
         Follows(ps, c, x), ps[c].next = x, x \in DOMAIN ps, c \in DOMAIN ps,
         ChildrenIn(ps)
  PROVE  InOrder(new)
<1>1. /\ DOMAIN new = DOMAIN ps
      /\ \A q \in DOMAIN ps : /\ new[q].leaf = ps[q].leaf /\ new[q].next = ps[q].next
                              /\ q # p => new[q].ents = ps[q].ents
      /\ new[p].ents = s
  BY DEF Changed, NextSame
<1>2. /\ P_INVALID \notin DOMAIN ps
      /\ \A q \in DOMAIN ps : /\ Len(ps[q].ents) \in Nat
                              /\ DOMAIN ps[q].ents = 1 .. Len(ps[q].ents)
      /\ \A q \in DOMAIN new : DOMAIN new[q].ents = 1 .. Len(new[q].ents)
  BY SlotFacts
<1>3. PICK m \in Nat : m = Len(ps[p].ents) /\ DOMAIN ps[p].ents = 1 .. m
  BY <1>2
<1>4. n \in 1 .. m /\ ps[p].ents[n].child = c
  BY <1>3 DEF OnlySlot
<1>5. /\ Len(s) = m + 1
      /\ \A i \in 1 .. m + 1 :
           s[i] = IF i < n + 1 THEN ps[p].ents[i]
                  ELSE IF i = n + 1 THEN e ELSE ps[p].ents[i - 1]
  BY <1>3 DEF OneMore
<1>6. /\ \A i \in 1 .. n : s[i] = ps[p].ents[i]
      /\ s[n + 1] = e
      /\ \A i \in 1 .. m : n < i => s[i + 1] = ps[p].ents[i]
  <2>1. ASSUME NEW i \in 1 .. n PROVE s[i] = ps[p].ents[i]
    <3>1. i \in 1 .. m + 1 /\ i < n + 1
      BY <1>4
    <3> QED
      BY <1>5, <3>1
  <2>2. s[n + 1] = e
    <3>1. n + 1 \in 1 .. m + 1 /\ ~ (n + 1 < n + 1)
      BY <1>4
    <3> QED
      BY <1>5, <3>1
  <2>3. ASSUME NEW i \in 1 .. m, n < i PROVE s[i + 1] = ps[p].ents[i]
    <3>1. PICK j : j = i + 1
      OBVIOUS
    <3>2. j \in 1 .. m + 1 /\ ~ (j < n + 1) /\ j # n + 1 /\ j - 1 = i
      BY <1>4, <2>3, <3>1
    <3> QED
      BY <1>5, <3>1, <3>2
  <2> QED
    BY <2>1, <2>2, <2>3
<1>7. FirstSame(ps, new)
  <2>1. s[1] = ps[p].ents[1]
    BY <1>4, <1>6
  <2> QED
    BY <1>1, <2>1 DEF FirstSame, FirstChild
<1>8. ASSUME NEW q \in DOMAIN ps, ~ ps[q].leaf, NEW i \in DOMAIN ps[q].ents
      PROVE  /\ q # p \/ i # n => new[ps[q].ents[i].child].next = ChildAfter(ps, q, i)
             /\ q = p /\ i = n => new[x].next = ChildAfter(ps, q, i)
  <2>1. PICK d : d = ps[q].ents[i].child
    OBVIOUS
  <2>2. d \in DOMAIN ps
    BY <1>8, <2>1 DEF ChildrenIn
  <2>3. ps[EndOf(d, c, x)].next = ChildAfter(ps, q, i)
    BY <1>8, <2>1 DEF Follows
  <2>4. ASSUME q # p \/ i # n PROVE new[d].next = ChildAfter(ps, q, i)
    <3>1. d # c
      BY <1>8, <2>1, <2>4 DEF OnlySlot
    <3> QED
      BY <1>1, <2>2, <2>3, <3>1 DEF EndOf
  <2>5. ASSUME q = p, i = n PROVE new[x].next = ChildAfter(ps, q, i)
    <3>1. d = c
      BY <1>4, <2>1, <2>5
    <3> QED
      BY <1>1, <2>3, <3>1 DEF EndOf
  <2> QED
    BY <2>1, <2>4, <2>5
<1>9. ASSUME NEW j \in 1 .. m, n < j \/ j = n, NEW k, k = j + 1
      PROVE  ChildAfter(new, p, k) = ChildAfter(ps, p, j)
  <2>1. CASE j < m
    <3>1. PICK i : i = j + 1
      OBVIOUS
    <3>2. i \in 1 .. m /\ n < i /\ k < m + 1 /\ k = i
      BY <1>4, <1>9, <2>1, <3>1
    <3>3. ChildAfter(new, p, k) = s[i + 1].child
      BY <1>1, <1>5, <3>2 DEF ChildAfter
    <3>4. ChildAfter(ps, p, j) = ps[p].ents[i].child
      BY <1>3, <2>1, <3>1 DEF ChildAfter
    <3> QED
      BY <1>6, <3>2, <3>3, <3>4
  <2>2. CASE j = m
    <3>1. ~ (k < m + 1) /\ ~ (j < m)
      BY <1>9, <2>2
    <3>2. CASE ps[p].next = P_INVALID
      BY <1>1, <1>3, <1>5, <3>1, <3>2 DEF ChildAfter
    <3>3. CASE ps[p].next # P_INVALID
      <4>1. ps[p].next \in DOMAIN ps /\ ~ ps[ps[p].next].leaf
        BY <3>3 DEF Kinds
      <4>2. FirstChild(new, ps[p].next) = FirstChild(ps, ps[p].next)
        BY <1>7, <4>1 DEF FirstSame
      <4>3. ChildAfter(new, p, k) = FirstChild(new, ps[p].next)
        BY <1>1, <1>5, <3>1, <3>3 DEF ChildAfter
      <4>4. ChildAfter(ps, p, j) = FirstChild(ps, ps[p].next)
        BY <1>3, <3>1, <3>3 DEF ChildAfter
      <4> QED
        BY <4>2, <4>3, <4>4
    <3> QED
      BY <3>2, <3>3
  <2>3. j < m \/ j = m
    OBVIOUS
  <2> QED
    BY <2>1, <2>2, <2>3
<1>10. ASSUME NEW q \in DOMAIN ps, ~ ps[q].leaf, NEW i \in DOMAIN new[q].ents
       PROVE  new[new[q].ents[i].child].next = ChildAfter(new, q, i)
  <2>1. CASE q # p
    <3>1. new[q].ents = ps[q].ents /\ new[q].next = ps[q].next
      BY <1>1, <2>1
    <3>2. ChildAfter(new, q, i) = ChildAfter(ps, q, i)
      BY <1>7, <1>10, <3>1, AfterSame
    <3> QED
      BY <1>8, <1>10, <2>1, <3>1, <3>2
  <2>2. CASE q = p
    <3>1. i \in 1 .. m + 1
      BY <1>1, <1>2, <1>5, <1>10, <2>2
    <3>2. CASE i < n
      <4>1. i \in 1 .. m /\ i \in 1 .. n /\ i + 1 \in 1 .. n /\ i < m /\ i < m + 1 /\ i # n
        BY <1>4, <3>1, <3>2
      <4>2. new[p].ents[i] = ps[p].ents[i]
        BY <1>1, <1>6, <4>1
      <4>3. ChildAfter(new, p, i) = s[i + 1].child
        BY <1>1, <1>5, <4>1 DEF ChildAfter
      <4>4. ChildAfter(ps, p, i) = ps[p].ents[i + 1].child
        BY <1>3, <4>1 DEF ChildAfter
      <4>5. ChildAfter(new, p, i) = ChildAfter(ps, p, i)
        BY <1>6, <4>1, <4>3, <4>4
      <4>6. i \in DOMAIN ps[p].ents
        BY <1>3, <4>1
      <4>7. new[ps[p].ents[i].child].next = ChildAfter(ps, p, i)
        BY <1>8, <4>1, <4>6
      <4> QED
        BY <2>2, <4>2, <4>5, <4>7
    <3>3. CASE i = n
      <4>1. i \in 1 .. n /\ i < m + 1
        BY <1>4, <3>3
      <4>2. new[p].ents[i].child = c
        BY <1>1, <1>4, <1>6, <3>3, <4>1
      <4>3. ChildAfter(new, p, i) = x
        BY <1>1, <1>5, <1>6, <3>3, <4>1 DEF ChildAfter
      <4> QED
        BY <1>1, <2>2, <4>2, <4>3
    <3>4. CASE i = n + 1
      <4>1. new[p].ents[i].child = x
        BY <1>1, <1>6, <3>4
      <4>2. ChildAfter(new, p, i) = ChildAfter(ps, p, n)
        BY <1>4, <1>9, <3>4
      <4>3. n \in DOMAIN ps[p].ents
        BY <1>3, <1>4
      <4>4. new[x].next = ChildAfter(ps, p, n)
        BY <1>8, <4>3
      <4> QED
        BY <2>2, <4>1, <4>2, <4>4
    <3>5. CASE n + 1 < i
      <4>1. PICK j : j = i - 1
        OBVIOUS
      <4>2. j \in 1 .. m /\ n < j /\ i = j + 1 /\ j # n
        BY <1>4, <3>1, <3>5, <4>1
      <4>3. new[p].ents[i] = ps[p].ents[j]
        BY <1>1, <1>6, <4>2
      <4>4. ChildAfter(new, p, i) = ChildAfter(ps, p, j)
        BY <1>9, <4>2
      <4>5. j \in DOMAIN ps[p].ents
        BY <1>3, <4>2
      <4>6. new[ps[p].ents[j].child].next = ChildAfter(ps, p, j)
        BY <1>8, <4>2, <4>5
      <4> QED
        BY <2>2, <4>3, <4>4, <4>6
    <3>6. i < n \/ i = n \/ i = n + 1 \/ n + 1 < i
      BY <1>4, <3>1
    <3> QED
      BY <3>2, <3>3, <3>4, <3>5, <3>6
  <2> QED
    BY <2>1, <2>2
<1>11. \A d : EndOf(d, P_INVALID, P_INVALID) = d
  BY DEF EndOf
<1> QED
  BY <1>1, <1>10, <1>11 DEF InOrder, Follows

\* The pages f and g come after each other, and nothing after them.
NextGrown(ps, new, f, g) ==
  /\ new[f].next = g /\ new[g].next = P_INVALID
  /\ \A q \in DOMAIN ps : new[q].next = ps[q].next

\* Growing the root keeps each level of one kind.
LEMMA KindsGrown ==
  ASSUME NEW ps, NEW new, NEW l, NEW r, NEW f, f = Fresh(ps), NEW g, g = Fresh(ps) + 1,
         Kinds(ps), Grown(ps, new, l, r), NextGrown(ps, new, f, g)
  PROVE  Kinds(new)
<1>1. /\ DOMAIN new = DOMAIN ps \cup {f, g} /\ f \notin DOMAIN ps /\ g \notin DOMAIN ps
      /\ \A q \in DOMAIN ps \ {P_ROOT} : new[q].leaf = ps[q].leaf
      /\ new[f].leaf = ps[P_ROOT].leaf /\ new[g].leaf = ps[P_ROOT].leaf
  BY DEF Grown
<1>2. /\ new[f].next = g /\ new[g].next = P_INVALID
      /\ \A q \in DOMAIN ps : new[q].next = ps[q].next
  BY DEF NextGrown
<1>3. P_ROOT \in DOMAIN new /\ new[P_ROOT].next = P_INVALID /\ g # P_ROOT
  BY <1>1, <1>2 DEF Kinds
<1>4. ASSUME NEW q \in DOMAIN new, new[q].next # P_INVALID
      PROVE  /\ new[q].next \in DOMAIN new /\ new[q].next # P_ROOT
             /\ new[new[q].next].leaf = new[q].leaf
  <2>1. CASE q = f
    BY <1>1, <1>2, <1>3, <2>1
  <2>2. CASE q = g
    BY <1>2, <1>4, <2>2
  <2>3. CASE q \notin {f, g}
    <3>1. q \in DOMAIN ps /\ q # P_ROOT /\ new[q].next = ps[q].next
      BY <1>1, <1>2, <1>3, <1>4, <2>3
    <3>2. ps[q].next \in DOMAIN ps /\ ps[q].next # P_ROOT /\ ps[ps[q].next].leaf = ps[q].leaf
      BY <1>4, <3>1 DEF Kinds
    <3> QED
      BY <1>1, <3>1, <3>2
  <2> QED
    BY <2>1, <2>2, <2>3
<1> QED
  BY <1>3, <1>4 DEF Kinds

\* A root that grows: its entries go to two pages that make a level.
LEMMA GrownOrder ==
  ASSUME NEW ps \in Seq(AnyPage), NEW new \in Seq(AnyPage), NEW l, NEW r,
         NEW f, f = Fresh(ps), NEW g, g = Fresh(ps) + 1,
         Kinds(ps), ChildrenIn(ps), InOrder(ps), Grown(ps, new, l, r),
         NextGrown(ps, new, f, g), NEW n \in Nat, NEW m \in Nat,
         n = Len(l), m = Len(r), n # 0, m # 0, Parts(ps[P_ROOT].ents, l, r)
  PROVE  InOrder(new)
<1>1. /\ DOMAIN new = DOMAIN ps \cup {f, g} /\ f \notin DOMAIN ps /\ g \notin DOMAIN ps
      /\ f # g
      /\ \A q \in DOMAIN ps \ {P_ROOT} : new[q].leaf = ps[q].leaf /\ new[q].ents = ps[q].ents
      /\ new[f].leaf = ps[P_ROOT].leaf /\ new[f].ents = l
      /\ new[g].leaf = ps[P_ROOT].leaf /\ new[g].ents = r
      /\ DOMAIN new[P_ROOT].ents = 1 .. 2 /\ Len(new[P_ROOT].ents) = 2
      /\ new[P_ROOT].ents[1].child = f /\ new[P_ROOT].ents[2].child = g
  BY DEF Grown
<1>2. /\ new[f].next = g /\ new[g].next = P_INVALID
      /\ \A q \in DOMAIN ps : new[q].next = ps[q].next
      /\ P_ROOT \in DOMAIN ps /\ ps[P_ROOT].next = P_INVALID
  BY DEF NextGrown, Kinds
<1>3. /\ P_INVALID \notin DOMAIN new
      /\ \A q \in DOMAIN ps : DOMAIN ps[q].ents = 1 .. Len(ps[q].ents)
      /\ \A q \in DOMAIN new : DOMAIN new[q].ents = 1 .. Len(new[q].ents)
  BY SlotFacts
<1>4. /\ Len(ps[P_ROOT].ents) = n + m
      /\ \A i \in 1 .. n : l[i] = ps[P_ROOT].ents[i]
      /\ \A i \in 1 .. m : r[i] = ps[P_ROOT].ents[n + i]
  BY DEF Parts
<1>5. ASSUME NEW q \in DOMAIN ps, ~ ps[q].leaf, NEW i \in DOMAIN ps[q].ents
      PROVE  new[ps[q].ents[i].child].next = ChildAfter(ps, q, i)
  <2>1. ps[q].ents[i].child \in DOMAIN ps
    BY <1>5 DEF ChildrenIn
  <2>2. \A d : EndOf(d, P_INVALID, P_INVALID) = d
    BY DEF EndOf
  <2> QED
    BY <1>2, <1>5, <2>1, <2>2 DEF InOrder, Follows
<1>6. ASSUME NEW q \in DOMAIN new, ~ new[q].leaf, NEW i \in DOMAIN new[q].ents
      PROVE  new[new[q].ents[i].child].next = ChildAfter(new, q, i)
  <2>1. CASE q \notin {P_ROOT, f, g}
    <3>1. q \in DOMAIN ps /\ ~ ps[q].leaf /\ new[q].ents = ps[q].ents
          /\ new[q].next = ps[q].next
      BY <1>1, <1>2, <1>6, <2>1
    <3>2. ChildAfter(new, q, i) = ChildAfter(ps, q, i)
      <4>1. CASE ps[q].next = P_INVALID
        BY <3>1, <4>1 DEF ChildAfter
      <4>2. CASE ps[q].next # P_INVALID
        <5>1. ps[q].next \in DOMAIN ps \ {P_ROOT}
          BY <3>1, <4>2 DEF Kinds
        <5>2. FirstChild(new, ps[q].next) = FirstChild(ps, ps[q].next)
          BY <1>1, <5>1 DEF FirstChild
        <5> QED
          BY <3>1, <5>2 DEF ChildAfter
      <4> QED
        BY <4>1, <4>2
    <3> QED
      BY <1>5, <1>6, <3>1, <3>2
  <2>2. CASE q = P_ROOT
    <3>1. i = 1 \/ i = 2
      BY <1>1, <1>6, <2>2
    <3>2. CASE i = 1
      <4>1. ChildAfter(new, q, i) = g
        BY <1>1, <2>2, <3>2 DEF ChildAfter
      <4> QED
        BY <1>1, <1>2, <2>2, <3>2, <4>1
    <3>3. CASE i = 2
      <4>1. ChildAfter(new, q, i) = P_INVALID
        BY <1>1, <1>2, <2>2, <3>3 DEF ChildAfter
      <4> QED
        BY <1>1, <1>2, <2>2, <3>3, <4>1
    <3> QED
      BY <3>1, <3>2, <3>3
  <2>3. CASE q = f
    <3>1. ~ ps[P_ROOT].leaf /\ i \in 1 .. n /\ i \in DOMAIN ps[P_ROOT].ents
      BY <1>1, <1>2, <1>3, <1>4, <1>6, <2>3
    <3>2. new[f].ents[i] = ps[P_ROOT].ents[i]
      BY <1>1, <1>4, <3>1
    <3>3. ChildAfter(ps, P_ROOT, i) = ps[P_ROOT].ents[i + 1].child
      BY <1>4, <3>1 DEF ChildAfter
    <3>4. ChildAfter(new, f, i) = ps[P_ROOT].ents[i + 1].child
      <4>1. CASE i < n
        <5>1. PICK j : j = i + 1
          OBVIOUS
        <5>2. j \in 1 .. n
          BY <3>1, <4>1, <5>1
        <5>3. ChildAfter(new, f, i) = l[j].child
          BY <1>1, <4>1, <5>1 DEF ChildAfter
        <5> QED
          BY <1>4, <5>1, <5>2, <5>3
      <4>2. CASE i = n
        <5>1. ChildAfter(new, f, i) = r[1].child
          <6>1. ~ (i < n) /\ g # P_INVALID
            BY <1>1, <1>3, <4>2
          <6> QED
            BY <1>1, <1>2, <6>1 DEF ChildAfter, FirstChild
        <5>2. 1 \in 1 .. m /\ i + 1 = n + 1
          BY <4>2
        <5> QED
          BY <1>4, <5>1, <5>2
      <4>3. i < n \/ i = n
        BY <3>1
      <4> QED
        BY <4>1, <4>2, <4>3
    <3> QED
      BY <1>2, <1>5, <2>3, <3>1, <3>2, <3>3, <3>4
  <2>4. CASE q = g
    <3>1. PICK j : j = n + i
      OBVIOUS
    <3>2. ~ ps[P_ROOT].leaf /\ i \in 1 .. m /\ j \in DOMAIN ps[P_ROOT].ents
      <4>1. ~ ps[P_ROOT].leaf /\ i \in 1 .. m
        BY <1>1, <1>3, <1>6, <2>4
      <4>2. j \in 1 .. n + m
        BY <3>1, <4>1
      <4>3. DOMAIN ps[P_ROOT].ents = 1 .. n + m
        BY <1>2, <1>3, <1>4
      <4> QED
        BY <4>1, <4>2, <4>3
    <3>3. new[g].ents[i] = ps[P_ROOT].ents[j]
      BY <1>1, <1>4, <3>1, <3>2
    <3>4. ChildAfter(new, g, i) = ChildAfter(ps, P_ROOT, j)
      <4>1. CASE i < m
        <5>1. ChildAfter(new, g, i) = r[i + 1].child
          BY <1>1, <4>1 DEF ChildAfter
        <5>2. i + 1 \in 1 .. m /\ j + 1 = n + (i + 1) /\ j < n + m
          <6>1. i \in 1 .. m
            BY <3>2
          <6>2. i + 1 \in 1 .. m
            BY <4>1, <6>1
          <6>3. j + 1 = n + (i + 1)
            BY <3>1, <6>1
          <6>4. j < n + m
            BY <3>1, <4>1, <6>1
          <6> QED
            BY <6>2, <6>3, <6>4
        <5>3. ChildAfter(ps, P_ROOT, j) = ps[P_ROOT].ents[j + 1].child
          BY <1>4, <5>2 DEF ChildAfter
        <5> QED
          BY <1>4, <5>1, <5>2, <5>3
      <4>2. CASE i = m
        <5>1. ~ (i < m) /\ ~ (j < n + m)
          BY <3>1, <4>2
        <5> QED
          BY <1>1, <1>2, <1>4, <5>1 DEF ChildAfter
      <4>3. i < m \/ i = m
        BY <3>2
      <4> QED
        BY <4>1, <4>2, <4>3
    <3> QED
      BY <1>2, <1>5, <2>4, <3>2, <3>3, <3>4
  <2> QED
    BY <2>1, <2>2, <2>3, <2>4
<1>7. \A d : EndOf(d, P_INVALID, P_INVALID) = d
  BY DEF EndOf
<1> QED
  BY <1>6, <1>7 DEF InOrder, Follows

-----------------------------------------------------------------------------
(* The next links each change to the arena makes.                          *)

\* An arena with entries s in page p and the links it had.
LEMMA MidArena ==
  ASSUME NEW ps \in Seq(AnyPage), NEW p \in DOMAIN ps,
         NEW s \in Seq(EntryOf(ps[p].leaf)), NEW new, new = [ps EXCEPT ![p].ents = s]
  PROVE  Changed(ps, new, p, s) /\ NextSame(ps, new)
<1>1. Changed(ps, new, p, s)
  BY ViewSetEnts
<1>2. \A q \in 1 .. Len(ps) : new[q].next = ps[q].next
  BY SetEntsFacts
<1>3. DOMAIN ps = 1 .. Len(ps)
  OBVIOUS
<1> QED
  BY <1>1, <1>2, <1>3 DEF NextSame

\* SplitPage puts the new page behind the old one.
LEMMA SplitPageNext ==
  ASSUME pages \in Seq(AnyPage), NEW p \in DOMAIN pages, NEW e \in EntryOf(pages[p].leaf),
         NEW leaf, NEW pos \in 1 .. Len(pages[p].ents) + 1,
         NEW h \in Halves(leaf, pages[p].ents, pos, e),
         NEW f, f = Fresh(pages)
  PROVE  NextSplit(pages, SplitPage(p, h), p, f)
<1> DEFINE S == EntryOf(pages[p].leaf)
           new == SplitPage(p, h)
<1>1. pages[p].ents \in Seq(S)
  BY EntsFacts
<1>2. h.left \in Seq(S) /\ h.right \in Seq(S)
  BY <1>1, HalvesFacts
<1>3. f = Len(pages) + 1
  BY DEF Fresh
<1>4. /\ \A q \in 1 .. Len(pages) : new[q].next = IF q = p THEN f ELSE pages[q].next
      /\ new[f].next = pages[p].next
  BY <1>2, <1>3, SplitPageFacts
<1> HIDE DEF new
<1>5. DOMAIN pages = 1 .. Len(pages)
  OBVIOUS
<1>6. NextSplit(pages, new, p, f)
  BY <1>4, <1>5 DEF NextSplit
<1> QED
  BY <1>6 DEF new

\* So does AppendPage, for the last page of a level.
LEMMA AppendPageNext ==
  ASSUME pages \in Seq(AnyPage), NEW p \in DOMAIN pages, NEW e \in EntryOf(pages[p].leaf),
         pages[p].next = P_INVALID, NEW f, f = Fresh(pages)
  PROVE  NextSplit(pages, AppendPage(p, e), p, f)
<1> DEFINE new == AppendPage(p, e)
<1>3. f = Len(pages) + 1
  BY DEF Fresh
<1>4. /\ \A q \in 1 .. Len(pages) : new[q].next = IF q = p THEN f ELSE pages[q].next
      /\ new[f].next = P_INVALID
  BY <1>3, AppendPageFacts
<1> HIDE DEF new
<1>5. DOMAIN pages = 1 .. Len(pages)
  OBVIOUS
<1>6. NextSplit(pages, new, p, f)
  BY <1>4, <1>5 DEF NextSplit
<1> QED
  BY <1>6 DEF new

\* GrowRoot makes a level of the two new pages.
LEMMA GrowRootNext ==
  ASSUME pages \in Seq(AnyPage), P_ROOT \in DOMAIN pages,
         NEW e \in EntryOf(pages[P_ROOT].leaf), NEW leaf,
         NEW pos \in 1 .. Len(pages[P_ROOT].ents) + 1,
         NEW h \in Halves(leaf, pages[P_ROOT].ents, pos, e),
         NEW f, f = Fresh(pages), NEW g, g = Fresh(pages) + 1
  PROVE  NextGrown(pages, GrowRoot(h), f, g)
<1> DEFINE S == EntryOf(pages[P_ROOT].leaf)
           new == GrowRoot(h)
<1>1. pages[P_ROOT].ents \in Seq(S)
  BY EntsFacts
<1>2. h.left \in Seq(S) /\ h.right \in Seq(S) /\ h.right[1] \in S
  BY <1>1, HalvesFacts
<1>3. h.right[1].key \in Strings
  <2> HIDE DEF S
  <2>1. \A x \in S : x.key \in Strings
    BY KeyOfEntry DEF S
  <2> QED
    BY <1>2, <2>1
<1>4. f = Len(pages) + 1 /\ g = Len(pages) + 2 /\ DOMAIN pages = 1 .. Len(pages)
  BY DEF Fresh
<1>5. /\ \A q \in 1 .. Len(pages) : new[q].next = pages[q].next
      /\ new[f].next = g /\ new[g].next = P_INVALID
  BY <1>2, <1>3, <1>4, GrowRootFacts
<1> HIDE DEF new
<1>6. NextGrown(pages, new, f, g)
  BY <1>4, <1>5 DEF NextGrown
<1> QED
  BY <1>6 DEF new

\* Between steps that change a level the next links follow the separators;
\* on the way up the page split last waits for the separator of the next.
LinkInv ==
  /\ Kinds(pages)
  /\ pc # "up" => InOrder(pages)
  /\ pc = "up" => Follows(pages, cur, sep.child) /\ pages[cur].next = sep.child

\* Where all pages are in the tree, separators refer to pages.
LEMMA ShapeChildren ==
  ASSUME NEW ps, NEW A, A = DOMAIN ps, NEW lo, NEW lv, Shape(ps, A, lo, lv)
  PROVE  ChildrenIn(ps)
  BY DEF Shape, Hanging, ChildrenIn

\* What the proofs about links use of the invariant.
LEMMA WholeFacts ==
  ASSUME WholeInv
  PROVE  /\ pages \in Seq(AnyPage) /\ P_ROOT \in DOMAIN pages /\ ChildrenIn(pages)
         /\ IInv /\ FitInv
         /\ \E A, lo, lv : /\ A = DOMAIN pages /\ Shape(pages, A, lo, lv)
                          /\ KeyCall(A, lo, lv)
<1>1. PICK A, lo, lv : A = DOMAIN pages /\ Shape(pages, A, lo, lv) /\ KeyCall(A, lo, lv)
  BY DEF WholeInv, Tree
<1>2. ChildrenIn(pages)
  BY <1>1, ShapeChildren
<1> QED
  BY <1>1, <1>2, ArenaFacts DEF WholeInv

\* A call that ends with the links in order.
LEMMA EndsLinks ==
  ASSUME NEW ans, Return(ans), Kinds(pages'), InOrder(pages')
  PROVE  LinkInv'
  BY DEF Return, LinkInv

\* A leaf whose entries change.
LEMMA LeafLinks ==
  ASSUME WholeInv, LinkInv, NEW op, AtLeaf(op), NEW s \in Seq(LeafEntry),
         pages' = [pages EXCEPT ![cur].ents = s]
  PROVE  Kinds(pages') /\ InOrder(pages')
<1>1. PICK ps, new, p : ps = pages /\ new = pages' /\ p = cur
  OBVIOUS
<1>2. /\ ps \in Seq(AnyPage) /\ p \in DOMAIN ps /\ ps[p].leaf
      /\ s \in Seq(EntryOf(ps[p].leaf)) /\ ChildrenIn(ps)
  BY <1>1, WholeFacts, LeafView
<1>3. Kinds(ps) /\ InOrder(ps)
  BY <1>1 DEF LinkInv, AtLeaf
<1>4. Changed(ps, new, p, s) /\ NextSame(ps, new)
  BY <1>1, <1>2, MidArena
<1>5. Kinds(new)
  BY <1>3, <1>4, KindsChanged
<1>6. InOrder(new)
  <2>1. PICK z : z = P_INVALID
    OBVIOUS
  <2>2. Follows(ps, z, z)
    BY <1>3, <2>1 DEF InOrder
  <2>3. Follows(new, z, z)
    BY <1>2, <1>3, <1>4, <2>2, LeafOrder
  <2> QED
    BY <2>1, <2>3 DEF InOrder
<1> QED
  BY <1>1, <1>5, <1>6

\* Storing an entry in a leaf changes no link.
LEMMA InsertLeafLinks ==
  ASSUME WholeInv, LinkInv, InsertLeafEntry
  PROVE  LinkInv'
<1>1. AtLeaf("put") /\ Return("true")
  BY DEF InsertLeafEntry
<1>2. PICK pos \in 1 .. Len(Ents) + 1 :
        pages' = [pages EXCEPT ![cur].ents = InsertAt(@, pos, NewLeafEntry)]
  BY DEF InsertLeafEntry
<1>3. PICK s : s = InsertAt(Ents, pos, NewLeafEntry)
  OBVIOUS
<1>4. s \in Seq(LeafEntry)
  BY <1>1, <1>3, WholeFacts, LeafMid
<1>5. pages' = [pages EXCEPT ![cur].ents = s]
  BY <1>2, <1>3 DEF Ents
<1> QED
  BY <1>1, <1>4, <1>5, LeafLinks, EndsLinks

\* Nor does removing one.
LEMMA DelHitLinks ==
  ASSUME WholeInv, LinkInv, DelHit
  PROVE  LinkInv'
<1>1. AtLeaf("del") /\ Return("true")
  BY DEF DelHit
<1>2. PICK i \in DOMAIN Ents : pages' = [pages EXCEPT ![cur].ents = RemoveAt(@, i)]
  BY DEF DelHit
<1>3. PICK s : s = RemoveAt(Ents, i)
  OBVIOUS
<1>4. s \in Seq(LeafEntry)
  <2>1. Ents \in Seq(LeafEntry)
    BY <1>1, WholeFacts, LeafView
  <2>2. i \in 1 .. Len(Ents)
    BY <1>2, <2>1
  <2> QED
    BY <1>3, <2>1, <2>2, RemoveAtFacts
<1>5. pages' = [pages EXCEPT ![cur].ents = s]
  BY <1>2, <1>3 DEF Ents
<1> QED
  BY <1>1, <1>4, <1>5, LeafLinks, EndsLinks

\* A page with entries s is cut in two, and the new page comes after it.
LEMMA SplitOrder ==
  ASSUME NEW ps \in Seq(AnyPage), NEW mid, NEW new, NEW S, NEW p \in DOMAIN ps, p # P_ROOT,
         NEW s, NEW l \in Seq(S), NEW r \in Seq(S), l # <<>>, r # <<>>, Parts(s, l, r),
         Changed(ps, mid, p, s), NextSame(ps, mid), Kinds(mid), InOrder(mid), ChildrenIn(mid),
         Divided(ps, new, p, l, r), NEW f, f = Fresh(ps), NextSplit(ps, new, p, f)
  PROVE  Kinds(new) /\ Follows(new, p, f) /\ new[p].next = f
<1>1. /\ mid \in Seq(AnyPage) /\ DOMAIN mid = DOMAIN ps /\ mid[p].ents = s
      /\ f = Fresh(mid) /\ Divided(mid, new, p, l, r)
  BY DividedAfter
<1>2. NextSplit(mid, new, p, f)
  BY <1>1 DEF NextSplit, NextSame
<1>3. PICK n, m : n = Len(l) /\ m = Len(r)
  OBVIOUS
<1>4. n \in Nat /\ m \in Nat /\ n # 0 /\ m # 0
  BY <1>3
<1>5. new \in Seq(AnyPage) /\ p \in DOMAIN mid /\ Parts(mid[p].ents, l, r)
  BY <1>1 DEF Divided
<1>6. Follows(new, p, f)
  BY <1>1, <1>2, <1>3, <1>4, <1>5, DividedOrder
<1>7. Kinds(new)
  BY <1>1, <1>2, <1>5, KindsDivided
<1> QED
  BY <1>6, <1>7 DEF NextSplit

\* A root with entries s grows.
LEMMA RootOrder ==
  ASSUME NEW ps \in Seq(AnyPage), NEW mid, NEW new, NEW S, P_ROOT \in DOMAIN ps,
         NEW s, NEW l \in Seq(S), NEW r \in Seq(S), l # <<>>, r # <<>>, Parts(s, l, r),
         Changed(ps, mid, P_ROOT, s), NextSame(ps, mid), Kinds(mid), InOrder(mid),
         ChildrenIn(mid), Grown(ps, new, l, r), NEW f, f = Fresh(ps),
         NEW g, g = Fresh(ps) + 1, NextGrown(ps, new, f, g)
  PROVE  Kinds(new) /\ InOrder(new)
<1>1. /\ mid \in Seq(AnyPage) /\ DOMAIN mid = DOMAIN ps /\ mid[P_ROOT].ents = s
      /\ f = Fresh(mid) /\ Grown(mid, new, l, r)
  BY GrownAfter
<1>2. NextGrown(mid, new, f, g)
  BY <1>1 DEF NextGrown, NextSame
<1>3. PICK n, m : n = Len(l) /\ m = Len(r)
  OBVIOUS
<1>4. n \in Nat /\ m \in Nat /\ n # 0 /\ m # 0
  BY <1>3
<1>5. new \in Seq(AnyPage) /\ Parts(mid[P_ROOT].ents, l, r) /\ g = Fresh(mid) + 1
  BY <1>1 DEF Grown
<1>6. InOrder(new)
  BY <1>1, <1>2, <1>3, <1>4, <1>5, GrownOrder
<1>7. Kinds(new)
  BY <1>1, <1>2, <1>5, KindsGrown
<1> QED
  BY <1>6, <1>7

\* A leaf with the new entry in it, before it is split.
LEMMA LeafMidLinks ==
  ASSUME WholeInv, LinkInv, AtLeaf("put"), NEW pos \in 1 .. Len(Ents) + 1,
         IsLeafPos(Ents, job.key, pos), NEW s, s = InsertAt(Ents, pos, NewLeafEntry)
  PROVE  \E mid : /\ Changed(pages, mid, cur, s) /\ NextSame(pages, mid)
                 /\ Kinds(mid) /\ InOrder(mid) /\ ChildrenIn(mid)
<1>1. PICK mid : mid = [pages EXCEPT ![cur].ents = s]
  OBVIOUS
<1>2. /\ pages \in Seq(AnyPage) /\ cur \in DOMAIN pages /\ pages[cur].leaf
      /\ s \in Seq(LeafEntry) /\ s \in Seq(EntryOf(pages[cur].leaf)) /\ ChildrenIn(pages)
      /\ IInv
  BY WholeFacts, LeafView, LeafMid
<1>3. PICK ps, p : ps = pages /\ p = cur
  OBVIOUS
<1>4. Kinds(ps) /\ InOrder(ps)
  BY <1>3 DEF LinkInv, AtLeaf
<1>5. Changed(ps, mid, p, s) /\ NextSame(ps, mid)
  BY <1>1, <1>2, <1>3, MidArena
<1>6. Kinds(mid)
  BY <1>4, <1>5, KindsChanged
<1>7. InOrder(mid)
  <2>1. PICK z : z = P_INVALID
    OBVIOUS
  <2>2. Follows(ps, z, z)
    BY <1>4, <2>1 DEF InOrder
  <2>3. Follows(mid, z, z)
    BY <1>2, <1>3, <1>4, <1>5, <2>2, LeafOrder
  <2> QED
    BY <2>1, <2>3 DEF InOrder
<1>8. ChildrenIn(mid)
  <2>1. PICK A, lo, lv : A = DOMAIN pages /\ Shape(pages, A, lo, lv) /\ KeyCall(A, lo, lv)
    BY WholeFacts
  <2>2. Shape(mid, A, lo, lv)
    BY <1>2, <1>3, <1>5, <2>1, LeafInserted
  <2>3. A = DOMAIN mid
    BY <1>3, <1>5, <2>1 DEF Changed
  <2> QED
    BY <2>2, <2>3, ShapeChildren
<1> QED
  BY <1>3, <1>5, <1>6, <1>7, <1>8

\* A leaf that is split: the new leaf comes after it and has no separator.
LEMMA LeafSplitLinks ==
  ASSUME WholeInv, LinkInv, NEW pos, SplitLeafSortedOpt(pos) \/ SplitLeafFull(pos)
  PROVE  LinkInv'
<1>1. IInv /\ pages \in Seq(AnyPage)
  BY WholeFacts
<1>2. /\ AtLeaf("put") /\ IsLeafPos(Ents, job.key, pos) /\ cur # P_ROOT
      /\ pos \in 1 .. Len(Ents) + 1 /\ pc' = "up" /\ cur' = cur
  BY <1>1, LeafSplitView
<1>3. PICK l, r :
        /\ Split(LeafEntry, TRUE, cur, pos, NewLeafEntry, l, r)
        /\ Divided(pages, pages', cur, l, r)
        /\ sep' = [src |-> "leaf", key |-> r[1].key, child |-> Fresh(pages),
                   last |-> Last(l).key]
  BY <1>1, LeafSplitView
<1>4. PICK f, p, s, new : /\ f = Fresh(pages) /\ p = cur /\ new = pages'
                          /\ s = InsertAt(Ents, pos, NewLeafEntry)
  OBVIOUS
<1>5. PICK mid : /\ Changed(pages, mid, p, s) /\ NextSame(pages, mid)
                 /\ Kinds(mid) /\ InOrder(mid) /\ ChildrenIn(mid)
  BY <1>2, <1>4, LeafMidLinks
<1>6. /\ l \in Seq(LeafEntry) /\ r \in Seq(LeafEntry) /\ l # <<>> /\ r # <<>>
      /\ Parts(s, l, r)
  BY <1>3, <1>4 DEF Split, Ents
<1>7. /\ p \in DOMAIN pages /\ Ents = pages[p].ents
      /\ NewLeafEntry \in EntryOf(pages[p].leaf)
      /\ pos \in 1 .. Len(pages[p].ents) + 1
  BY <1>1, <1>2, <1>4, LeafView, PutView
<1>8. NextSplit(pages, new, p, f)
  <2>1. CASE SplitLeafSortedOpt(pos)
    <3>1. pages[p].next = P_INVALID /\ new = AppendPage(p, NewLeafEntry)
      BY <1>4, <2>1 DEF SplitLeafSortedOpt, IsSortedAppend
    <3> QED
      BY <1>1, <1>4, <1>7, <3>1, AppendPageNext
  <2>2. CASE SplitLeafFull(pos)
    <3>1. PICK h \in LeafHalves(pos) : new = SplitPage(p, h)
      BY <1>4, <2>2 DEF SplitLeafFull
    <3>2. h \in Halves(TRUE, pages[p].ents, pos, NewLeafEntry)
      BY <1>7, <3>1 DEF LeafHalves
    <3> QED
      BY <1>1, <1>4, <1>7, <3>1, <3>2, SplitPageNext
  <2> QED
    BY <2>1, <2>2
<1>9. Divided(pages, new, p, l, r) /\ p # P_ROOT
  BY <1>2, <1>3, <1>4
<1>10. Kinds(new) /\ Follows(new, p, f) /\ new[p].next = f
  BY <1>1, <1>4, <1>5, <1>6, <1>7, <1>8, <1>9, SplitOrder
<1>11. sep'.child = f
  BY <1>3, <1>4
<1> QED
  BY <1>2, <1>4, <1>10, <1>11 DEF LinkInv

\* A leaf that is the root and is split.
LEMMA RootLeafLinks ==
  ASSUME WholeInv, LinkInv, NEW pos, SplitRootLeaf(pos)
  PROVE  LinkInv'
<1>1. IInv /\ pages \in Seq(AnyPage) /\ P_ROOT \in DOMAIN pages
  BY WholeFacts
<1>2. /\ AtLeaf("put") /\ IsLeafPos(Ents, job.key, pos) /\ cur = P_ROOT
      /\ pos \in 1 .. Len(Ents) + 1 /\ Return("true")
  BY <1>1, RootLeafView
<1>3. PICK l, r : /\ Split(LeafEntry, TRUE, P_ROOT, pos, NewLeafEntry, l, r)
                  /\ Grown(pages, pages', l, r)
  BY <1>1, RootLeafView
<1>4. PICK f, g, s, new : /\ f = Fresh(pages) /\ g = Fresh(pages) + 1 /\ new = pages'
                          /\ s = InsertAt(Ents, pos, NewLeafEntry)
  OBVIOUS
<1>5. PICK mid : /\ Changed(pages, mid, P_ROOT, s) /\ NextSame(pages, mid)
                 /\ Kinds(mid) /\ InOrder(mid) /\ ChildrenIn(mid)
  BY <1>2, <1>4, LeafMidLinks
<1>6. /\ l \in Seq(LeafEntry) /\ r \in Seq(LeafEntry) /\ l # <<>> /\ r # <<>>
      /\ Parts(s, l, r)
  BY <1>2, <1>3, <1>4 DEF Split, Ents
<1>7. /\ Ents = pages[P_ROOT].ents /\ NewLeafEntry \in EntryOf(pages[P_ROOT].leaf)
      /\ pos \in 1 .. Len(pages[P_ROOT].ents) + 1
  BY <1>1, <1>2, LeafView, PutView
<1>8. NextGrown(pages, new, f, g)
  <2>1. PICK h \in LeafHalves(pos) : new = GrowRoot(h)
    BY <1>4 DEF SplitRootLeaf
  <2>2. h \in Halves(TRUE, pages[P_ROOT].ents, pos, NewLeafEntry)
    BY <1>7, <2>1 DEF LeafHalves
  <2> QED
    BY <1>1, <1>4, <1>7, <2>1, <2>2, GrowRootNext
<1>9. Grown(pages, new, l, r)
  BY <1>3, <1>4
<1>10. Kinds(new) /\ InOrder(new)
  BY <1>1, <1>4, <1>5, <1>6, <1>8, <1>9, RootOrder
<1> QED
  BY <1>2, <1>4, <1>10, EndsLinks

\* The slot of the page split last is the only one that refers to it.
LEMMA ParentSlot ==
  ASSUME WholeInv, GoingUp, NEW n, n = SepSlot - 1, NEW p, p = Parent
  PROVE  OnlySlot(pages, p, n, cur)
<1>1. IInv /\ pages \in Seq(AnyPage)
  BY WholeFacts
<1>2. PICK A, lo, lv : A = DOMAIN pages /\ Shape(pages, A, lo, lv)
  BY WholeFacts
<1>3. /\ p \in DOMAIN pages /\ ~ pages[p].leaf
      /\ n \in DOMAIN pages[p].ents /\ pages[p].ents[n].child = cur
  BY <1>1, ParentView
<1>4. ASSUME NEW q \in DOMAIN pages, ~ pages[q].leaf, NEW i \in DOMAIN pages[q].ents,
             pages[q].ents[i].child = cur
      PROVE  q = p /\ i = n
  BY <1>1, <1>2, <1>3, <1>4, OneParent
<1> QED
  BY <1>3, <1>4 DEF OnlySlot

\* The parent with the separator in it: the links are in order.
LEMMA ParentMidLinks ==
  ASSUME WholeInv, LinkInv, GoingUp,
         NEW s, s = InsertAt(ParentEnts, SepSlot, NewSepEntry),
         NEW mid, mid = [pages EXCEPT ![Parent].ents = s]
  PROVE  /\ s \in Seq(SepEntry)
         /\ Changed(pages, mid, Parent, s) /\ NextSame(pages, mid)
         /\ Kinds(mid) /\ InOrder(mid) /\ ChildrenIn(mid)
<1>1. IInv /\ pages \in Seq(AnyPage) /\ ChildrenIn(pages)
  BY WholeFacts
<1>2. PICK A, lo, lv : A = DOMAIN pages /\ Shape(pages, A, lo, lv) /\ KeyCall(A, lo, lv)
  BY WholeFacts
<1>3. PICK ps, p, n, e, c, x, pos : 
        /\ ps = pages /\ p = Parent /\ pos = SepSlot /\ n = SepSlot - 1
        /\ e = NewSepEntry /\ c = cur /\ x = sep.child
  OBVIOUS
<1>4. /\ p \in DOMAIN ps /\ ps[p].leaf = FALSE
      /\ ParentEnts = ps[p].ents /\ ps[p].ents \in Seq(SepEntry)
      /\ EntryOf(ps[p].leaf) = SepEntry
      /\ pos \in 1 .. Len(ps[p].ents) + 1
      /\ e \in SepEntry /\ e.child = x
  BY <1>1, <1>3, ParentView
<1>5. /\ s \in Seq(SepEntry)
      /\ \A new : Changed(ps, new, p, s) => \E lo2 : Shape(new, A, lo2, lv)
  BY <1>1, <1>2, <1>3, SepInserted
<1>6. mid = [ps EXCEPT ![p].ents = s]
  BY <1>3
<1>7. Changed(ps, mid, p, s) /\ NextSame(ps, mid)
  BY <1>1, <1>3, <1>4, <1>5, <1>6, MidArena
<1>8. Kinds(ps) /\ Follows(ps, c, x) /\ ps[c].next = x
  BY <1>3 DEF LinkInv, GoingUp
<1>9. Kinds(mid)
  BY <1>7, <1>8, KindsChanged
<1>10. ChildrenIn(mid)
  <2>1. PICK lo2 : Shape(mid, A, lo2, lv)
    BY <1>5, <1>7
  <2>2. A = DOMAIN mid
    BY <1>2, <1>3, <1>7 DEF Changed
  <2> QED
    BY <2>1, <2>2, ShapeChildren
<1>11. OneMore(s, ps[p].ents, n + 1, e)
  <2>1. OneMore(s, ps[p].ents, pos, e)
    BY <1>3, <1>4, InsertOneMore
  <2>2. pos = n + 1
    BY <1>3, <1>4
  <2> QED
    BY <2>1, <2>2
<1>12. OnlySlot(ps, p, n, c)
  BY <1>3, ParentSlot
<1>13. x \in DOMAIN ps /\ c \in DOMAIN ps
  <2>1. Beside(pages, A, lo, lv, cur, sep.child)
    BY <1>2 DEF KeyCall, Rising, GoingUp
  <2> QED
    BY <1>2, <1>3, <2>1 DEF Beside
<1>14. mid \in Seq(AnyPage) /\ ~ ps[p].leaf
  BY <1>4, <1>7 DEF Changed
<1>15. InOrder(mid)
  BY <1>1, <1>3, <1>4, <1>7, <1>8, <1>11, <1>12, <1>13, <1>14, PlaceOrder
<1> QED
  BY <1>3, <1>5, <1>7, <1>9, <1>10, <1>15

\* A separator that finds room takes its place after that of the page that was
\* divided: the new page waits no longer.
LEMMA PlaceLinks ==
  ASSUME WholeInv, LinkInv, InsertInternalInPlace
  PROVE  LinkInv'
<1>1. GoingUp /\ Return("true")
  BY DEF InsertInternalInPlace
<1>2. PICK s : s = InsertAt(ParentEnts, SepSlot, NewSepEntry)
  OBVIOUS
<1>3. pages' = [pages EXCEPT ![Parent].ents = s]
  BY <1>2 DEF InsertInternalInPlace, ParentEnts
<1>4. Kinds(pages') /\ InOrder(pages')
  BY <1>1, <1>2, <1>3, ParentMidLinks
<1> QED
  BY <1>1, <1>4, EndsLinks

\* An internal root that is split.
LEMMA RootInternalLinks ==
  ASSUME WholeInv, LinkInv, SplitRootInternal
  PROVE  LinkInv'
<1>1. IInv /\ FitInv /\ pages \in Seq(AnyPage) /\ P_ROOT \in DOMAIN pages
  BY WholeFacts
<1>2. RootTakes(sep.key) /\ GoingUp
  BY <1>1 DEF SplitRootInternal, ParentFull, GoingUp, FitInv
<1>3. Parent = P_ROOT /\ Return("true")
  BY <1>1, <1>2, RootInternalView
<1>4. PICK l, r : /\ Split(SepEntry, FALSE, P_ROOT, SepSlot, NewSepEntry, l, r)
                  /\ Grown(pages, pages', l, r)
  BY <1>1, <1>2, RootInternalView
<1>5. PICK f, g, s, new, pos, e :
        /\ f = Fresh(pages) /\ g = Fresh(pages) + 1 /\ new = pages'
        /\ s = InsertAt(ParentEnts, SepSlot, NewSepEntry)
        /\ pos = SepSlot /\ e = NewSepEntry
  OBVIOUS
<1>6. PICK mid : mid = [pages EXCEPT ![Parent].ents = s]
  OBVIOUS
<1>7. /\ Changed(pages, mid, P_ROOT, s) /\ NextSame(pages, mid)
      /\ Kinds(mid) /\ InOrder(mid) /\ ChildrenIn(mid)
  BY <1>2, <1>3, <1>5, <1>6, ParentMidLinks
<1>8. /\ ParentEnts = pages[P_ROOT].ents /\ e \in EntryOf(pages[P_ROOT].leaf)
      /\ pos \in 1 .. Len(pages[P_ROOT].ents) + 1
  BY <1>1, <1>2, <1>3, <1>5, ParentView
<1>9. /\ l \in Seq(SepEntry) /\ r \in Seq(SepEntry) /\ l # <<>> /\ r # <<>>
      /\ Parts(s, l, r)
  BY <1>4, <1>5, <1>8 DEF Split
<1>10. NextGrown(pages, new, f, g)
  <2>1. PICK h \in ParentHalves : new = GrowRoot(h)
    BY <1>5 DEF SplitRootInternal
  <2>2. h \in Halves(FALSE, pages[P_ROOT].ents, pos, e)
    BY <1>5, <1>8, <2>1 DEF ParentHalves
  <2> QED
    BY <1>1, <1>5, <1>8, <2>1, <2>2, GrowRootNext
<1>11. Grown(pages, new, l, r)
  BY <1>4, <1>5
<1>12. Kinds(new) /\ InOrder(new)
  BY <1>1, <1>5, <1>7, <1>9, <1>10, <1>11, RootOrder
<1> QED
  BY <1>3, <1>5, <1>12, EndsLinks

\* An internal page below the root that is split.
LEMMA ParentSplitLinks ==
  ASSUME WholeInv, LinkInv, SplitInternalSortedOpt \/ SplitInternalPage
  PROVE  LinkInv'
<1>1. IInv /\ FitInv /\ pages \in Seq(AnyPage)
  BY WholeFacts
<1>2. RootTakes(sep.key) /\ GoingUp
  BY <1>1 DEF SplitInternalSortedOpt, SplitInternalPage, ParentFull, GoingUp, FitInv
<1>3. PICK f, p, s, new, pos, e :
        /\ f = Fresh(pages) /\ p = Parent /\ new = pages'
        /\ s = InsertAt(ParentEnts, SepSlot, NewSepEntry)
        /\ pos = SepSlot /\ e = NewSepEntry
  OBVIOUS
<1>4. p # P_ROOT
  BY <1>1, <1>2, <1>3, ParentSplitView
<1>5. PICK l, r : /\ Split(SepEntry, FALSE, p, SepSlot, NewSepEntry, l, r)
                  /\ Divided(pages, pages', p, l, r)
                  /\ Ascend(r[1].key)
  BY <1>1, <1>2, <1>3, ParentSplitView
<1>6. PICK mid : mid = [pages EXCEPT ![Parent].ents = s]
  OBVIOUS
<1>7. /\ Changed(pages, mid, p, s) /\ NextSame(pages, mid)
      /\ Kinds(mid) /\ InOrder(mid) /\ ChildrenIn(mid)
  BY <1>2, <1>3, <1>6, ParentMidLinks
<1>8. /\ p \in DOMAIN pages
      /\ ParentEnts = pages[p].ents /\ e \in EntryOf(pages[p].leaf)
      /\ pos \in 1 .. Len(pages[p].ents) + 1
  BY <1>1, <1>2, <1>3, ParentView
<1>9. /\ l \in Seq(SepEntry) /\ r \in Seq(SepEntry) /\ l # <<>> /\ r # <<>>
      /\ Parts(s, l, r)
  BY <1>3, <1>5, <1>8 DEF Split
<1>10. NextSplit(pages, new, p, f)
  <2>1. CASE SplitInternalSortedOpt
    <3>1. pages[p].next = P_INVALID /\ new = AppendPage(p, e)
      BY <1>3, <2>1 DEF SplitInternalSortedOpt, IsSortedAppend
    <3> QED
      BY <1>1, <1>3, <1>8, <3>1, AppendPageNext
  <2>2. CASE SplitInternalPage
    <3>1. PICK h \in ParentHalves : new = SplitPage(p, h)
      BY <1>3, <2>2 DEF SplitInternalPage
    <3>2. h \in Halves(FALSE, pages[p].ents, pos, e)
      BY <1>3, <1>8, <3>1 DEF ParentHalves
    <3> QED
      BY <1>1, <1>3, <1>8, <3>1, <3>2, SplitPageNext
  <2> QED
    BY <2>1, <2>2
<1>11. Divided(pages, new, p, l, r)
  BY <1>3, <1>5
<1>12. Kinds(new) /\ Follows(new, p, f) /\ new[p].next = f
  BY <1>1, <1>3, <1>4, <1>7, <1>8, <1>9, <1>10, <1>11, SplitOrder
<1>13. pc' = "up" /\ cur' = p /\ sep'.child = f
  BY <1>2, <1>3, <1>5 DEF Ascend, NextFreePgno, Fresh, GoingUp
<1> QED
  BY <1>3, <1>12, <1>13 DEF LinkInv

\* The links of the first tree: one leaf.
LEMMA InitLinks == Init => LinkInv
<1> SUFFICES ASSUME Init PROVE LinkInv
  OBVIOUS
<1>1. pages = <<Page(TRUE, P_INVALID, P_INVALID, <<>>)>> /\ pc = "idle"
  BY DEF Init
<1>2. /\ DOMAIN pages = {P_ROOT} /\ pages[P_ROOT].leaf = TRUE
      /\ pages[P_ROOT].next = P_INVALID
  BY <1>1 DEF Page, P_ROOT
<1>3. Kinds(pages) /\ InOrder(pages)
  BY <1>2 DEF Kinds, InOrder, Follows
<1> QED
  BY <1>1, <1>3 DEF LinkInv

\* Every step keeps the links in order, but the one that leaves a page without
\* a separator.
LEMMA StepLinks ==
  ASSUME WholeInv, LinkInv, [Next]_vars, ~ SplitInternalUnfit
  PROVE  LinkInv'
<1>1. CASE UNCHANGED vars
  BY <1>1 DEF vars, LinkInv
<1>2. ASSUME pc # "up", UNCHANGED pages, pc' # "up" PROVE LinkInv'
  BY <1>2 DEF LinkInv
<1>3. ASSUME pc # "up", UNCHANGED pages, NEW ans, Return(ans) PROVE LinkInv'
  BY <1>2, <1>3 DEF Return
<1>4. ASSUME NEW k \in Keys, NEW v \in Values, RejectPut(k, v) PROVE LinkInv'
  BY <1>3, <1>4 DEF RejectPut
<1>5. ASSUME NEW k \in Keys, NEW v \in Values, CallPut(k, v) PROVE LinkInv'
  BY <1>2, <1>5 DEF CallPut, Start
<1>6. ASSUME NEW k \in Keys, CallDel(k) PROVE LinkInv'
  BY <1>2, <1>6 DEF CallDel, Start
<1>7. CASE Descend
  BY <1>2, <1>7 DEF Descend
<1>8. CASE DelHit
  BY <1>8, DelHitLinks
<1>9. CASE DelMiss
  BY <1>3, <1>9 DEF DelMiss, AtLeaf
<1>10. CASE PutDuplicate
  BY <1>3, <1>10 DEF PutDuplicate, AtLeaf
<1>11. CASE InsertLeafEntry
  BY <1>11, InsertLeafLinks
<1>12. ASSUME NEW pos \in 1 .. Len(Ents) + 1, SplitRootLeaf(pos) PROVE LinkInv'
  BY <1>12, RootLeafLinks
<1>13. ASSUME NEW pos \in 1 .. Len(Ents) + 1, SplitLeafSortedOpt(pos) \/ SplitLeafFull(pos)
       PROVE  LinkInv'
  BY <1>13, LeafSplitLinks
<1>14. ASSUME NEW pos \in 1 .. Len(Ents) + 1, SplitLeafUnfit(pos) PROVE LinkInv'
  <2>1. pc # "up" /\ UNCHANGED pages /\ \E ans : Return(ans)
    BY <1>14 DEF SplitLeafUnfit, LeafFull, AtLeaf
  <2> QED
    BY <1>3, <2>1
<1>15. CASE InsertInternalInPlace
  BY <1>15, PlaceLinks
<1>16. CASE SplitRootInternal
  BY <1>16, RootInternalLinks
<1>17. CASE SplitInternalSortedOpt \/ SplitInternalPage
  BY <1>17, ParentSplitLinks
<1> QED
  BY <1>1, <1>4, <1>5, <1>6, <1>7, <1>8, <1>9, <1>10, <1>11, <1>12, <1>13,
     <1>14, <1>15, <1>16, <1>17 DEF Next, Call, Step

\* The links are right in every state.
LEMMA LinksHold ==
  ASSUME HalfSeps
  PROVE  Spec => [](WholeInv /\ LinkInv)
<1>1. Init => WholeInv /\ LinkInv
  BY InitEstablishes, InitFits, InitTree, InitLinks DEF WholeInv
<1>2. WholeInv /\ LinkInv /\ [Next]_vars => WholeInv' /\ LinkInv'
  BY WholeStep, StepLinks, SepNeverUnfit DEF WholeInv
<1> QED
  BY <1>1, <1>2, PTL DEF Spec

\* Between calls the next links of a level visit its pages in the order in
\* which the level above refers to them.
THEOREM LinksMatchTreeCorrect ==
  ASSUME HalfSeps
  PROVE  Spec => []LinksMatchTree
<1>1. WholeInv /\ LinkInv => LinksMatchTree
  <2> SUFFICES ASSUME WholeInv, LinkInv, pc = "idle",
                      NEW p \in DOMAIN pages, ~ pages[p].leaf
               PROVE  LET kids == pages[p].ents
                          after == pages[p].next
                      IN  /\ \A i \in 1 .. Len(kids) - 1 :
                               pages[kids[i].child].next = kids[i + 1].child
                          /\ pages[Last(kids).child].next =
                               IF after = P_INVALID THEN P_INVALID
                               ELSE pages[after].ents[1].child
    BY DEF LinksMatchTree
  <2>1. PICK kids, n : kids = pages[p].ents /\ n = Len(kids)
    OBVIOUS
  <2>2. pages \in Seq(AnyPage) /\ InOrder(pages)
    BY WholeFacts DEF LinkInv
  <2>3. n \in Nat /\ DOMAIN kids = 1 .. n
    BY <2>1, <2>2, SlotFacts
  <2>4. n # 0
    <3>1. PICK A, lo, lv : A = DOMAIN pages /\ Shape(pages, A, lo, lv)
      BY WholeFacts
    <3>2. \E i \in DOMAIN kids : kids[i].key = lo[p]
      BY <2>1, <3>1 DEF Shape, FirstKeys
    <3> QED
      BY <2>3, <3>2
  <2>5. ASSUME NEW i \in 1 .. n
        PROVE  pages[kids[i].child].next = ChildAfter(pages, p, i)
    <3>1. EndOf(kids[i].child, P_INVALID, P_INVALID) = kids[i].child
      BY DEF EndOf
    <3> QED
      BY <2>1, <2>2, <2>3, <3>1 DEF InOrder, Follows
  <2>6. ASSUME NEW i \in 1 .. n - 1
        PROVE  pages[kids[i].child].next = kids[i + 1].child
    <3>1. i \in 1 .. n /\ i < n
      BY <2>3
    <3>2. ChildAfter(pages, p, i) = kids[i + 1].child
      BY <2>1, <3>1 DEF ChildAfter
    <3> QED
      BY <2>5, <3>1, <3>2
  <2>7. pages[kids[n].child].next =
          IF pages[p].next = P_INVALID THEN P_INVALID
          ELSE pages[pages[p].next].ents[1].child
    <3>1. n \in 1 .. n /\ ~ (n < n)
      BY <2>3, <2>4
    <3>2. ChildAfter(pages, p, n) =
            IF pages[p].next = P_INVALID THEN P_INVALID
            ELSE pages[pages[p].next].ents[1].child
      BY <2>1, <3>1 DEF ChildAfter, FirstChild
    <3> QED
      BY <2>5, <3>1, <3>2
  <2>8. Last(kids) = kids[n]
    BY <2>1 DEF Last
  <2> QED
    BY <2>1, <2>6, <2>7, <2>8
<1> QED
  BY <1>1, LinksHold, PTL
=============================================================================
