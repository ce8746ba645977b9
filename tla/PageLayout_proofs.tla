-------------------------- MODULE PageLayout_proofs -------------------------
(***************************************************************************)
(* Every slot of a page always refers to a whole entry, what is not free   *)
(* on it is taken by its entries, and these change as a sequence would.    *)
(*                                                                         *)
(* The inductive invariant adds that the entries of a page are different   *)
(* from each other - which is why two of them cannot overlap -, what a     *)
(* copy under way has placed so far, and of which half of the page: the    *)
(* places that BeginSplit chose are those of a run of the entries with the *)
(* new one among them.                                                     *)
(***************************************************************************)
EXTENDS PageLayout, SequenceFacts

Addresses == 0 .. PageEnd - 1

\* The slots below lo are intact and refer to different entries.
Distinct(m, A) ==
  \A a, b \in A : EntryAt(m, a) = EntryAt(m, b) => a = b

AllIntact(m, up, A) == \A a \in A : Intact(m, up, a)

PageInv ==
  /\ DOMAIN mem = Addresses
  /\ lower \in HeaderEnd .. PageEnd
  /\ upper \in lower .. PageEnd
  /\ AllIntact(mem, upper, HeaderEnd .. lower - 1)
  /\ Distinct(mem, HeaderEnd .. lower - 1)

CopyRecord ==
  [on : {TRUE}, src : Nat \ {0}, last : Nat, slot : Nat \ {0}, reserve : Nat,
   new : PageEntries]

\* The slots of the fresh page that copies have gone to.
Copied == (HeaderEnd .. Slot(copy.slot) - 1) \ {Slot(copy.reserve)}

\* The slots of the page that have been copied, and maybe more.
Passed == HeaderEnd .. Slot(copy.src) - 1

\* The places of a copy that is under way: those left in the page are enough
\* to reach the reserved slot.
CopyPlaces ==
  /\ copy \in CopyRecord
  /\ copy.src <= copy.last + 1
  /\ copy.last <= NEntries
  /\ copy.reserve <= copy.slot + (copy.last - copy.src) + 1
  /\ copy.new \notin Held
  /\ DOMAIN bmem = Addresses
  /\ bupper \in Int
  /\ bupper <= PageEnd

\* Once upper has passed the slots it stays so, and the page is refused.
CopiesInv ==
  Slot(copy.slot) <= bupper =>
    /\ AllIntact(bmem, bupper, Copied)
    /\ Distinct(bmem, Copied)
    /\ \A a \in Copied : \E b \in Passed : EntryAt(bmem, a) = EntryAt(mem, b)

LayoutInv ==
  ~ garbled =>
    /\ PageInv
    /\ copy = NoCopy \/ (CopyPlaces /\ CopiesInv)

-----------------------------------------------------------------------------
(* Moving slots and entries.                                               *)

\* A slot whose half-word was copied to a2 still refers to its entry when
\* nothing at or above up has changed.
LEMMA Kept ==
  ASSUME NEW m, NEW m2, NEW up \in Int, NEW nu \in Int, NEW a, NEW a2,
         nu <= up,
         Intact(m, up, a),
         m2[a2] = m[a],
         \A x \in up .. PageEnd - 1 : m2[x] = m[x]
  PROVE  Intact(m2, nu, a2) /\ EntryAt(m2, a2) = EntryAt(m, a)
<1> DEFINE o == OffsetAt(m, a)
           e == EntryAt(m, a)
<1>1. /\ m[a] = LinpTo(o)
      /\ o \in up .. PageEnd - 1
      /\ e \in PageEntries
      /\ o + NWords[e] <= PageEnd
      /\ \A j \in 0 .. NWords[e] - 1 : m[o + j] = Part(e, j)
  BY DEF Intact
<1>2. PageEnd \in Int /\ NWords[e] \in Int
  BY <1>1, LayoutAssumption
<1>3. OffsetAt(m2, a2) = o
  BY DEF OffsetAt
<1>4. EntryAt(m2, a2) = e
  BY <1>1, <1>2, <1>3 DEF EntryAt
<1>5. \A j \in 0 .. NWords[e] - 1 : m2[o + j] = Part(e, j)
  <2> TAKE j \in 0 .. NWords[e] - 1
  <2>1. o + j \in up .. PageEnd - 1
    BY <1>1, <1>2
  <2> QED BY <1>1, <2>1
<1>6. o \in nu .. PageEnd - 1
  BY <1>1, <1>2
<1>7. m2[a2] = LinpTo(o)
  BY <1>1
<1>8. EntryAt(m2, a2) = EntryAt(m, a)
  BY <1>4
<1> HIDE DEF o, e
<1>9. Intact(m2, nu, a2)
  BY <1>1, <1>3, <1>4, <1>5, <1>6, <1>7 DEF Intact
<1> QED BY <1>8, <1>9

\* A slot that was made to refer to an entry that was written does so.
LEMMA Placed ==
  ASSUME NEW m2, NEW nu \in Int, NEW a, NEW e \in PageEntries,
         nu + NWords[e] <= PageEnd,
         m2[a] = LinpTo(nu),
         \A j \in 0 .. NWords[e] - 1 : m2[nu + j] = Part(e, j)
  PROVE  Intact(m2, nu, a) /\ EntryAt(m2, a) = e
<1>1. PageEnd \in Int /\ NWords[e] \in Nat \ {0}
  BY LayoutAssumption
<1>2. OffsetAt(m2, a) = nu
  BY DEF OffsetAt, LinpTo
<1>3. m2[nu + 0] = Part(e, 0) /\ nu + 0 = nu
  BY <1>1
<1>4. EntryAt(m2, a) = e
  BY <1>2, <1>3 DEF EntryAt, Part
<1>5. nu \in nu .. PageEnd - 1
  BY <1>1
<1> QED BY <1>2, <1>4, <1>5 DEF Intact

\* Two slots that refer to different entries refer to half-words that do not
\* overlap.
LEMMA Apart ==
  ASSUME NEW m, NEW up \in Int, NEW a, NEW b,
         Intact(m, up, a), Intact(m, up, b),
         EntryAt(m, a) # EntryAt(m, b),
         OffsetAt(m, a) <= OffsetAt(m, b)
  PROVE  OffsetAt(m, a) + NWords[EntryAt(m, a)] <= OffsetAt(m, b)
<1> DEFINE oa == OffsetAt(m, a)
           ob == OffsetAt(m, b)
           ea == EntryAt(m, a)
           eb == EntryAt(m, b)
<1>1. /\ oa \in Int /\ ob \in Int
      /\ ea \in PageEntries /\ eb \in PageEntries
  BY DEF Intact
<1>2. NWords[ea] \in Nat \ {0} /\ NWords[eb] \in Nat \ {0}
  BY <1>1, LayoutAssumption
<1>3. SUFFICES ASSUME ob < oa + NWords[ea] PROVE FALSE
  BY <1>1, <1>2
<1>4. ob - oa \in 0 .. NWords[ea] - 1 /\ oa + (ob - oa) = ob
  BY <1>1, <1>2, <1>3
<1>5. m[ob] = Part(ea, ob - oa)
  BY <1>4 DEF Intact
<1>6. m[ob] = Part(eb, 0)
  <2>1. 0 \in 0 .. NWords[eb] - 1 /\ ob + 0 = ob
    BY <1>1, <1>2
  <2> QED BY <2>1 DEF Intact
<1>7. ea = eb
  BY <1>5, <1>6 DEF Part
<1> QED BY <1>7

-----------------------------------------------------------------------------
(* put and del.                                                            *)

\* An empty page satisfies the invariant.
LEMMA InitEstablishesInv == Init => LayoutInv
<1> SUFFICES ASSUME Init PROVE PageInv /\ copy = NoCopy
  BY DEF LayoutInv
<1>1. PageEnd \in Nat /\ PageEnd >= 10
  BY LayoutAssumption DEF HeaderEnd
<1>2. DOMAIN mem = Addresses
  BY DEF Init, Blank, Addresses
<1>3. lower = 10 /\ upper = PageEnd /\ HeaderEnd = 10 /\ copy = NoCopy
  BY DEF Init, HeaderEnd
<1>4. HeaderEnd .. lower - 1 = {}
  BY <1>3
<1> QED BY <1>1, <1>2, <1>3, <1>4 DEF PageInv, AllIntact, Distinct

\* An insertion writes below every entry and moves whole slots.
LEMMA InsertPreservesInv ==
  ASSUME PageInv, copy = NoCopy,
         NEW i \in 1 .. NEntries + 1, NEW e \in PageEntries, Insert(i, e)
  PROVE  /\ PageInv' /\ copy' = NoCopy
         /\ \A a \in HeaderEnd .. lower :
              EntryAt(mem', a) = IF a < Slot(i) THEN EntryAt(mem, a)
                                 ELSE IF a = Slot(i) THEN e ELSE EntryAt(mem, a - 1)
<1> DEFINE nu == upper - NWords[e]
           at == Slot(i)
           from(a) == IF a < at THEN a ELSE a - 1
<1>1. /\ PageEnd \in Nat
      /\ NWords[e] \in Nat \ {0}
      /\ lower \in HeaderEnd .. PageEnd
      /\ upper \in lower .. PageEnd
      /\ HeaderEnd = 10
  BY LayoutAssumption DEF PageInv, HeaderEnd
<1>2. /\ lower' = lower + 1
      /\ upper' = nu
      /\ copy' = copy
      /\ upper - lower >= NWords[e] + 1
      /\ e \notin Held
      /\ mem' = WithEntry(SlotReserved(i, nu), nu, e)
  BY DEF Insert, HasRoomFor, copyVars
<1>3. nu \in Int /\ lower + 1 <= nu /\ nu < PageEnd /\ nu + NWords[e] = upper
  BY <1>1, <1>2
<1>4. at \in HeaderEnd .. lower
  BY <1>1 DEF Slot, NEntries
<1>5. DOMAIN mem' = Addresses
  BY <1>2 DEF WithEntry, SlotReserved, PageInv
<1>6. \A x \in Addresses :
        mem'[x] = IF x \in nu .. nu + NWords[e] - 1 THEN Part(e, x - nu)
                  ELSE IF x = at THEN LinpTo(nu)
                  ELSE IF x \in at + 1 .. lower THEN mem[x - 1]
                  ELSE mem[x]
  BY <1>2 DEF WithEntry, SlotReserved, PageInv
<1> HIDE DEF nu, at
<1>7. \A x \in upper .. PageEnd - 1 : mem'[x] = mem[x]
  <2> TAKE x \in upper .. PageEnd - 1
  <2>1. x \in Addresses /\ x \notin nu .. nu + NWords[e] - 1 /\ x # at /\ x \notin at + 1 .. lower
    BY <1>1, <1>3, <1>4 DEF Addresses
  <2> QED BY <2>1, <1>6
<1>8. Intact(mem', nu, at) /\ EntryAt(mem', at) = e
  <2>1. at \in Addresses /\ at \notin nu .. nu + NWords[e] - 1
    BY <1>1, <1>3, <1>4 DEF Addresses
  <2>2. mem'[at] = LinpTo(nu)
    BY <2>1, <1>6
  <2>3. \A j \in 0 .. NWords[e] - 1 : mem'[nu + j] = Part(e, j)
    <3> TAKE j \in 0 .. NWords[e] - 1
    <3>1. nu + j \in Addresses /\ nu + j \in nu .. nu + NWords[e] - 1 /\ (nu + j) - nu = j
      BY <1>1, <1>3 DEF Addresses
    <3> QED BY <3>1, <1>6
  <2>4. nu + NWords[e] <= PageEnd
    BY <1>1, <1>3
  <2> QED BY <1>3, <2>2, <2>3, <2>4, Placed
<1>9. \A a \in HeaderEnd .. lower : a # at =>
        /\ from(a) \in HeaderEnd .. lower - 1
        /\ Intact(mem', nu, a)
        /\ EntryAt(mem', a) = EntryAt(mem, from(a))
  <2> SUFFICES ASSUME NEW a \in HeaderEnd .. lower, a # at
               PROVE  /\ from(a) \in HeaderEnd .. lower - 1
                      /\ Intact(mem', nu, a)
                      /\ EntryAt(mem', a) = EntryAt(mem, from(a))
    OBVIOUS
  <2>1. from(a) \in HeaderEnd .. lower - 1
    BY <1>1, <1>4
  <2>2. a \in Addresses /\ a \notin nu .. nu + NWords[e] - 1
    BY <1>1, <1>3 DEF Addresses
  <2>3. a > at => a \in at + 1 .. lower
    BY <1>1, <1>4
  <2>4. a < at => a \notin at + 1 .. lower
    BY <1>1, <1>4
  <2>5. mem'[a] = mem[from(a)]
    <3>1. CASE a < at
      BY <3>1, <2>2, <2>4, <1>6
    <3>2. CASE a > at
      BY <3>2, <2>2, <2>3, <1>6, <1>4, <1>1
    <3> QED BY <3>1, <3>2, <1>1, <1>4
  <2>6. Intact(mem, upper, from(a))
    BY <2>1 DEF PageInv, AllIntact
  <2> HIDE DEF from
  <2>7. nu <= upper /\ upper \in Int
    BY <1>1, <1>3
  <2> QED BY <2>1, <2>5, <2>6, <2>7, <1>3, <1>7, Kept
<1>10. AllIntact(mem', nu, HeaderEnd .. lower)
  BY <1>8, <1>9 DEF AllIntact
<1>11. Distinct(mem', HeaderEnd .. lower)
  <2> SUFFICES ASSUME NEW a \in HeaderEnd .. lower, NEW b \in HeaderEnd .. lower,
                      EntryAt(mem', a) = EntryAt(mem', b)
               PROVE  a = b
    BY DEF Distinct
  <2>1. ASSUME NEW c \in HeaderEnd .. lower, c # at PROVE EntryAt(mem', c) # e
    <3>1. EntryAt(mem', c) \in Held
      BY <2>1, <1>9 DEF Held
    <3> QED BY <3>1, <1>2
  <2>2. CASE a = at \/ b = at
    BY <2>1, <2>2, <1>8
  <2>3. CASE a # at /\ b # at
    <3>1. EntryAt(mem, from(a)) = EntryAt(mem, from(b))
      BY <2>3, <1>9
    <3>2. from(a) = from(b)
      BY <2>3, <3>1, <1>9 DEF PageInv, Distinct
    <3> QED BY <2>3, <3>2, <1>1, <1>4
  <2> QED BY <2>2, <2>3
<1>12. lower' \in HeaderEnd .. PageEnd /\ upper' \in lower' .. PageEnd /\ lower' - 1 = lower
  BY <1>1, <1>2, <1>3
<1>13. ASSUME NEW a \in HeaderEnd .. lower
       PROVE  EntryAt(mem', a) = IF a < at THEN EntryAt(mem, a)
                                 ELSE IF a = at THEN e ELSE EntryAt(mem, a - 1)
  BY <1>8, <1>9
<1> QED BY <1>2, <1>5, <1>10, <1>11, <1>12, <1>13 DEF PageInv, at

\* A deletion moves the entries below the deleted one, each of them whole:
\* none of them overlaps it.
LEMMA DeletePreservesInv ==
  ASSUME PageInv, copy = NoCopy,
         NEW i \in 1 .. NEntries, Delete(i)
  PROVE  /\ PageInv' /\ copy' = NoCopy
         /\ \A a \in HeaderEnd .. lower - 2 :
              EntryAt(mem', a) = EntryAt(mem, IF a < Slot(i) THEN a ELSE a + 1)
<1> DEFINE at == Slot(i)
           o == OffsetAt(mem, at)
           d == EntryAt(mem, at)
           n == NWords[d]
           from(a) == IF a < at THEN a ELSE a + 1
<1>1. /\ PageEnd \in Nat
      /\ lower \in HeaderEnd .. PageEnd
      /\ upper \in lower .. PageEnd
      /\ HeaderEnd = 10
  BY LayoutAssumption DEF PageInv, HeaderEnd
<1>2. at \in HeaderEnd .. lower - 1
  BY <1>1 DEF Slot, NEntries
<1>3. Intact(mem, upper, at)
  BY <1>2 DEF PageInv, AllIntact
<1>4. o \in upper .. PageEnd - 1 /\ d \in PageEntries /\ o + n <= PageEnd
  BY <1>3 DEF Intact
<1>5. n \in Nat \ {0}
  BY <1>4, LayoutAssumption
<1>6. /\ lower' = lower - 1
      /\ upper' = upper + n
      /\ copy' = copy
      /\ mem' = [a \in DOMAIN mem |->
                   IF a \in upper + n .. o + n - 1 THEN mem[a - n]
                   ELSE IF a \in HeaderEnd .. at - 1 THEN Moved(mem[a], o, n)
                   ELSE IF a \in at .. lower - 2 THEN Moved(mem[a + 1], o, n)
                   ELSE mem[a]]
  BY DEF Delete, copyVars
<1>7. DOMAIN mem' = Addresses
  BY <1>6 DEF PageInv
<1>8. \A x \in Addresses :
        mem'[x] = IF x \in upper + n .. o + n - 1 THEN mem[x - n]
                  ELSE IF x \in HeaderEnd .. at - 1 THEN Moved(mem[x], o, n)
                  ELSE IF x \in at .. lower - 2 THEN Moved(mem[x + 1], o, n)
                  ELSE mem[x]
  BY <1>6 DEF PageInv
<1> HIDE DEF at, o, d, n
<1>9. \A a \in HeaderEnd .. lower - 2 :
        /\ from(a) \in HeaderEnd .. lower - 1
        /\ Intact(mem', upper + n, a)
        /\ EntryAt(mem', a) = EntryAt(mem, from(a))
  <2> SUFFICES ASSUME NEW a \in HeaderEnd .. lower - 2
               PROVE  /\ from(a) \in HeaderEnd .. lower - 1
                      /\ Intact(mem', upper + n, a)
                      /\ EntryAt(mem', a) = EntryAt(mem, from(a))
    OBVIOUS
  <2>1. from(a) \in HeaderEnd .. lower - 1 /\ from(a) # at
    BY <1>1, <1>2
  <2>2. /\ a \in Addresses
        /\ a \notin upper + n .. o + n - 1
        /\ a < at => a \in HeaderEnd .. at - 1
        /\ a >= at => a \notin HeaderEnd .. at - 1 /\ a \in at .. lower - 2
    BY <1>1, <1>2, <1>5 DEF Addresses
  <2>3. mem'[a] = Moved(mem[from(a)], o, n)
    <3>1. CASE a < at
      BY <3>1, <2>2, <1>8
    <3>2. CASE a >= at
      BY <3>2, <2>2, <1>8, <1>1, <1>2
    <3> QED BY <3>1, <3>2, <1>1, <1>2
  <2> DEFINE b == from(a)
             v == OffsetAt(mem, b)
             f == EntryAt(mem, b)
  <2>4. Intact(mem, upper, b)
    BY <2>1 DEF PageInv, AllIntact
  <2>5. /\ mem[b] = LinpTo(v)
        /\ v \in upper .. PageEnd - 1
        /\ f \in PageEntries
        /\ v + NWords[f] <= PageEnd
        /\ \A j \in 0 .. NWords[f] - 1 : mem[v + j] = Part(f, j)
    BY <2>4 DEF Intact
  <2>6. NWords[f] \in Nat \ {0}
    BY <2>5, LayoutAssumption
  <2>7. f # d
    BY <2>1, <1>2 DEF PageInv, Distinct, d
  <2> HIDE DEF from
  <2>8. CASE v < o
    <3>1. v + NWords[f] <= o
      <4>1. v <= o
        BY <2>8, <2>5, <1>4, <1>1
      <4> QED BY <4>1, <1>1, <1>3, <2>4, <2>7, Apart DEF o, d
    <3>2. mem'[a] = LinpTo(v + n)
      BY <2>3, <2>5, <2>8 DEF Moved, LinpTo
    <3>3. \A j \in 0 .. NWords[f] - 1 : mem'[(v + n) + j] = Part(f, j)
      <4> TAKE j \in 0 .. NWords[f] - 1
      <4>1. /\ (v + n) + j \in upper + n .. o + n - 1
            /\ ((v + n) + j) - n = v + j
            /\ (v + n) + j \in Addresses
        BY <1>1, <1>4, <1>5, <2>5, <2>6, <3>1 DEF Addresses
      <4> QED BY <4>1, <1>8, <2>5
    <3>4. v + n \in Int /\ (v + n) + NWords[f] <= PageEnd
      BY <1>1, <1>4, <1>5, <2>5, <2>6, <3>1
    <3>5. Intact(mem', v + n, a) /\ EntryAt(mem', a) = f
      BY <2>5, <3>2, <3>3, <3>4, Placed
    <3>6. upper + n <= v + n /\ upper + n \in Int
      BY <1>1, <1>5, <2>5
    <3> QED BY <2>1, <3>4, <3>5, <3>6, Kept
  <2>9. CASE v >= o
    <3>1. o + n <= v
      BY <2>9, <1>1, <1>3, <2>4, <2>7, Apart DEF o, d, n
    <3>2. mem'[a] = LinpTo(v)
      BY <2>3, <2>5, <2>9, <1>4, <1>1 DEF Moved, LinpTo
    <3>3. \A j \in 0 .. NWords[f] - 1 : mem'[v + j] = Part(f, j)
      <4> TAKE j \in 0 .. NWords[f] - 1
      <4>1. /\ v + j \notin upper + n .. o + n - 1
            /\ v + j \notin HeaderEnd .. at - 1
            /\ v + j \notin at .. lower - 2
            /\ v + j \in Addresses
        BY <1>1, <1>2, <1>4, <1>5, <2>5, <2>6, <3>1 DEF Addresses
      <4> QED BY <4>1, <1>8, <2>5
    <3>4. v \in Int /\ v + NWords[f] <= PageEnd
      BY <2>5
    <3>5. Intact(mem', v, a) /\ EntryAt(mem', a) = f
      BY <2>5, <3>2, <3>3, <3>4, Placed
    <3>6. upper + n <= v /\ upper + n \in Int
      BY <1>1, <1>4, <1>5, <3>1, <3>4
    <3> QED BY <2>1, <3>4, <3>5, <3>6, Kept
  <2> QED BY <2>8, <2>9, <2>5, <1>4
<1>10. AllIntact(mem', upper + n, HeaderEnd .. lower - 2)
  BY <1>9 DEF AllIntact
<1>11. Distinct(mem', HeaderEnd .. lower - 2)
  <2> SUFFICES ASSUME NEW a \in HeaderEnd .. lower - 2, NEW b \in HeaderEnd .. lower - 2,
                      EntryAt(mem', a) = EntryAt(mem', b)
               PROVE  a = b
    BY DEF Distinct
  <2>1. EntryAt(mem, from(a)) = EntryAt(mem, from(b))
    BY <1>9
  <2>2. from(a) = from(b)
    BY <2>1, <1>9 DEF PageInv, Distinct
  <2> QED BY <2>2, <1>1, <1>2
<1>12. lower' \in HeaderEnd .. PageEnd /\ upper' \in lower' .. PageEnd /\ lower' - 1 = lower - 2
  BY <1>1, <1>2, <1>4, <1>5, <1>6
<1>13. \A a \in HeaderEnd .. lower - 2 :
         EntryAt(mem', a) = EntryAt(mem, IF a < at THEN a ELSE a + 1)
  BY <1>9
<1> QED BY <1>6, <1>7, <1>10, <1>11, <1>12, <1>13 DEF PageInv, at

-----------------------------------------------------------------------------
(* Adding an entry at the end of a page that is being filled.              *)

\* The slot that set_linp fills refers to the entry that is then written
\* below all others, ...
LEMMA NewEntry ==
  ASSUME NEW m, DOMAIN m = Addresses, NEW up \in Int, up <= PageEnd,
         NEW e \in PageEntries, NEW a \in Nat, a < up - NWords[e],
         NEW m2, m2 = WithEntry(WithLinp(m, a, up - NWords[e]), up - NWords[e], e)
  PROVE  /\ DOMAIN m2 = Addresses
         /\ Intact(m2, up - NWords[e], a)
         /\ EntryAt(m2, a) = e
<1> DEFINE nu == up - NWords[e]
<1>1. PageEnd \in Nat /\ NWords[e] \in Nat \ {0}
  BY LayoutAssumption
<1>2. \A x \in Addresses :
        m2[x] = IF x \in nu .. nu + NWords[e] - 1 THEN Part(e, x - nu)
                ELSE IF x = a THEN LinpTo(nu)
                ELSE m[x]
  BY DEF WithEntry, WithLinp
<1>3. DOMAIN m2 = Addresses
  BY DEF WithEntry, WithLinp
<1>4. nu \in Nat /\ nu + NWords[e] = up /\ a < nu
  BY <1>1
<1> HIDE DEF nu
<1>5. m2[a] = LinpTo(nu)
  <2>1. a \in Addresses /\ a \notin nu .. nu + NWords[e] - 1
    BY <1>1, <1>4 DEF Addresses
  <2> QED BY <2>1, <1>2
<1>6. \A j \in 0 .. NWords[e] - 1 : m2[nu + j] = Part(e, j)
  <2> TAKE j \in 0 .. NWords[e] - 1
  <2>1. nu + j \in Addresses /\ nu + j \in nu .. nu + NWords[e] - 1 /\ (nu + j) - nu = j
    BY <1>1, <1>4 DEF Addresses
  <2> QED BY <2>1, <1>2
<1>7. nu \in Int /\ nu + NWords[e] <= PageEnd
  BY <1>4
<1>8. Intact(m2, nu, a) /\ EntryAt(m2, a) = e
  BY <1>5, <1>6, <1>7, Placed
<1> QED BY <1>3, <1>8 DEF nu

\* ... and no other slot below the entries is disturbed.
LEMMA OldEntries ==
  ASSUME NEW m, DOMAIN m = Addresses, NEW up \in Int, up <= PageEnd,
         NEW e \in PageEntries, NEW a \in Nat, a < up - NWords[e],
         NEW m2, m2 = WithEntry(WithLinp(m, a, up - NWords[e]), up - NWords[e], e),
         NEW b \in Nat, b < up - NWords[e], b # a, Intact(m, up, b)
  PROVE  Intact(m2, up - NWords[e], b) /\ EntryAt(m2, b) = EntryAt(m, b)
<1> DEFINE nu == up - NWords[e]
<1>1. PageEnd \in Nat /\ NWords[e] \in Nat \ {0}
  BY LayoutAssumption
<1>2. \A x \in Addresses :
        m2[x] = IF x \in nu .. nu + NWords[e] - 1 THEN Part(e, x - nu)
                ELSE IF x = a THEN LinpTo(nu)
                ELSE m[x]
  BY DEF WithEntry, WithLinp
<1>3. nu \in Nat /\ nu + NWords[e] = up /\ a < nu /\ b < nu /\ nu <= up
  BY <1>1
<1> HIDE DEF nu
<1>4. m2[b] = m[b]
  <2>1. b \in Addresses /\ b \notin nu .. nu + NWords[e] - 1
    BY <1>1, <1>3 DEF Addresses
  <2> QED BY <2>1, <1>2
<1>5. \A x \in up .. PageEnd - 1 : m2[x] = m[x]
  <2> TAKE x \in up .. PageEnd - 1
  <2>1. x \in Addresses /\ x \notin nu .. nu + NWords[e] - 1 /\ x # a
    BY <1>1, <1>3 DEF Addresses
  <2> QED BY <2>1, <1>2
<1>6. nu \in Int
  BY <1>3
<1>7. Intact(m2, nu, b) /\ EntryAt(m2, b) = EntryAt(m, b)
  BY <1>3, <1>4, <1>5, <1>6, Kept
<1> QED BY <1>7 DEF nu

-----------------------------------------------------------------------------
(* A split.                                                                *)

\* A copy starts with no slot filled, and leaves enough entries to reach the
\* reserved one.
LEMMA BeginEstablishesCopy ==
  ASSUME PageInv, NEW i \in 1 .. NEntries + 1, NEW e \in PageEntries, BeginSplit(i, e)
  PROVE  PageInv' /\ CopyPlaces' /\ CopiesInv'
<1>1. /\ PageEnd \in Nat
      /\ lower \in HeaderEnd .. PageEnd
      /\ HeaderEnd = 10
  BY LayoutAssumption DEF PageInv, HeaderEnd
<1>2. mem' = mem /\ lower' = lower /\ upper' = upper
  BY DEF BeginSplit, pageVars
<1>3. PageInv'
  BY <1>2 DEF PageInv, AllIntact, Distinct, Intact, EntryAt, OffsetAt
<1>4. NEntries \in Nat /\ NEntries' = NEntries /\ Held' = Held
  BY <1>1, <1>2 DEF NEntries, Held, EntryAt, OffsetAt
<1>5. PICK n \in LeftSlots(i, e) :
        LET rightTarget == i - 1 >= n
            inLeft == IF rightTarget THEN n ELSE n - 1
        IN  copy' \in {Copy(1, inLeft, IF rightTarget THEN 0 ELSE i, e),
                       Copy(inLeft + 1, NEntries, IF rightTarget THEN i - n ELSE 0, e)}
  BY DEF BeginSplit
<1>6. n \in 0 .. NEntries
  BY DEF LeftSlots
<1>7. PICK first, last, reserve :
        /\ copy' = Copy(first, last, reserve, e)
        /\ first \in Nat \ {0} /\ last \in 0 .. NEntries /\ reserve \in Nat
        /\ first <= last + 1
        /\ reserve <= last - first + 2
  <2>1. CASE i - 1 >= n
    <3>1. CASE copy' = Copy(1, n, 0, e)
      BY <3>1, <1>4, <1>6
    <3>2. CASE copy' = Copy(n + 1, NEntries, i - n, e)
      <4>1. i - n \in Nat /\ i - n <= NEntries - (n + 1) + 2 /\ n + 1 <= NEntries + 1
        BY <2>1, <1>4, <1>6
      <4>2. n + 1 \in Nat \ {0} /\ NEntries \in 0 .. NEntries
        BY <1>4, <1>6
      <4> QED BY <3>2, <4>1, <4>2
    <3> QED BY <2>1, <1>5, <3>1, <3>2
  <2>2. CASE ~ (i - 1 >= n)
    <3>1. CASE copy' = Copy(1, n - 1, i, e)
      <4>1. i \in Nat /\ i <= (n - 1) - 1 + 2 /\ 1 <= (n - 1) + 1
        BY <2>2, <1>4, <1>6
      <4>2. n - 1 \in 0 .. NEntries
        BY <2>2, <1>4, <1>6
      <4> QED BY <3>1, <4>1, <4>2
    <3>2. CASE copy' = Copy((n - 1) + 1, NEntries, 0, e)
      <4>1. (n - 1) + 1 \in Nat \ {0} /\ (n - 1) + 1 <= NEntries + 1
        BY <2>2, <1>4, <1>6
      <4>2. 0 \in Nat /\ 0 <= NEntries - ((n - 1) + 1) + 2 /\ NEntries \in 0 .. NEntries
        BY <1>4, <1>6
      <4> QED BY <3>2, <4>1, <4>2
    <3> QED BY <2>2, <1>5, <3>1, <3>2
  <2> QED BY <2>1, <2>2
<1>8. /\ copy' \in CopyRecord
      /\ copy'.src = first /\ copy'.last = last /\ copy'.slot = 1
      /\ copy'.reserve = reserve /\ copy'.new = e
  BY <1>4, <1>7 DEF Copy, CopyRecord
<1>9. CopyPlaces'
  <2>1. e \notin Held' /\ bmem' = Blank /\ bupper' = PageEnd
    BY <1>4 DEF BeginSplit
  <2>2. DOMAIN bmem' = Addresses
    BY <2>1 DEF Blank, Addresses
  <2>3. copy'.reserve <= copy'.slot + (copy'.last - copy'.src) + 1
    BY <1>7, <1>8
  <2>4. Addresses' = Addresses
    BY DEF Addresses
  <2> QED BY <1>1, <1>4, <1>7, <1>8, <2>1, <2>2, <2>3, <2>4 DEF CopyPlaces
<1>10. Copied' = {}
  <2>1. HeaderEnd .. (HeaderEnd + 1 - 1) - 1 = {}
    BY <1>1
  <2> QED BY <1>8, <2>1 DEF Copied, Slot
<1>11. CopiesInv'
  BY <1>10 DEF CopiesInv, AllIntact, Distinct
<1> QED BY <1>3, <1>9, <1>11

\* One entry is copied, below those copied before and to the slot after
\* theirs, the reserved one being passed over.
LEMMA CopyOnePreservesCopy ==
  ASSUME PageInv, CopyPlaces, CopiesInv, CopyOne
  PROVE  /\ PageInv' /\ CopyPlaces' /\ CopiesInv'
         /\ Slot(copy'.slot) <= bupper' =>
              /\ Slot(copy.slot) <= bupper
              /\ EntryAt(bmem', Slot(Skipped(copy.slot))) = EntryAt(mem, Slot(copy.src))
              /\ \A a \in Copied : EntryAt(bmem', a) = EntryAt(bmem, a)
<1> DEFINE from == Slot(copy.src)
           e == EntryAt(mem, from)
           s == Skipped(copy.slot)
           nu == bupper - NWords[e]
<1>1. /\ PageEnd \in Nat
      /\ lower \in HeaderEnd .. PageEnd
      /\ HeaderEnd = 10
  BY LayoutAssumption DEF PageInv, HeaderEnd
<1>2. /\ mem' = mem /\ lower' = lower /\ upper' = upper
      /\ copy.src <= copy.last
      /\ bmem' = WithEntry(WithLinp(bmem, Slot(s), nu), nu, e)
      /\ bupper' = nu
      /\ copy' = [copy EXCEPT !.src = @ + 1, !.slot = s + 1]
  BY DEF CopyOne, pageVars
<1>3. PageInv'
  BY <1>2 DEF PageInv, AllIntact, Distinct, Intact, EntryAt, OffsetAt
<1>4. /\ copy.src \in Nat \ {0} /\ copy.last \in Nat /\ copy.slot \in Nat \ {0}
      /\ copy.reserve \in Nat /\ copy.new \in PageEntries
      /\ copy.last <= NEntries
      /\ DOMAIN bmem = Addresses /\ bupper \in Int /\ bupper <= PageEnd
      /\ copy.reserve <= copy.slot + (copy.last - copy.src) + 1
  BY DEF CopyPlaces, CopyRecord
<1>5. s = IF copy.slot = copy.reserve THEN copy.slot + 1 ELSE copy.slot
  BY DEF Skipped
<1>6. /\ copy' \in CopyRecord
      /\ copy'.src = copy.src + 1 /\ copy'.slot = s + 1
      /\ copy'.last = copy.last /\ copy'.reserve = copy.reserve /\ copy'.new = copy.new
  <2>1. s \in Nat \ {0}
    BY <1>4, <1>5
  <2>2. copy \in CopyRecord
    BY DEF CopyPlaces
  <2> HIDE DEF s
  <2>3. copy' = [copy EXCEPT !.src = copy.src + 1, !.slot = s + 1]
    BY <1>2
  <2>4. copy.src + 1 \in Nat \ {0} /\ s + 1 \in Nat \ {0}
    BY <2>1, <1>4
  <2> QED BY <2>2, <2>3, <2>4 DEF CopyRecord
<1>7. from \in HeaderEnd .. lower - 1
  BY <1>1, <1>2, <1>4 DEF Slot, NEntries
<1>8. e \in PageEntries
  BY <1>7 DEF PageInv, AllIntact, Intact
<1>9. NWords[e] \in Nat \ {0}
  BY <1>8, LayoutAssumption
<1>10. CopyPlaces'
  <2>1. NEntries' = NEntries /\ Held' = Held /\ Addresses' = Addresses
    BY <1>2 DEF NEntries, Held, EntryAt, OffsetAt, Addresses
  <2>2. DOMAIN bmem' = Addresses
    BY <1>2, <1>4 DEF WithEntry, WithLinp
  <2>3. copy'.reserve <= copy'.slot + (copy'.last - copy'.src) + 1
    BY <1>4, <1>5, <1>6
  <2>4. copy'.src <= copy'.last + 1
    BY <1>2, <1>4, <1>6
  <2>5. bupper' \in Int /\ bupper' <= PageEnd
    BY <1>1, <1>2, <1>4, <1>9
  <2>6. copy.new \notin Held
    BY DEF CopyPlaces
  <2> QED BY <1>4, <1>6, <2>1, <2>2, <2>3, <2>4, <2>5, <2>6 DEF CopyPlaces
<1> HIDE DEF from, e, s, nu
<1>11. ASSUME Slot(s + 1) <= nu
       PROVE  /\ AllIntact(bmem', nu, Copied')
              /\ Distinct(bmem', Copied')
              /\ \A a \in Copied' : \E b \in Passed' :
                   EntryAt(bmem', a) = EntryAt(mem', b)
              /\ Slot(copy.slot) <= bupper
              /\ EntryAt(bmem', Slot(s)) = e
              /\ \A a \in Copied : EntryAt(bmem', a) = EntryAt(bmem, a)
  <2>1. /\ Slot(s) \in Nat /\ Slot(s + 1) = Slot(s) + 1
        /\ Slot(copy.slot) \in Nat /\ Slot(copy.slot) <= Slot(s)
        /\ Slot(copy.reserve) \in Int
        /\ s # copy.reserve => Slot(s) # Slot(copy.reserve)
    BY <1>1, <1>4, <1>5 DEF Slot
  <2>2. s # copy.reserve
    BY <1>4, <1>5
  <2>3. Slot(s) < nu /\ nu = bupper - NWords[e] /\ Slot(copy.slot) <= bupper
    BY <1>4, <1>9, <1>11, <2>1 DEF nu
  <2>4. /\ AllIntact(bmem, bupper, Copied)
        /\ Distinct(bmem, Copied)
        /\ \A a \in Copied : \E b \in Passed : EntryAt(bmem, a) = EntryAt(mem, b)
    BY <2>3 DEF CopiesInv
  <2>5. Intact(bmem', nu, Slot(s)) /\ EntryAt(bmem', Slot(s)) = e
    BY <1>2, <1>4, <1>8, <2>1, <2>3, NewEntry
  <2>6. ASSUME NEW a \in Copied
        PROVE  Intact(bmem', nu, a) /\ EntryAt(bmem', a) = EntryAt(bmem, a)
    <3>1. a \in Nat /\ a < Slot(copy.slot)
      BY <1>1, <2>1 DEF Copied
    <3>2. a < nu /\ a # Slot(s)
      BY <2>1, <2>3, <3>1
    <3>3. Intact(bmem, bupper, a)
      BY <2>4 DEF AllIntact
    <3> QED BY <1>2, <1>4, <1>8, <2>1, <2>3, <3>1, <3>2, <3>3, OldEntries
  <2>7. Copied' = Copied \cup {Slot(s)}
    <3>1. Copied' = (HeaderEnd .. Slot(s + 1) - 1) \ {Slot(copy.reserve)}
      BY <1>6 DEF Copied, Slot
    <3>2. Slot(copy.slot) = Slot(s) \/ (Slot(s) = Slot(copy.slot) + 1
                                        /\ Slot(copy.slot) = Slot(copy.reserve))
      BY <1>1, <1>4, <1>5 DEF Slot
    <3>3. Slot(s) \in HeaderEnd .. Slot(s)
      BY <1>1, <1>4, <1>5 DEF Slot
    <3> QED BY <1>1, <2>1, <2>2, <3>1, <3>2, <3>3 DEF Copied
  <2>8. Passed' = Passed \cup {from}
    <3>1. Slot(copy.src + 1) = from + 1 /\ from \in Int /\ HeaderEnd <= from
      BY <1>1, <1>4 DEF Slot, from
    <3>2. Passed' = HeaderEnd .. (from + 1) - 1
      BY <1>6, <3>1 DEF Passed, Slot
    <3>3. Passed = HeaderEnd .. from - 1
      BY DEF Passed, from
    <3>4. HeaderEnd .. (from + 1) - 1 = (HeaderEnd .. from - 1) \cup {from}
      BY <1>1, <3>1
    <3> QED BY <3>2, <3>3, <3>4
  <2>9. ASSUME NEW a \in Copied PROVE EntryAt(bmem, a) # e
    <3>1. PICK b \in Passed : EntryAt(bmem, a) = EntryAt(mem, b)
      BY <2>4, <2>9
    <3>2. b \in HeaderEnd .. lower - 1 /\ b # from
      BY <1>1, <1>7, <3>1 DEF Passed, from
    <3> QED BY <1>7, <3>1, <3>2 DEF PageInv, Distinct, e
  <2>10. AllIntact(bmem', nu, Copied')
    BY <2>5, <2>6, <2>7 DEF AllIntact
  <2>11. Distinct(bmem', Copied')
    <3> SUFFICES ASSUME NEW a \in Copied', NEW b \in Copied',
                        EntryAt(bmem', a) = EntryAt(bmem', b)
                 PROVE  a = b
      BY DEF Distinct
    <3>1. CASE a \in Copied /\ b \in Copied
      BY <3>1, <2>4, <2>6 DEF Distinct
    <3>2. CASE a \in Copied /\ b = Slot(s)
      BY <3>2, <2>5, <2>6, <2>9
    <3>3. CASE a = Slot(s) /\ b \in Copied
      BY <3>3, <2>5, <2>6, <2>9
    <3> QED BY <2>7, <3>1, <3>2, <3>3
  <2>12. ASSUME NEW a \in Copied'
         PROVE  \E b \in Passed' : EntryAt(bmem', a) = EntryAt(mem', b)
    <3>1. CASE a \in Copied
      <4>1. PICK b \in Passed : EntryAt(bmem, a) = EntryAt(mem, b)
        BY <2>4, <3>1
      <4> QED BY <1>2, <2>6, <2>8, <3>1, <4>1
    <3>2. CASE a = Slot(s)
      BY <1>2, <2>5, <2>8, <3>2 DEF e
    <3> QED BY <2>7, <2>12, <3>1, <3>2
  <2> QED BY <2>3, <2>5, <2>6, <2>10, <2>11, <2>12
<1>12. Slot(copy'.slot) <= bupper' <=> Slot(s + 1) <= nu
  BY <1>2, <1>6 DEF Slot
<1>13. CopiesInv'
  BY <1>2, <1>11, <1>12 DEF CopiesInv
<1> QED BY <1>3, <1>10, <1>11, <1>12, <1>13 DEF from, e, s

\* A fresh page that parse accepts has all its slots filled, the reserved
\* one included.
LEMMA CommitPreservesInv ==
  ASSUME PageInv, CopyPlaces, CopiesInv, CommitSplit
  PROVE  /\ PageInv' /\ copy' = NoCopy
         /\ Slot(copy.slot) <= bupper
         /\ \A a \in HeaderEnd .. lower' - 1 :
              IF a = Slot(copy.reserve) THEN EntryAt(mem', a) = copy.new
              ELSE a \in Copied /\ EntryAt(mem', a) = EntryAt(bmem, a)
<1> DEFINE e == copy.new
           nu == bupper - NWords[e]
<1>1. /\ PageEnd \in Nat
      /\ lower \in HeaderEnd .. PageEnd
      /\ HeaderEnd = 10
  BY LayoutAssumption DEF PageInv, HeaderEnd
<1>2. /\ mem' = CopiedMem /\ lower' = CopiedLower /\ upper' = CopiedUpper
      /\ CopiedLower <= CopiedUpper
      /\ copy.src > copy.last
      /\ copy' = NoCopy
  BY DEF CommitSplit, AllCopied, NoMoreCopy
<1>3. /\ copy.src \in Nat \ {0} /\ copy.last \in Nat /\ copy.slot \in Nat \ {0}
      /\ copy.reserve \in Nat /\ e \in PageEntries
      /\ copy.src <= copy.last + 1
      /\ copy.last <= NEntries
      /\ DOMAIN bmem = Addresses /\ bupper \in Int /\ bupper <= PageEnd
      /\ copy.reserve <= copy.slot + (copy.last - copy.src) + 1
      /\ e \notin Held
  BY DEF CopyPlaces, CopyRecord
<1>4. copy.reserve <= copy.slot
  BY <1>2, <1>3
<1>5. NWords[e] \in Nat \ {0}
  BY <1>3, LayoutAssumption
<1>6. /\ Slot(copy.slot) \in Nat /\ Slot(copy.slot) >= HeaderEnd
      /\ Slot(copy.reserve) \in Nat
  BY <1>1, <1>3 DEF Slot
<1>7. Addresses' = Addresses
  BY DEF Addresses
<1> HIDE DEF e, nu
<1>8. CASE copy.reserve = 0
  <2>1. /\ CopiedMem = bmem /\ CopiedUpper = bupper /\ CopiedLower = Slot(copy.slot)
    BY <1>3, <1>8 DEF CopiedMem, CopiedUpper, CopiedLower, Skipped
  <2>2. AllIntact(bmem, bupper, Copied) /\ Distinct(bmem, Copied)
    BY <1>2, <2>1 DEF CopiesInv
  <2>3. Copied = HeaderEnd .. Slot(copy.slot) - 1
    BY <1>1, <1>8 DEF Copied, Slot
  <2>4. lower' \in HeaderEnd .. PageEnd /\ upper' \in lower' .. PageEnd
    BY <1>1, <1>2, <1>3, <1>6, <2>1
  <2>5. ASSUME NEW a \in HeaderEnd .. lower' - 1
        PROVE  a # Slot(copy.reserve) /\ a \in Copied /\ mem' = bmem
    BY <1>1, <1>2, <1>8, <2>1, <2>3 DEF Slot
  <2>6. PageInv'
    BY <1>2, <1>3, <1>7, <2>1, <2>2, <2>3, <2>4 DEF PageInv
  <2>7. Slot(copy.slot) <= bupper
    BY <1>2, <2>1
  <2> QED BY <1>2, <2>5, <2>6, <2>7
<1>9. CASE copy.reserve # 0
  <2>1. /\ CopiedMem = WithEntry(WithLinp(bmem, Slot(copy.reserve), nu), nu, e)
        /\ CopiedUpper = nu
        /\ CopiedLower = IF copy.slot = copy.reserve
                         THEN Slot(copy.slot + 1) ELSE Slot(copy.slot)
    BY <1>9 DEF CopiedMem, CopiedUpper, CopiedLower, Skipped, e, nu
  <2>2. /\ CopiedLower \in Nat /\ CopiedLower <= nu /\ nu = bupper - NWords[e]
        /\ Slot(copy.slot) <= CopiedLower
        /\ Slot(copy.slot) <= bupper
        /\ Slot(copy.reserve) < CopiedLower
        /\ HeaderEnd <= Slot(copy.reserve)
        /\ nu < PageEnd
    BY <1>1, <1>2, <1>3, <1>4, <1>5, <1>9, <2>1 DEF Slot, nu
  <2>3. /\ AllIntact(bmem, bupper, Copied)
        /\ Distinct(bmem, Copied)
        /\ \A a \in Copied : \E b \in Passed : EntryAt(bmem, a) = EntryAt(mem, b)
    BY <2>2 DEF CopiesInv
  <2>4. /\ DOMAIN CopiedMem = Addresses
        /\ Intact(CopiedMem, nu, Slot(copy.reserve))
        /\ EntryAt(CopiedMem, Slot(copy.reserve)) = e
    <3>1. Slot(copy.reserve) < bupper - NWords[e]
      BY <1>6, <2>2, <1>3, <1>5
    <3> QED BY <1>3, <1>6, <2>1, <2>2, <3>1, NewEntry
  <2>5. ASSUME NEW a \in Copied
        PROVE  Intact(CopiedMem, nu, a) /\ EntryAt(CopiedMem, a) = EntryAt(bmem, a)
    <3>1. a \in Nat /\ a < Slot(copy.slot) /\ a # Slot(copy.reserve)
      BY <1>1, <1>6 DEF Copied
    <3>2. a < bupper - NWords[e] /\ Slot(copy.reserve) < bupper - NWords[e]
      BY <1>3, <1>5, <1>6, <2>2, <3>1
    <3>3. Intact(bmem, bupper, a)
      BY <2>3 DEF AllIntact
    <3> QED BY <1>3, <1>6, <2>1, <2>2, <3>1, <3>2, <3>3, OldEntries
  <2>6. HeaderEnd .. CopiedLower - 1 = Copied \cup {Slot(copy.reserve)}
    <3>1. CASE copy.slot = copy.reserve
      <4>1. CopiedLower = Slot(copy.slot) + 1
        BY <1>1, <1>3, <2>1, <3>1 DEF Slot
      <4> QED BY <1>1, <1>6, <2>2, <3>1, <4>1 DEF Copied
    <3>2. CASE copy.slot # copy.reserve
      BY <1>1, <1>6, <2>1, <2>2, <3>2 DEF Copied
    <3> QED BY <3>1, <3>2
  <2>7. ASSUME NEW a \in Copied PROVE EntryAt(bmem, a) # e
    <3>1. PICK b \in Passed : EntryAt(bmem, a) = EntryAt(mem, b)
      BY <2>3, <2>7
    <3>2. b \in HeaderEnd .. lower - 1
      BY <1>1, <1>3, <3>1 DEF Passed, Slot, NEntries
    <3>3. EntryAt(mem, b) \in Held
      BY <3>2 DEF Held
    <3> QED BY <1>3, <3>1, <3>3
  <2>8. AllIntact(CopiedMem, nu, HeaderEnd .. CopiedLower - 1)
    BY <2>4, <2>5, <2>6 DEF AllIntact
  <2>9. Distinct(CopiedMem, HeaderEnd .. CopiedLower - 1)
    <3> SUFFICES ASSUME NEW a \in HeaderEnd .. CopiedLower - 1,
                        NEW b \in HeaderEnd .. CopiedLower - 1,
                        EntryAt(CopiedMem, a) = EntryAt(CopiedMem, b)
                 PROVE  a = b
      BY DEF Distinct
    <3>1. CASE a \in Copied /\ b \in Copied
      BY <3>1, <2>3, <2>5 DEF Distinct
    <3>2. CASE a \in Copied /\ b = Slot(copy.reserve)
      BY <3>2, <2>4, <2>5, <2>7
    <3>3. CASE a = Slot(copy.reserve) /\ b \in Copied
      BY <3>3, <2>4, <2>5, <2>7
    <3> QED BY <2>6, <3>1, <3>2, <3>3
  <2>10. lower' \in HeaderEnd .. PageEnd /\ upper' \in lower' .. PageEnd
    BY <1>1, <1>2, <1>3, <1>5, <1>6, <2>1, <2>2
  <2>11. PageInv'
    BY <1>2, <1>7, <2>1, <2>4, <2>8, <2>9, <2>10 DEF PageInv
  <2>12. ASSUME NEW a \in HeaderEnd .. lower' - 1
         PROVE  IF a = Slot(copy.reserve) THEN EntryAt(mem', a) = e
                ELSE a \in Copied /\ EntryAt(mem', a) = EntryAt(bmem, a)
    BY <1>2, <2>4, <2>5, <2>6
  <2> QED BY <1>2, <2>2, <2>11, <2>12 DEF e
<1> QED BY <1>2, <1>8, <1>9

-----------------------------------------------------------------------------
(* The root, and the first theorem.                                        *)

\* A root page that was split refers to its two new entries, whatever was in
\* it.
LEMMA ConvertPreservesInv ==
  ASSUME PageInv, copy = NoCopy,
         NEW e1 \in PageEntries, NEW e2 \in PageEntries, ConvertRoot(e1, e2)
  PROVE  /\ PageInv' /\ copy' = NoCopy
         /\ EntryAt(mem', Slot(1)) = e1 /\ EntryAt(mem', Slot(2)) = e2
<1> DEFINE o1 == PageEnd - NWords[e1]
           o2 == o1 - NWords[e2]
<1>1. /\ PageEnd \in Nat
      /\ HeaderEnd = 10 /\ Slot(1) = 10 /\ Slot(2) = 11 /\ Slot(3) = 12
      /\ NWords[e1] \in Nat \ {0} /\ NWords[e2] \in Nat \ {0}
  BY LayoutAssumption DEF HeaderEnd, Slot
<1>2. /\ e1 # e2
      /\ NWords[e1] + NWords[e2] + 2 <= PageEnd - HeaderEnd
      /\ mem' = WithLinp(WithLinp(WithEntry(WithEntry(mem, o1, e1), o2, e2),
                                 Slot(1), o1), Slot(2), o2)
      /\ lower' = Slot(3) /\ upper' = o2
      /\ copy' = copy
  BY DEF ConvertRoot, copyVars
<1>3. /\ o1 \in Nat /\ o2 \in Nat /\ o2 >= 12 /\ o2 < PageEnd
      /\ o1 + NWords[e1] = PageEnd /\ o2 + NWords[e2] = o1
  BY <1>1, <1>2
<1>4. DOMAIN mem' = Addresses
  BY <1>2 DEF WithEntry, WithLinp, PageInv
<1>5. \A x \in Addresses :
        mem'[x] = IF x = 11 THEN LinpTo(o2)
                  ELSE IF x = 10 THEN LinpTo(o1)
                  ELSE IF x \in o2 .. o2 + NWords[e2] - 1 THEN Part(e2, x - o2)
                  ELSE IF x \in o1 .. o1 + NWords[e1] - 1 THEN Part(e1, x - o1)
                  ELSE mem[x]
  BY <1>1, <1>2 DEF WithEntry, WithLinp, PageInv
<1> HIDE DEF o1, o2
<1>6. Intact(mem', o1, 10) /\ EntryAt(mem', 10) = e1
  <2>1. mem'[10] = LinpTo(o1)
    BY <1>1, <1>3, <1>5 DEF Addresses
  <2>2. \A j \in 0 .. NWords[e1] - 1 : mem'[o1 + j] = Part(e1, j)
    <3> TAKE j \in 0 .. NWords[e1] - 1
    <3>1. /\ o1 + j \in Addresses /\ o1 + j # 10 /\ o1 + j # 11
          /\ o1 + j \notin o2 .. o2 + NWords[e2] - 1
          /\ o1 + j \in o1 .. o1 + NWords[e1] - 1 /\ (o1 + j) - o1 = j
      BY <1>1, <1>3 DEF Addresses
    <3> QED BY <3>1, <1>5
  <2>3. o1 \in Int /\ o1 + NWords[e1] <= PageEnd
    BY <1>1, <1>3
  <2> QED BY <2>1, <2>2, <2>3, Placed
<1>7. Intact(mem', o2, 11) /\ EntryAt(mem', 11) = e2
  <2>1. mem'[11] = LinpTo(o2)
    BY <1>1, <1>3, <1>5 DEF Addresses
  <2>2. \A j \in 0 .. NWords[e2] - 1 : mem'[o2 + j] = Part(e2, j)
    <3> TAKE j \in 0 .. NWords[e2] - 1
    <3>1. /\ o2 + j \in Addresses /\ o2 + j # 10 /\ o2 + j # 11
          /\ o2 + j \in o2 .. o2 + NWords[e2] - 1 /\ (o2 + j) - o2 = j
      BY <1>1, <1>3 DEF Addresses
    <3> QED BY <3>1, <1>5
  <2>3. o2 \in Int /\ o2 + NWords[e2] <= PageEnd
    BY <1>1, <1>3
  <2> QED BY <2>1, <2>2, <2>3, Placed
<1>8. Intact(mem', o2, 10)
  BY <1>1, <1>3, <1>6, Kept
<1>9. HeaderEnd .. lower' - 1 = {10, 11}
  BY <1>1, <1>2
<1>10. AllIntact(mem', o2, {10, 11}) /\ Distinct(mem', {10, 11})
  BY <1>2, <1>6, <1>7, <1>8 DEF AllIntact, Distinct
<1>11. lower' \in HeaderEnd .. PageEnd /\ upper' \in lower' .. PageEnd
  BY <1>1, <1>2, <1>3
<1>12. PageInv'
  BY <1>2, <1>4, <1>9, <1>10, <1>11 DEF PageInv
<1> QED BY <1>1, <1>2, <1>6, <1>7, <1>12

\* Every step preserves the invariant.
LEMMA NextPreservesInv == LayoutInv /\ [Next]_layoutVars => LayoutInv'
<1> SUFFICES ASSUME LayoutInv, [Next]_layoutVars, ~ garbled'
             PROVE  PageInv' /\ (copy' = NoCopy \/ (CopyPlaces' /\ CopiesInv'))
  BY DEF LayoutInv
<1>1. CASE UNCHANGED layoutVars
  <2>1. ~ garbled
    BY <1>1 DEF layoutVars
  <2>2. PageInv /\ (copy = NoCopy \/ (CopyPlaces /\ CopiesInv))
    BY <2>1 DEF LayoutInv
  <2>3. PageInv'
    BY <1>1, <2>2 DEF PageInv, AllIntact, Distinct, Intact, EntryAt, OffsetAt, Addresses,
                      layoutVars, pageVars
  <2>4. copy = NoCopy => copy' = NoCopy
    BY <1>1 DEF layoutVars, copyVars
  <2>5. CopyPlaces => CopyPlaces'
    BY <1>1 DEF CopyPlaces, CopyRecord, Held, EntryAt, OffsetAt, NEntries, Addresses,
                layoutVars, pageVars, copyVars
  <2>6. CopiesInv => CopiesInv'
    BY <1>1 DEF CopiesInv, AllIntact, Distinct, Copied, Passed, Intact, EntryAt, OffsetAt,
                Slot, layoutVars, pageVars, copyVars
  <2> QED BY <2>2, <2>3, <2>4, <2>5, <2>6
<1>2. CASE Next
  <2>1. ~ garbled
    BY <1>2 DEF Next, Insert, BeginSplit, Delete, CopyOne, CommitSplit, RefuseSplit,
                GarbleSplit, ConvertRoot
  <2>2. PageInv /\ (copy = NoCopy \/ (CopyPlaces /\ CopiesInv))
    BY <2>1 DEF LayoutInv
  <2>3. copy = NoCopy => ~ copy.on
    BY DEF NoCopy
  <2>4. CopyPlaces => copy.on
    BY DEF CopyPlaces, CopyRecord
  <2>5. ASSUME NEW i \in 1 .. NEntries + 1, NEW e \in PageEntries, Insert(i, e)
        PROVE  PageInv' /\ copy' = NoCopy
    <3>1. copy = NoCopy
      BY <2>2, <2>4, <2>5 DEF Insert
    <3> QED BY <2>2, <2>5, <3>1, InsertPreservesInv
  <2>6. ASSUME NEW i \in 1 .. NEntries + 1, NEW e \in PageEntries, BeginSplit(i, e)
        PROVE  PageInv' /\ CopyPlaces' /\ CopiesInv'
    BY <2>2, <2>6, BeginEstablishesCopy
  <2>7. ASSUME NEW i \in 1 .. NEntries, Delete(i)
        PROVE  PageInv' /\ copy' = NoCopy
    <3>1. copy = NoCopy
      BY <2>2, <2>4, <2>7 DEF Delete
    <3> QED BY <2>2, <2>7, <3>1, DeletePreservesInv
  <2>8. CASE CopyOne
    <3>1. CopyPlaces /\ CopiesInv
      BY <2>2, <2>3, <2>8 DEF CopyOne
    <3> QED BY <2>2, <2>8, <3>1, CopyOnePreservesCopy
  <2>9. CASE CommitSplit
    <3>1. CopyPlaces /\ CopiesInv
      BY <2>2, <2>3, <2>9 DEF CommitSplit, AllCopied
    <3> QED BY <2>2, <2>9, <3>1, CommitPreservesInv
  <2>10. CASE RefuseSplit
    <3>1. mem' = mem /\ lower' = lower /\ upper' = upper /\ copy' = NoCopy
      BY <2>10 DEF RefuseSplit, NoMoreCopy, pageVars
    <3> QED BY <2>2, <3>1 DEF PageInv, AllIntact, Distinct, Intact, EntryAt, OffsetAt,
                              Addresses
  <2>11. CASE GarbleSplit
    BY <2>11 DEF GarbleSplit
  <2>12. ASSUME NEW e1 \in PageEntries, NEW e2 \in PageEntries, ConvertRoot(e1, e2)
         PROVE  PageInv' /\ copy' = NoCopy
    <3>1. copy = NoCopy
      BY <2>2, <2>4, <2>12 DEF ConvertRoot
    <3> QED BY <2>2, <2>12, <3>1, ConvertPreservesInv
  <2> QED BY <1>2, <2>5, <2>6, <2>7, <2>8, <2>9, <2>10, <2>11, <2>12 DEF Next
<1> QED BY <1>1, <1>2

\* Every slot of a page always refers to an entry that is there in full, for
\* every set of entries and every page size: whatever insertions, deletions
\* and splits have moved since, until a page is accepted whose header was
\* written over.
THEOREM SlotsAlwaysIntact == Spec => []SlotsIntact
<1>1. LayoutInv => SlotsIntact
  <2> SUFFICES ASSUME PageInv
               PROVE  lower <= upper /\ \A a \in HeaderEnd .. lower - 1 : Intact(mem, upper, a)
    BY DEF LayoutInv, SlotsIntact
  <2>1. lower <= upper
    BY LayoutAssumption DEF PageInv, HeaderEnd
  <2> QED BY <2>1 DEF PageInv, AllIntact
<1> QED BY <1>1, InitEstablishesInv, NextPreservesInv, PTL DEF Spec

-----------------------------------------------------------------------------
(* What entries take of a page.                                            *)

\* What an entry takes with its slot, in bytes.
RoomOf(e) == 2 * (NWords[e] + 1)

\* It is a number.
LEMMA RoomNat == \A e \in PageEntries : RoomOf(e) \in Nat
  BY LayoutAssumption DEF RoomOf

\* PrefixCost is the running sum its definition describes.
LEMMA CostFacts ==
  ASSUME NEW s \in Seq(PageEntries)
  PROVE  /\ PrefixCost(s) \in [0 .. Len(s) -> Nat]
         /\ PrefixCost(s)[0] = 0
         /\ \A i \in 1 .. Len(s) :
              PrefixCost(s)[i] = PrefixCost(s)[i - 1] + RoomOf(s[i])
<1> DEFINE n == Len(s)
           w(i) == RoomOf(s[i])
           F(c) == [i \in 0 .. n |-> IF i = 0 THEN 0 ELSE c[i - 1] + RoomOf(s[i])]
           Sums(m, c) == c[0] = 0 /\ \A i \in 1 .. m : c[i] = c[i - 1] + w(i)
           T == {m \in Nat : m <= n => \E c \in [0 .. n -> Nat] : Sums(m, c)}
<1>0. n \in Nat /\ \A i \in 1 .. n : w(i) \in Nat
  <2>1. n \in Nat /\ \A i \in 1 .. n : s[i] \in PageEntries
    OBVIOUS
  <2>2. \A i \in 1 .. n : RoomOf(s[i]) \in Nat
    BY <2>1, RoomNat
  <2> HIDE DEF n
  <2> QED
    BY <2>1, <2>2
<1>1. PrefixCost(s) = CHOOSE c : c = F(c)
  BY DEF PrefixCost, RoomOf
<1>2. \A c : F(c) = [i \in 0 .. n |-> IF i = 0 THEN 0 ELSE c[i - 1] + w(i)]
  OBVIOUS
<1> HIDE DEF w, n
<1>3. 0 \in T
  <2>1. [i \in 0 .. n |-> 0] \in [0 .. n -> Nat] /\ Sums(0, [i \in 0 .. n |-> 0])
    BY <1>0
  <2> HIDE DEF Sums
  <2> QED
    BY <2>1
<1>4. ASSUME NEW m \in T PROVE m + 1 \in T
  <2>1. m \in Nat /\ m + 1 \in Nat
    OBVIOUS
  <2> SUFFICES ASSUME m + 1 <= n
               PROVE  \E c \in [0 .. n -> Nat] : Sums(m + 1, c)
    BY <2>1
  <2>2. PICK c \in [0 .. n -> Nat] : Sums(m, c)
    BY <1>0, <2>1
  <2> DEFINE d == [c EXCEPT ![m + 1] = c[m] + w(m + 1)]
  <2>3. m \in 0 .. n /\ m + 1 \in 1 .. n
    BY <1>0, <2>1
  <2>4. d \in [0 .. n -> Nat]
    BY <1>0, <2>2, <2>3
  <2>5. (\A i \in 0 .. m : d[i] = c[i]) /\ d[m + 1] = c[m] + w(m + 1)
    BY <1>0, <2>2, <2>3
  <2> HIDE DEF d
  <2>6. ASSUME NEW i \in 1 .. m + 1 PROVE d[i] = d[i - 1] + w(i)
    <3>1. CASE i = m + 1
      BY <2>1, <2>5, <3>1
    <3>2. CASE i # m + 1
      <4>1. i \in 1 .. m /\ i \in 0 .. m /\ i - 1 \in 0 .. m
        BY <2>1, <3>2
      <4> QED
        BY <2>2, <2>5, <4>1
    <3> QED
      BY <3>1, <3>2
  <2>7. Sums(m + 1, d)
    BY <2>1, <2>2, <2>5, <2>6
  <2> HIDE DEF Sums
  <2> QED
    BY <2>4, <2>7
<1>5. T = Nat
  <2>1. T \in SUBSET Nat
    OBVIOUS
  <2> HIDE DEF T
  <2> QED
    BY <1>3, <1>4, <2>1, NatInd
<1>6. PICK c \in [0 .. n -> Nat] : Sums(n, c)
  <2>1. n \in T
    <3> HIDE DEF T
    <3> QED
      BY <1>0, <1>5
  <2>2. n <= n
    BY <1>0
  <2> HIDE DEF Sums
  <2> QED
    BY <2>1, <2>2
<1>7. c = F(c)
  <2>1. \A i \in 0 .. n : i # 0 => i \in 1 .. n /\ i - 1 \in 0 .. n
    BY <1>0
  <2>2. \A i \in 0 .. n : (IF i = 0 THEN 0 ELSE c[i - 1] + w(i)) = c[i]
    BY <1>6, <2>1
  <2> HIDE DEF F
  <2> QED
    BY <1>2, <1>6, <2>2
<1> DEFINE pre == PrefixCost(s)
<1>8. pre = F(pre)
  <2> HIDE DEF F
  <2> QED
    BY <1>1, <1>7
<1>9. pre = [i \in 0 .. n |-> IF i = 0 THEN 0 ELSE pre[i - 1] + w(i)]
  <2> HIDE DEF F, pre
  <2> QED
    BY <1>2, <1>8
<1> HIDE DEF pre
<1>10. /\ DOMAIN pre = 0 .. n
       /\ pre[0] = 0
       /\ \A i \in 1 .. n : pre[i] = pre[i - 1] + w(i)
  <2>1. DOMAIN pre = 0 .. n
    BY <1>9
  <2>2. 0 \in 0 .. n /\ \A i \in 1 .. n : i \in 0 .. n /\ i # 0
    BY <1>0
  <2> QED
    BY <1>9, <2>1, <2>2
<1> DEFINE U == {m \in Nat : m <= n => pre[m] \in Nat}
<1>11. 0 \in U
  BY <1>10
<1>12. ASSUME NEW m \in U PROVE m + 1 \in U
  <2> SUFFICES ASSUME m + 1 <= n PROVE pre[m + 1] \in Nat
    OBVIOUS
  <2>1. m \in Nat /\ pre[m] \in Nat /\ m + 1 \in 1 .. n /\ (m + 1) - 1 = m
    BY <1>0
  <2> QED
    BY <1>0, <1>10, <2>1
<1>13. U = Nat
  <2>1. U \in SUBSET Nat
    OBVIOUS
  <2> HIDE DEF U
  <2> QED
    BY <1>11, <1>12, <2>1, NatInd
<1>14. \A i \in 0 .. n : pre[i] \in Nat
  BY <1>0, <1>13
<1>15. pre \in [0 .. n -> Nat]
  BY <1>9, <1>10, <1>14
<1> QED
  BY <1>10, <1>15 DEF pre, n, w

\* t has k entries from b on that s has from a on.
Alike(s, t, a, b, k) ==
  /\ a \in Nat /\ b \in Nat /\ k \in Nat
  /\ a + k <= Len(s) /\ b + k <= Len(t)
  /\ \A i \in 1 .. k : t[b + i] = s[a + i]

\* What entries take is the same wherever they begin.
LEMMA CostShift ==
  ASSUME NEW s \in Seq(PageEntries), NEW t \in Seq(PageEntries),
         NEW a, NEW b, NEW k, Alike(s, t, a, b, k)
  PROVE  PrefixCost(t)[b + k] + PrefixCost(s)[a] = PrefixCost(s)[a + k] + PrefixCost(t)[b]
<1> DEFINE p == PrefixCost(s)
           q == PrefixCost(t)
           T == {m \in Nat : m <= k => q[b + m] + p[a] = p[a + m] + q[b]}
<1>0. /\ a \in Nat /\ b \in Nat /\ k \in Nat
      /\ a + k <= Len(s) /\ b + k <= Len(t)
      /\ \A i \in 1 .. k : t[b + i] = s[a + i]
  BY DEF Alike
<1>1. /\ Len(s) \in Nat /\ Len(t) \in Nat
      /\ \A m \in 0 .. k : p[a + m] \in Nat /\ q[b + m] \in Nat
      /\ \A m \in 1 .. k : /\ p[a + m] = p[a + m - 1] + RoomOf(s[a + m])
                           /\ q[b + m] = q[b + m - 1] + RoomOf(s[a + m])
                           /\ RoomOf(s[a + m]) \in Nat
  <2>1. Len(s) \in Nat /\ Len(t) \in Nat
    OBVIOUS
  <2>2. \A m \in 1 .. k : a + m \in 1 .. Len(s) /\ b + m \in 1 .. Len(t)
    BY <1>0, <2>1
  <2>3. \A m \in 0 .. k : a + m \in 0 .. Len(s) /\ b + m \in 0 .. Len(t)
    BY <1>0, <2>1
  <2>4. p \in [0 .. Len(s) -> Nat] /\ q \in [0 .. Len(t) -> Nat]
    BY CostFacts
  <2>5. \A m \in 1 .. Len(s) : p[m] = p[m - 1] + RoomOf(s[m])
    BY CostFacts
  <2>6. \A m \in 1 .. Len(t) : q[m] = q[m - 1] + RoomOf(t[m])
    BY CostFacts
  <2>7. \A m \in 1 .. Len(s) : RoomOf(s[m]) \in Nat
    BY RoomNat
  <2> HIDE DEF p, q
  <2>8. \A m \in 0 .. k : p[a + m] \in Nat /\ q[b + m] \in Nat
    BY <2>3, <2>4
  <2>9. ASSUME NEW m \in 1 .. k
        PROVE  /\ p[a + m] = p[a + m - 1] + RoomOf(s[a + m])
               /\ q[b + m] = q[b + m - 1] + RoomOf(s[a + m])
               /\ RoomOf(s[a + m]) \in Nat
    <3> DEFINE u == a + m
               v == b + m
    <3>0. a + m - 1 = u - 1 /\ b + m - 1 = v - 1
      BY <1>0
    <3>1. u \in 1 .. Len(s) /\ v \in 1 .. Len(t) /\ t[v] = s[u]
      BY <1>0, <2>2
    <3> HIDE DEF u, v
    <3>2. /\ p[u] = p[u - 1] + RoomOf(s[u])
          /\ q[v] = q[v - 1] + RoomOf(s[u])
          /\ RoomOf(s[u]) \in Nat
      BY <3>1, <2>5, <2>6, <2>7
    <3>3. u = a + m /\ v = b + m
      BY DEF u, v
    <3> QED
      BY <3>0, <3>2, <3>3
  <2> QED
    BY <2>1, <2>8, <2>9
<1> HIDE DEF p, q
<1>2. 0 \in T
  <2>1. a + 0 = a /\ b + 0 = b /\ 0 \in 0 .. k
    BY <1>0
  <2>2. p[a] \in Nat /\ q[b] \in Nat
    BY <1>1, <2>1
  <2> QED
    BY <2>1, <2>2
<1>3. ASSUME NEW m \in T PROVE m + 1 \in T
  <2> SUFFICES ASSUME m + 1 <= k
               PROVE  q[b + (m + 1)] + p[a] = p[a + (m + 1)] + q[b]
    OBVIOUS
  <2>1. /\ m \in 0 .. k /\ m + 1 \in 1 .. k /\ 0 \in 0 .. k
        /\ a + (m + 1) - 1 = a + m /\ b + (m + 1) - 1 = b + m
        /\ a + 0 = a /\ b + 0 = b
    BY <1>0
  <2> DEFINE x == RoomOf(s[a + (m + 1)])
             j == m + 1
  <2>2. /\ p[a + (m + 1)] = p[a + m] + x
        /\ q[b + (m + 1)] = q[b + m] + x
        /\ x \in Nat
    <3>1. /\ j \in 1 .. k /\ a + j - 1 = a + m /\ b + j - 1 = b + m
      BY <2>1
    <3> HIDE DEF j
    <3>2. /\ p[a + j] = p[a + m] + RoomOf(s[a + j])
          /\ q[b + j] = q[b + m] + RoomOf(s[a + j])
          /\ RoomOf(s[a + j]) \in Nat
      BY <1>1, <3>1
    <3> QED
      BY <3>2 DEF j
  <2> HIDE DEF x
  <2>3. /\ p[a + m] \in Nat /\ q[b + m] \in Nat /\ p[a] \in Nat /\ q[b] \in Nat
        /\ q[b + m] + p[a] = p[a + m] + q[b]
    <3>1. p[a + 0] \in Nat /\ q[b + 0] \in Nat
      BY <1>1, <2>1
    <3> QED
      BY <1>1, <2>1, <3>1
  <2> HIDE DEF T, j
  <2> DEFINE pa == p[a]
             qb == q[b]
             pm == p[a + m]
             qm == q[b + m]
             pj == p[a + (m + 1)]
             qj == q[b + (m + 1)]
  <2>4. /\ pj = pm + x /\ qj = qm + x /\ x \in Nat
        /\ pm \in Nat /\ qm \in Nat /\ pa \in Nat /\ qb \in Nat
        /\ qm + pa = pm + qb
    BY <2>2, <2>3
  <2>5. qj + pa = pj + qb
    <3> HIDE DEF pa, qb, pm, qm, pj, qj
    <3> QED
      BY <2>4
  <2> QED
    BY <2>5
<1>4. T = Nat
  <2>1. T \in SUBSET Nat
    OBVIOUS
  <2> HIDE DEF T
  <2> QED
    BY <1>2, <1>3, <2>1, NatInd
<1>5. k \in T
  <2> HIDE DEF T
  <2> QED
    BY <1>0, <1>4
<1> QED
  BY <1>5 DEF p, q

\* t is s with one more entry, e, at place pos.
OneMore(t, s, pos, e) ==
  /\ pos \in 1 .. Len(s) + 1
  /\ Len(t) = Len(s) + 1
  /\ \A i \in 1 .. Len(t) :
       t[i] = IF i < pos THEN s[i] ELSE IF i = pos THEN e ELSE s[i - 1]

\* One more entry takes its half-words and a slot, whatever its place.
LEMMA CostOneMore ==
  ASSUME NEW s \in Seq(PageEntries), NEW t \in Seq(PageEntries), NEW pos, NEW e,
         OneMore(t, s, pos, e)
  PROVE  /\ \A k \in 0 .. pos - 1 : PrefixCost(t)[k] = PrefixCost(s)[k]
         /\ \A k \in pos .. Len(t) :
              PrefixCost(t)[k] = PrefixCost(s)[k - 1] + RoomOf(e)
<1> DEFINE p == PrefixCost(s)
           q == PrefixCost(t)
<1>1. Len(s) \in Nat /\ Len(t) = Len(s) + 1 /\ pos \in 1 .. Len(s) + 1
  BY DEF OneMore
<1>2. p \in [0 .. Len(s) -> Nat] /\ q \in [0 .. Len(t) -> Nat] /\ p[0] = 0 /\ q[0] = 0
  BY CostFacts
<1>3. ASSUME NEW k \in 0 .. pos - 1 PROVE q[k] = p[k]
  <2> DEFINE a == 0
  <2>1. Alike(s, t, a, a, k)
    <3>1. ASSUME NEW i \in 1 .. k PROVE t[a + i] = s[a + i]
      <4>1. a + i = i /\ i \in 1 .. Len(t) /\ i < pos
        BY <1>1
      <4> QED
        BY <4>1 DEF OneMore
    <3>2. a \in Nat /\ k \in Nat /\ a + k <= Len(s) /\ a + k <= Len(t)
      BY <1>1
    <3> HIDE DEF a
    <3> QED
      BY <3>1, <3>2 DEF Alike
  <2>2. a + k = k /\ a = 0
    BY <1>1
  <2> HIDE DEF a
  <2>3. q[a + k] + p[a] = p[a + k] + q[a]
    BY <2>1, CostShift
  <2>4. k \in 0 .. Len(s) /\ k \in 0 .. Len(t)
    BY <1>1
  <2> HIDE DEF p, q
  <2>5. p[k] \in Nat /\ q[k] \in Nat
    BY <1>2, <2>4
  <2> QED
    BY <1>2, <2>2, <2>3, <2>5
<1>4. q[pos] = q[pos - 1] + RoomOf(e) /\ RoomOf(e) \in Nat
  <2>1. pos \in 1 .. Len(t) /\ t[pos] = e
    BY <1>1 DEF OneMore
  <2>2. e \in PageEntries
    BY <2>1
  <2> QED
    BY <2>1, <2>2, CostFacts, RoomNat
<1>5. ASSUME NEW k \in pos .. Len(t) PROVE q[k] = p[k - 1] + RoomOf(e)
  <2> DEFINE m == k - pos
             a == pos - 1
  <2>1. /\ m \in Nat /\ pos + m = k /\ a + m = k - 1 /\ pos \in Nat /\ a \in Nat
        /\ pos + m <= Len(t) /\ a + m <= Len(s)
    BY <1>1
  <2>2. \A i \in 1 .. m : t[pos + i] = s[a + i]
    <3> TAKE i \in 1 .. m
    <3>1. pos + i \in 1 .. Len(t) /\ ~ (pos + i < pos) /\ pos + i # pos /\ pos + i - 1 = a + i
      BY <1>1
    <3> QED
      BY <3>1 DEF OneMore
  <2> HIDE DEF m, a
  <2>3. q[pos + m] + p[a] = p[a + m] + q[pos]
    <3>1. Alike(s, t, a, pos, m)
      BY <2>1, <2>2 DEF Alike
    <3> QED
      BY <3>1, CostShift
  <2> HIDE DEF p, q
  <2>4. a \in 0 .. pos - 1 /\ a = pos - 1
    BY <1>1 DEF a
  <2>5. q[a] = p[a]
    BY <1>3, <2>4
  <2>6. a \in 0 .. Len(s) /\ k - 1 \in 0 .. Len(s) /\ k \in 0 .. Len(t) /\ pos \in 0 .. Len(t)
    BY <1>1, <2>1
  <2>7. p[a] \in Nat /\ p[k - 1] \in Nat /\ q[k] \in Nat /\ q[pos] \in Nat
    BY <1>2, <2>6
  <2>8. q[pos] = p[a] + RoomOf(e)
    BY <1>4, <2>4, <2>5
  <2>9. q[k] + p[a] = p[k - 1] + q[pos]
    BY <2>1, <2>3
  <2> DEFINE pa == p[a]
             pk == p[k - 1]
             qk == q[k]
             qo == q[pos]
             r == RoomOf(e)
  <2>10. /\ pa \in Nat /\ pk \in Nat /\ qk \in Nat /\ qo \in Nat /\ r \in Nat
         /\ qo = pa + r /\ qk + pa = pk + qo
    BY <1>4, <2>7, <2>8, <2>9
  <2>11. qk = pk + r
    <3> HIDE DEF pa, pk, qk, qo, r
    <3> QED
      BY <2>10
  <2> QED
    BY <2>11
<1> QED
  BY <1>3, <1>5 DEF p, q

-----------------------------------------------------------------------------
(* The page as a sequence of entries.                                      *)

\* The entries of a page, in the order of its slots.
LEMMA ContentsFacts ==
  ASSUME PageInv
  PROVE  /\ NEntries \in Nat /\ lower = HeaderEnd + NEntries
         /\ Contents \in Seq(PageEntries) /\ Len(Contents) = NEntries
         /\ DOMAIN Contents = 1 .. NEntries
         /\ \A j \in 1 .. NEntries : /\ Contents[j] = EntryAt(mem, Slot(j))
                                     /\ Slot(j) \in HeaderEnd .. lower - 1
                                     /\ Contents[j] \in Held
<1>1. HeaderEnd = 10 /\ lower \in HeaderEnd .. PageEnd /\ PageEnd \in Nat
  BY LayoutAssumption DEF PageInv, HeaderEnd
<1>2. NEntries \in Nat /\ lower = HeaderEnd + NEntries
  BY <1>1 DEF NEntries
<1>3. \A j \in 1 .. NEntries : Slot(j) \in HeaderEnd .. lower - 1
  BY <1>1, <1>2 DEF Slot
<1>4. \A j \in 1 .. NEntries : EntryAt(mem, Slot(j)) \in PageEntries
  BY <1>3 DEF PageInv, AllIntact, Intact
<1>5. /\ Contents \in Seq(PageEntries) /\ Len(Contents) = NEntries
      /\ DOMAIN Contents = 1 .. NEntries
      /\ \A j \in 1 .. NEntries : Contents[j] = EntryAt(mem, Slot(j))
  BY <1>2, <1>4 DEF Contents
<1>6. \A j \in 1 .. NEntries : Contents[j] \in Held
  BY <1>3, <1>5 DEF Held
<1> QED BY <1>2, <1>3, <1>5, <1>6

\* The same slots and bytes are the same entries.
LEMMA SameContents ==
  ASSUME mem' = mem, lower' = lower
  PROVE  Contents' = Contents /\ NEntries' = NEntries
  BY DEF Contents, NEntries, EntryAt, OffsetAt

\* The entries of the next state, as those of a page.
LEMMA ContentsNext ==
  ASSUME PageInv'
  PROVE  /\ NEntries' \in Nat /\ lower' = HeaderEnd + NEntries'
         /\ Contents' \in Seq(PageEntries) /\ Len(Contents') = NEntries'
         /\ DOMAIN Contents' = 1 .. NEntries'
         /\ \A j \in 1 .. NEntries' : /\ Contents'[j] = EntryAt(mem', Slot(j))
                                      /\ Slot(j) \in HeaderEnd .. lower' - 1
<1>1. HeaderEnd = 10 /\ lower' \in HeaderEnd .. PageEnd /\ PageEnd \in Nat
  BY LayoutAssumption DEF PageInv, HeaderEnd
<1> DEFINE l == lower'
           n == NEntries'
<1>0. n = l - HeaderEnd
  BY DEF NEntries, HeaderEnd
<1> HIDE DEF l, n
<1>2. n \in Nat /\ l = HeaderEnd + n /\ HeaderEnd = 10
  <2>1. HeaderEnd = 10 /\ PageEnd \in Nat /\ l \in 10 .. PageEnd
    BY <1>1 DEF l
  <2>2. l \in Int /\ l >= 10
    BY <2>1
  <2>3. n = l - 10
    BY <1>0, <2>1
  <2> QED BY <2>1, <2>2, <2>3
<1>3. \A j \in 1 .. n : Slot(j) \in HeaderEnd .. l - 1
  BY <1>2 DEF Slot
<1> USE DEF l, n
<1>4. \A j \in 1 .. NEntries' : EntryAt(mem', Slot(j)) \in PageEntries
  BY <1>3 DEF PageInv, AllIntact, Intact, EntryAt, OffsetAt
<1>5. /\ Contents' \in Seq(PageEntries) /\ Len(Contents') = NEntries'
      /\ DOMAIN Contents' = 1 .. NEntries'
      /\ \A j \in 1 .. NEntries' : Contents'[j] = EntryAt(mem', Slot(j))
  BY <1>2, <1>4 DEF Contents, EntryAt, OffsetAt, Slot
<1> QED BY <1>2, <1>3, <1>5

\* What one more entry makes of a sequence is what InsertAt makes of it, ...
LEMMA OneMoreInserted ==
  ASSUME NEW s \in Seq(PageEntries), NEW t \in Seq(PageEntries), NEW e \in PageEntries,
         NEW pos \in 1 .. Len(s) + 1, OneMore(t, s, pos, e)
  PROVE  t = InsertAt(s, pos, e)
<1> DEFINE u == InsertAt(s, pos, e)
<1>1. u \in Seq(PageEntries) /\ Len(u) = Len(s) + 1
  BY InsertAtFacts
<1>2. \A i \in 1 .. Len(s) + 1 :
        u[i] = IF i < pos THEN s[i] ELSE IF i = pos THEN e ELSE s[i - 1]
  BY InsertAtFacts
<1> HIDE DEF u
<1>3. Len(t) = Len(u) /\ \A i \in 1 .. Len(t) : t[i] = u[i]
  BY <1>1, <1>2 DEF OneMore
<1> QED BY <1>1, <1>3, SameSeq DEF u

\* ... and what is left without it is what RemoveAt leaves.
LEMMA OneMoreRemoved ==
  ASSUME NEW s \in Seq(PageEntries), NEW t \in Seq(PageEntries), NEW e,
         NEW pos, OneMore(t, s, pos, e)
  PROVE  s = RemoveAt(t, pos)
<1>0. Len(s) \in Nat /\ Len(t) = Len(s) + 1 /\ pos \in 1 .. Len(t)
  BY DEF OneMore
<1> DEFINE u == RemoveAt(t, pos)
<1>1. /\ u \in Seq(PageEntries) /\ Len(u) = Len(t) - 1
      /\ \A i \in 1 .. Len(t) - 1 : u[i] = IF i < pos THEN t[i] ELSE t[i + 1]
  BY <1>0, RemoveAtFacts
<1> HIDE DEF u
<1>2. Len(s) = Len(u)
  BY <1>0, <1>1
<1>3. ASSUME NEW i \in 1 .. Len(s) PROVE s[i] = u[i]
  <2>1. i \in 1 .. Len(t) - 1 /\ i \in 1 .. Len(t) /\ i + 1 \in 1 .. Len(t)
    BY <1>0
  <2>2. CASE i < pos
    BY <1>1, <2>1, <2>2 DEF OneMore
  <2>3. CASE ~ (i < pos)
    <3>1. ~ (i + 1 < pos) /\ i + 1 # pos /\ i + 1 - 1 = i
      BY <1>0, <2>3
    <3>2. t[i + 1] = s[i]
      BY <2>1, <3>1 DEF OneMore
    <3> QED BY <1>1, <2>1, <2>3, <3>2
  <2> QED BY <2>2, <2>3
<1> QED BY <1>1, <1>2, <1>3, SameSeq DEF u

-----------------------------------------------------------------------------
(* put and del on a page with room, as changes of the sequence.            *)

\* An insertion adds the entry at its place.
LEMMA InsertContents ==
  ASSUME PageInv, copy = NoCopy,
         NEW i \in 1 .. NEntries + 1, NEW e \in PageEntries, Insert(i, e)
  PROVE  /\ OneMore(Contents', Contents, i, e)
         /\ \A j \in DOMAIN Contents : Contents[j] # e
<1>1. /\ PageInv'
      /\ \A a \in HeaderEnd .. lower :
           EntryAt(mem', a) = IF a < Slot(i) THEN EntryAt(mem, a)
                              ELSE IF a = Slot(i) THEN e ELSE EntryAt(mem, a - 1)
  BY InsertPreservesInv
<1>2. lower' = lower + 1 /\ e \notin Held /\ HeaderEnd = 10
  BY DEF Insert, HeaderEnd
<1>3. NEntries \in Nat /\ lower = HeaderEnd + NEntries /\ NEntries' = NEntries + 1
  BY <1>2, ContentsFacts DEF NEntries
<1>4. ASSUME NEW j \in 1 .. NEntries + 1
      PROVE  Contents'[j] = IF j < i THEN Contents[j] ELSE IF j = i THEN e ELSE Contents[j - 1]
  <2>1. Contents'[j] = EntryAt(mem', Slot(j))
    BY <1>1, <1>3, ContentsNext
  <2>2. /\ Slot(j) \in HeaderEnd .. lower
        /\ Slot(j) < Slot(i) <=> j < i
        /\ Slot(j) = Slot(i) <=> j = i
        /\ Slot(j) - 1 = Slot(j - 1)
    BY <1>2, <1>3 DEF Slot
  <2>3. j < i => j \in 1 .. NEntries
    BY <1>3
  <2>4. ~ (j < i) /\ j # i => j - 1 \in 1 .. NEntries
    BY <1>3
  <2> QED BY <1>1, <2>1, <2>2, <2>3, <2>4, ContentsFacts
<1>5. Len(Contents') = Len(Contents) + 1 /\ Len(Contents) = NEntries
  BY <1>1, <1>3, ContentsFacts, ContentsNext
<1>6. \A j \in DOMAIN Contents : Contents[j] # e
  BY <1>2, ContentsFacts
<1> QED BY <1>3, <1>4, <1>5, <1>6 DEF OneMore

\* A deletion takes the entry away.
LEMMA DeleteContents ==
  ASSUME PageInv, copy = NoCopy, NEW i \in 1 .. NEntries, Delete(i)
  PROVE  OneMore(Contents, Contents', i, Contents[i])
<1>1. /\ PageInv'
      /\ \A a \in HeaderEnd .. lower - 2 :
           EntryAt(mem', a) = EntryAt(mem, IF a < Slot(i) THEN a ELSE a + 1)
  BY DeletePreservesInv
<1>2. lower' = lower - 1 /\ HeaderEnd = 10
  BY DEF Delete, HeaderEnd
<1>3. NEntries \in Nat /\ lower = HeaderEnd + NEntries /\ NEntries' = NEntries - 1
  BY <1>2, ContentsFacts DEF NEntries
<1>4. ASSUME NEW j \in 1 .. NEntries - 1
      PROVE  Contents'[j] = IF j < i THEN Contents[j] ELSE Contents[j + 1]
  <2>1. Contents'[j] = EntryAt(mem', Slot(j))
    BY <1>1, <1>3, ContentsNext
  <2>2. /\ Slot(j) \in HeaderEnd .. lower - 2
        /\ Slot(j) < Slot(i) <=> j < i
        /\ Slot(j) + 1 = Slot(j + 1)
        /\ j \in 1 .. NEntries /\ j + 1 \in 1 .. NEntries
    BY <1>2, <1>3 DEF Slot
  <2> QED BY <1>1, <2>1, <2>2, ContentsFacts
<1>5. Len(Contents') = NEntries - 1 /\ Len(Contents) = NEntries
  BY <1>1, <1>3, ContentsFacts, ContentsNext
<1>6. ASSUME NEW j \in 1 .. NEntries
      PROVE  Contents[j] = IF j < i THEN Contents'[j]
                           ELSE IF j = i THEN Contents[i] ELSE Contents'[j - 1]
  <2>1. CASE j < i
    <3>1. j \in 1 .. NEntries - 1
      BY <1>3, <2>1
    <3> QED BY <1>4, <2>1, <3>1
  <2>2. CASE j > i
    <3>1. j - 1 \in 1 .. NEntries - 1 /\ ~ (j - 1 < i) /\ j - 1 + 1 = j
      BY <1>3, <2>2
    <3>2. Contents'[j - 1] = Contents[j - 1 + 1]
      BY <1>4, <3>1
    <3> QED BY <1>3, <2>2, <3>1, <3>2
  <2> QED BY <1>3, <2>1, <2>2
<1>7. i \in 1 .. Len(Contents') + 1 /\ Len(Contents) = Len(Contents') + 1
  BY <1>3, <1>5
<1> QED BY <1>5, <1>6, <1>7 DEF OneMore

\* A root that was split has two entries.
LEMMA ConvertContents ==
  ASSUME PageInv, copy = NoCopy,
         NEW e1 \in PageEntries, NEW e2 \in PageEntries, ConvertRoot(e1, e2)
  PROVE  Contents' = <<e1, e2>>
<1>1. PageInv' /\ EntryAt(mem', Slot(1)) = e1 /\ EntryAt(mem', Slot(2)) = e2
  BY ConvertPreservesInv
<1>2. lower' = Slot(3) /\ Slot(3) = HeaderEnd + 2 /\ HeaderEnd = 10
  BY DEF ConvertRoot, Slot, HeaderEnd
<1>3. NEntries' = 2
  BY <1>2 DEF NEntries
<1>4. /\ Contents' \in Seq(PageEntries) /\ Len(Contents') = 2
      /\ Contents'[1] = e1 /\ Contents'[2] = e2
  BY <1>1, <1>3, ContentsNext
<1> DEFINE u == <<e1, e2>>
<1>5. u \in Seq(PageEntries) /\ Len(u) = 2 /\ u[1] = e1 /\ u[2] = e2
  OBVIOUS
<1> HIDE DEF u
<1>6. \A i \in 1 .. Len(Contents') : Contents'[i] = u[i]
  BY <1>4, <1>5
<1>7. Contents' = u
  BY <1>4, <1>5, <1>6, SameSeq
<1> QED BY <1>7 DEF u

-----------------------------------------------------------------------------
(* The copy of a half.                                                     *)

\* Where the entry at j was before another one was inserted at i.
Before(i, j) == IF j < i THEN j ELSE j - 1

\* The filled slots hold what comes behind the first b entries of the page,
\* with the new one at i.
FilledFrom(i, b) ==
  \A t \in 1 .. copy.slot - 1 :
    t # copy.reserve => EntryAt(bmem, Slot(t)) = Contents[Before(i, b + t)]

\* The last slot of the page before those to be copied.
Base(i, b) == IF b < i THEN b ELSE b - 1

\* What was copied takes as much room there as it does here.
CopiedRoom(first) ==
  PrefixCost(Contents)[copy.src - 1]
    = PrefixCost(Contents)[first] + 2 * (PageEnd - bupper) + 2 * (copy.src - 1 - first)

\* With the new entry at place i, the m entries behind the first b are on
\* their way.
HalfOf(i, b, m) ==
  /\ i \in 1 .. NEntries + 1 /\ b \in 0 .. NEntries /\ m \in Nat
  /\ b + m <= NEntries + 1
  /\ (b = 0 /\ m <= NEntries) \/ b + m = NEntries + 1
  /\ copy.reserve = IF b < i /\ i <= b + m THEN i - b ELSE 0
  /\ copy.slot <= m + 1
  /\ copy.src = IF b + copy.slot <= i THEN b + copy.slot ELSE b + copy.slot - 1
  /\ copy.last = IF i <= b + m THEN b + m - 1 ELSE b + m
  /\ Slot(copy.slot) <= bupper => FilledFrom(i, b)
  /\ CopiedRoom(Base(i, b))

HalfInv == \E i, b, m : HalfOf(i, b, m)

\* What is not free is taken by the entries and their slots.
Filled == PrefixCost(Contents)[NEntries] = 2 * (PageEnd - upper) + 2 * NEntries

\* A split begins with nothing copied, at the place where either half begins.
LEMMA BeginHalf ==
  ASSUME PageInv, NEW i \in 1 .. NEntries + 1, NEW e \in PageEntries, BeginSplit(i, e)
  PROVE  HalfInv'
<1>1. mem' = mem /\ lower' = lower /\ bupper' = PageEnd
  BY DEF BeginSplit, pageVars
<1>2. Contents' = Contents /\ NEntries' = NEntries
  BY <1>1, SameContents
<1>3. NEntries \in Nat
  BY ContentsFacts
<1>4. PICK n \in LeftSlots(i, e) :
        LET rightTarget == i - 1 >= n
            inLeft == IF rightTarget THEN n ELSE n - 1
        IN  copy' \in {Copy(1, inLeft, IF rightTarget THEN 0 ELSE i, e),
                       Copy(inLeft + 1, NEntries, IF rightTarget THEN i - n ELSE 0, e)}
  BY DEF BeginSplit
<1>5. n \in 0 .. NEntries
  BY DEF LeftSlots
<1>6. ASSUME NEW b \in {0, n}, NEW m \in Nat, NEW first \in Int, NEW last, NEW reserve,
             b + m <= NEntries + 1,
             (b = 0 /\ m <= NEntries) \/ b + m = NEntries + 1,
             copy' = Copy(first, last, reserve, e),
             first = IF b < i THEN b + 1 ELSE b,
             last = IF i <= b + m THEN b + m - 1 ELSE b + m,
             reserve = IF b < i /\ i <= b + m THEN i - b ELSE 0
      PROVE  HalfInv'
  <2>1. /\ copy'.src = first /\ copy'.last = last /\ copy'.slot = 1
        /\ copy'.reserve = reserve
    BY <1>6 DEF Copy
  <2>2. i \in 1 .. NEntries' + 1 /\ b \in 0 .. NEntries'
    BY <1>2, <1>3, <1>5
  <2>3. first = IF b + 1 <= i THEN b + 1 ELSE b + 1 - 1
    BY <1>3, <1>5, <1>6
  <2>4. FilledFrom(i, b)'
    BY <2>1 DEF FilledFrom
  <2>5. CopiedRoom(Base(i, b))'
    <3>1. first - 1 = Base(i, b) /\ Base(i, b) \in 0 .. NEntries
      BY <1>3, <1>5, <1>6 DEF Base
    <3>2. Contents \in Seq(PageEntries) /\ Len(Contents) = NEntries
      BY ContentsFacts
    <3> DEFINE p == PrefixCost(Contents)
    <3>3. p[Base(i, b)] \in Nat
      BY <3>1, <3>2, CostFacts
    <3>4. PageEnd - bupper' = 0 /\ first - 1 - Base(i, b) = 0
      <4>1. PageEnd \in Nat /\ Base(i, b) \in Nat
        BY <3>1, LayoutAssumption
      <4> QED BY <1>1, <3>1, <4>1
    <3> HIDE DEF p
    <3>5. p[first - 1] = p[Base(i, b)] + 2 * (PageEnd - bupper') + 2 * (first - 1 - Base(i, b))
      BY <3>1, <3>3, <3>4
    <3>6. PrefixCost(Contents)' = p
      BY <1>2 DEF p, PrefixCost
    <3>7. Base(i, b)' = Base(i, b)
      BY DEF Base
    <3> QED BY <2>1, <3>5, <3>6, <3>7 DEF CopiedRoom
  <2>6. 1 <= m + 1
    OBVIOUS
  <2>7. HalfOf(i, b, m)'
    BY <1>2, <1>6, <2>1, <2>2, <2>3, <2>4, <2>5, <2>6 DEF HalfOf
  <2> QED BY <2>7 DEF HalfInv
<1>7. CASE i - 1 >= n
  <2>1. CASE copy' = Copy(1, n, 0, e)
    <3>1. /\ 0 \in {0, n} /\ 1 = (IF 0 < i THEN 0 + 1 ELSE 0)
          /\ n = IF i <= 0 + n THEN 0 + n - 1 ELSE 0 + n
          /\ 0 = IF 0 < i /\ i <= 0 + n THEN i - 0 ELSE 0
          /\ n \in Nat /\ 1 \in Int /\ 0 + n <= NEntries + 1 /\ n <= NEntries
      BY <1>3, <1>5, <1>7
    <3> QED BY <1>6, <2>1, <3>1
  <2>2. CASE copy' = Copy(n + 1, NEntries, i - n, e)
    <3> DEFINE m == NEntries + 1 - n
    <3>1. /\ n \in {0, n} /\ n + 1 = (IF n < i THEN n + 1 ELSE n)
          /\ m \in Nat /\ n + 1 \in Int /\ n + m = NEntries + 1
          /\ n + m <= NEntries + 1
      BY <1>3, <1>5, <1>7
    <3>2. /\ NEntries = IF i <= n + m THEN n + m - 1 ELSE n + m
          /\ i - n = IF n < i /\ i <= n + m THEN i - n ELSE 0
      BY <1>3, <1>5, <1>7
    <3> HIDE DEF m
    <3> QED BY <1>6, <2>2, <3>1, <3>2
  <2> QED BY <1>4, <1>7, <2>1, <2>2
<1>8. CASE ~ (i - 1 >= n)
  <2>1. CASE copy' = Copy(1, n - 1, i, e)
    <3>1. /\ 0 \in {0, n} /\ 1 = (IF 0 < i THEN 0 + 1 ELSE 0)
          /\ n - 1 = IF i <= 0 + n THEN 0 + n - 1 ELSE 0 + n
          /\ i = IF 0 < i /\ i <= 0 + n THEN i - 0 ELSE 0
          /\ n \in Nat /\ 1 \in Int /\ 0 + n <= NEntries + 1 /\ n <= NEntries
      BY <1>3, <1>5, <1>8
    <3> QED BY <1>6, <2>1, <3>1
  <2>2. CASE copy' = Copy((n - 1) + 1, NEntries, 0, e)
    <3> DEFINE m == NEntries + 1 - n
               f == (n - 1) + 1
    <3>1. /\ n \in {0, n} /\ f = (IF n < i THEN n + 1 ELSE n)
          /\ m \in Nat /\ f \in Int /\ n + m = NEntries + 1
          /\ n + m <= NEntries + 1
      BY <1>3, <1>5, <1>8
    <3>2. /\ NEntries = IF i <= n + m THEN n + m - 1 ELSE n + m
          /\ 0 = IF n < i /\ i <= n + m THEN i - n ELSE 0
      BY <1>3, <1>5, <1>8
    <3>3. copy' = Copy(f, NEntries, 0, e)
      BY <2>2
    <3> HIDE DEF m, f
    <3> QED BY <1>6, <3>1, <3>2, <3>3
  <2> QED BY <1>4, <1>8, <2>1, <2>2
<1> QED BY <1>3, <1>5, <1>7, <1>8

\* Each entry copied is the next of its half, and takes what it took.
LEMMA CopyHalf ==
  ASSUME PageInv, CopyPlaces, CopiesInv, HalfInv, CopyOne
  PROVE  HalfInv'
<1>1. PICK i, b, m : HalfOf(i, b, m)
  BY DEF HalfInv
<1>2. /\ mem' = mem /\ lower' = lower
      /\ copy.src <= copy.last
      /\ bupper' = bupper - NWords[EntryAt(mem, Slot(copy.src))]
      /\ copy' = [copy EXCEPT !.src = @ + 1, !.slot = Skipped(copy.slot) + 1]
  BY DEF CopyOne, pageVars
<1>3. /\ CopyPlaces'
      /\ Slot(copy'.slot) <= bupper' =>
           /\ Slot(copy.slot) <= bupper
           /\ EntryAt(bmem', Slot(Skipped(copy.slot))) = EntryAt(mem, Slot(copy.src))
           /\ \A a \in Copied : EntryAt(bmem', a) = EntryAt(bmem, a)
  BY CopyOnePreservesCopy
<1>4. Contents' = Contents /\ NEntries' = NEntries
  BY <1>2, SameContents
<1> DEFINE s == Skipped(copy.slot)
           src == copy.src
           slot == copy.slot
<1>5. /\ NEntries \in Nat /\ i \in 1 .. NEntries + 1 /\ b \in 0 .. NEntries /\ m \in Nat
      /\ src \in Nat \ {0} /\ slot \in Nat \ {0} /\ copy.last \in Nat
      /\ copy.last <= NEntries /\ src <= copy.last
      /\ bupper \in Int
  BY <1>1, <1>2, ContentsFacts DEF HalfOf, CopyPlaces, CopyRecord
<1>6. /\ copy.reserve = IF b < i /\ i <= b + m THEN i - b ELSE 0
      /\ slot <= m + 1
      /\ src = IF b + slot <= i THEN b + slot ELSE b + slot - 1
      /\ copy.last = IF i <= b + m THEN b + m - 1 ELSE b + m
  BY <1>1 DEF HalfOf
<1>7. s = IF slot = copy.reserve THEN slot + 1 ELSE slot
  BY DEF Skipped
<1>8. /\ copy'.src = src + 1 /\ copy'.slot = s + 1
      /\ copy'.last = copy.last /\ copy'.reserve = copy.reserve
  <2>1. copy \in CopyRecord
    BY DEF CopyPlaces
  <2> QED BY <1>2, <2>1 DEF CopyRecord
<1> HIDE DEF s, src, slot
<1>9. /\ s \in Nat \ {0} /\ s # copy.reserve /\ s + 1 <= m + 1 /\ b + s # i
      /\ src = Before(i, b + s)
      /\ src + 1 = IF b + (s + 1) <= i THEN b + (s + 1) ELSE b + (s + 1) - 1
      /\ src \in 1 .. NEntries
      /\ slot <= s
      /\ \A t \in 1 .. s : t # copy.reserve /\ t # s => t \in 1 .. slot - 1
  BY <1>5, <1>6, <1>7 DEF Before
<1>10. EntryAt(mem, Slot(src)) = Contents[src]
  BY <1>9, ContentsFacts
<1>11. ASSUME Slot(s + 1) <= bupper' PROVE FilledFrom(i, b)'
  <2>1. /\ Slot(copy'.slot) <= bupper'
        /\ Slot(slot) <= bupper
        /\ EntryAt(bmem', Slot(s)) = Contents[src]
        /\ \A a \in Copied : EntryAt(bmem', a) = EntryAt(bmem, a)
    <3>1. Slot(copy'.slot) = Slot(s + 1)
      BY <1>8
    <3> QED BY <1>3, <1>10, <1>11, <3>1 DEF s, src, slot
  <2>2. FilledFrom(i, b)
    BY <1>1, <2>1 DEF HalfOf, slot
  <2>3. ASSUME NEW t \in 1 .. s, t # copy.reserve
        PROVE  EntryAt(bmem', Slot(t)) = Contents[Before(i, b + t)]
    <3>1. CASE t = s
      BY <1>9, <2>1, <3>1
    <3>2. CASE t # s
      <4>1. t \in 1 .. slot - 1
        BY <1>9, <2>3, <3>2
      <4>2. Slot(t) \in Copied
        <5>1. HeaderEnd = 10 /\ copy.reserve \in Int
          BY <1>5, <1>6 DEF HeaderEnd
        <5> QED BY <1>5, <2>3, <4>1, <5>1 DEF Copied, Slot, slot
      <4>3. EntryAt(bmem, Slot(t)) = Contents[Before(i, b + t)]
        BY <2>2, <2>3, <4>1 DEF FilledFrom, slot
      <4> QED BY <2>1, <4>2, <4>3
    <3> QED BY <3>1, <3>2
  <2>4. copy'.slot - 1 = s
    BY <1>8, <1>9
  <2>5. \A t \in 1 .. copy'.slot - 1 : t # copy'.reserve =>
          EntryAt(bmem', Slot(t)) = Contents'[Before(i, b + t)]
    BY <1>4, <1>8, <2>3, <2>4
  <2> QED BY <2>5 DEF FilledFrom, EntryAt, OffsetAt, Before, Slot
<1>12. CopiedRoom(Base(i, b))'
  <2> DEFINE p == PrefixCost(Contents)
             w == NWords[Contents[src]]
             ba == Base(i, b)
  <2>1. Contents \in Seq(PageEntries) /\ Len(Contents) = NEntries
    BY ContentsFacts
  <2>2. Contents[src] \in PageEntries
    BY <1>9, <2>1
  <2>3. w \in Nat
    BY <2>2, LayoutAssumption
  <2>4. p[src] = p[src - 1] + RoomOf(Contents[src])
    BY <1>9, <2>1, CostFacts
  <2>5. RoomOf(Contents[src]) = 2 * (w + 1)
    BY DEF RoomOf
  <2>6. p[src - 1] = p[ba] + 2 * (PageEnd - bupper) + 2 * (src - 1 - ba)
    BY <1>1 DEF HalfOf, CopiedRoom, src
  <2>7. bupper' = bupper - w
    BY <1>2, <1>10 DEF src
  <2>8. ba \in 0 .. NEntries /\ PageEnd \in Nat
    BY <1>5, LayoutAssumption DEF Base
  <2>9. p[ba] \in Nat
    BY <2>1, <2>8, CostFacts
  <2> HIDE DEF p, w, ba
  <2> DEFINE r == RoomOf(Contents[src])
             x == p[ba]
             y == p[src - 1]
             z == p[src]
  <2>10. z = y + r /\ r = 2 * (w + 1) /\ y = x + 2 * (PageEnd - bupper) + 2 * (src - 1 - ba)
    BY <2>4, <2>5, <2>6
  <2>11. x \in Nat
    BY <2>9
  <2> HIDE DEF r, x, y, z
  <2>12. z = x + 2 * (PageEnd - (bupper - w)) + 2 * (src - ba)
    BY <1>5, <2>3, <2>8, <2>10, <2>11
  <2>13. copy'.src - 1 = src
    BY <1>5, <1>8
  <2>14. PrefixCost(Contents)' = p
    BY <1>4 DEF p, PrefixCost
  <2>15. Base(i, b)' = ba
    BY DEF Base, ba
  <2>16. p[copy'.src - 1] = p[ba] + 2 * (PageEnd - bupper') + 2 * (copy'.src - 1 - ba)
    BY <2>7, <2>12, <2>13 DEF x, z
  <2> QED BY <2>14, <2>15, <2>16 DEF CopiedRoom
<1>13. HalfOf(i, b, m)'
  <2>1. Slot(copy'.slot) <= bupper' => FilledFrom(i, b)'
    BY <1>8, <1>11
  <2>2. /\ (b = 0 /\ m <= NEntries) \/ b + m = NEntries + 1
        /\ b + m <= NEntries + 1
    BY <1>1 DEF HalfOf
  <2>3. copy'.slot <= m + 1
    BY <1>8, <1>9
  <2>4. copy'.src = IF b + copy'.slot <= i THEN b + copy'.slot ELSE b + copy'.slot - 1
    BY <1>8, <1>9
  <2>5. /\ copy'.reserve = IF b < i /\ i <= b + m THEN i - b ELSE 0
        /\ copy'.last = IF i <= b + m THEN b + m - 1 ELSE b + m
    BY <1>6, <1>8
  <2> QED BY <1>4, <1>5, <1>12, <2>1, <2>2, <2>3, <2>4, <2>5 DEF HalfOf, Slot
<1> QED BY <1>13 DEF HalfInv

\* What CommitSplit makes of the page: m entries that follow each other when
\* the new one is in its place.
Halved(i, b, m, e) ==
  /\ i \in 1 .. NEntries + 1 /\ b \in 0 .. NEntries /\ m \in Nat
  /\ (b = 0 /\ m <= NEntries) \/ b + m = NEntries + 1
  /\ Len(Contents') = m
  /\ \A t \in 1 .. m : Contents'[t] = IF b + t = i THEN e ELSE Contents[Before(i, b + t)]

\* The page that takes the place of the split one has one of its halves.
LEMMA CommitHalf ==
  ASSUME PageInv, CopyPlaces, CopiesInv, NEW i, NEW b, NEW m, HalfOf(i, b, m), CommitSplit
  PROVE  /\ Halved(i, b, m, copy.new)
         /\ NEntries' = m
         /\ copy.src - 1 = (IF i <= b + m THEN b + m - 1 ELSE b + m)
         /\ copy.reserve = IF b < i /\ i <= b + m THEN i - b ELSE 0
<1>1. /\ PageInv'
      /\ Slot(copy.slot) <= bupper
      /\ \A a \in HeaderEnd .. lower' - 1 :
           IF a = Slot(copy.reserve) THEN EntryAt(mem', a) = copy.new
           ELSE a \in Copied /\ EntryAt(mem', a) = EntryAt(bmem, a)
  BY CommitPreservesInv
<1>2. /\ lower' = Slot(Skipped(copy.slot))
      /\ copy.src > copy.last
  BY DEF CommitSplit, CopiedLower, AllCopied
<1>3. /\ NEntries \in Nat /\ i \in 1 .. NEntries + 1 /\ b \in 0 .. NEntries /\ m \in Nat
      /\ copy.src \in Nat \ {0} /\ copy.slot \in Nat \ {0} /\ copy.last \in Nat
      /\ copy.src <= copy.last + 1
      /\ copy.reserve = IF b < i /\ i <= b + m THEN i - b ELSE 0
      /\ copy.slot <= m + 1
      /\ copy.src = IF b + copy.slot <= i THEN b + copy.slot ELSE b + copy.slot - 1
      /\ copy.last = IF i <= b + m THEN b + m - 1 ELSE b + m
      /\ FilledFrom(i, b)
  BY <1>1, ContentsFacts DEF HalfOf, CopyPlaces, CopyRecord
<1>4. copy.src = copy.last + 1
  BY <1>2, <1>3
<1>5. Skipped(copy.slot) = m + 1
  BY <1>3, <1>4 DEF Skipped
<1>6. NEntries' = m
  <2>1. NEntries' = lower' - HeaderEnd /\ HeaderEnd = 10
    BY DEF NEntries, HeaderEnd
  <2> QED BY <1>2, <1>3, <1>5, <2>1 DEF Slot
<1>7. ASSUME NEW t \in 1 .. m
      PROVE  Contents'[t] = IF b + t = i THEN copy.new ELSE Contents[Before(i, b + t)]
  <2>1. Contents'[t] = EntryAt(mem', Slot(t)) /\ Slot(t) \in HeaderEnd .. lower' - 1
    BY <1>1, <1>6, ContentsNext
  <2>2. Slot(t) = Slot(copy.reserve) <=> t = copy.reserve
    <3>1. HeaderEnd = 10 /\ copy.reserve \in Int
      BY <1>3 DEF HeaderEnd
    <3> QED BY <3>1 DEF Slot
  <2>3. t = copy.reserve <=> b + t = i
    BY <1>3
  <2>4. CASE t = copy.reserve
    BY <1>1, <2>1, <2>2, <2>3, <2>4
  <2>5. CASE t # copy.reserve
    <3>1. Slot(t) \in Copied /\ EntryAt(mem', Slot(t)) = EntryAt(bmem, Slot(t))
      BY <1>1, <2>1, <2>2, <2>5
    <3>2. t \in 1 .. copy.slot - 1
      <4>1. HeaderEnd = 10
        BY DEF HeaderEnd
      <4> QED BY <1>3, <3>1, <4>1 DEF Copied, Slot
    <3>3. EntryAt(bmem, Slot(t)) = Contents[Before(i, b + t)]
      BY <1>3, <2>5, <3>2 DEF FilledFrom
    <3> QED BY <2>1, <2>3, <2>5, <3>1, <3>3
  <2> QED BY <2>4, <2>5
<1>8. Len(Contents') = m
  BY <1>1, <1>6, ContentsNext
<1>9. (b = 0 /\ m <= NEntries) \/ b + m = NEntries + 1
  BY DEF HalfOf
<1>10. copy.src - 1 = (IF i <= b + m THEN b + m - 1 ELSE b + m)
  BY <1>3, <1>4
<1> QED BY <1>3, <1>6, <1>7, <1>8, <1>9, <1>10 DEF Halved

-----------------------------------------------------------------------------
(* Space, step by step.                                                    *)

\* Every step keeps the account of the page's space, if this does.
LEMMA FilledNext ==
  ASSUME PrefixCost(Contents')[NEntries'] = 2 * (PageEnd - upper') + 2 * NEntries'
  PROVE  Filled'
<1>1. PrefixCost(Contents)' = PrefixCost(Contents')
  BY DEF PrefixCost
<1> QED BY <1>1 DEF Filled

\* With the same slots and bytes, and the same upper, it is kept.
LEMMA FilledSame ==
  ASSUME mem' = mem, lower' = lower, upper' = upper, Filled
  PROVE  Filled'
<1>1. Contents' = Contents /\ NEntries' = NEntries
  BY SameContents
<1>2. PrefixCost(Contents')[NEntries'] = 2 * (PageEnd - upper') + 2 * NEntries'
  BY <1>1 DEF Filled
<1> QED BY <1>2, FilledNext

\* The numbers of a page's account.
LEMMA AccountNat ==
  ASSUME PageInv
  PROVE  /\ PrefixCost(Contents)[NEntries] \in Nat /\ NEntries \in Nat
         /\ upper \in Int /\ PageEnd \in Int
<1>1. Contents \in Seq(PageEntries) /\ Len(Contents) = NEntries /\ NEntries \in Nat
  BY ContentsFacts
<1>2. PrefixCost(Contents) \in [0 .. Len(Contents) -> Nat] /\ NEntries \in 0 .. Len(Contents)
  BY <1>1, CostFacts
<1>3. upper \in Int /\ PageEnd \in Int
  BY LayoutAssumption DEF PageInv, HeaderEnd
<1> QED BY <1>1, <1>2, <1>3

\* An insertion takes what its entry and a slot take.
LEMMA InsertFilled ==
  ASSUME PageInv, copy = NoCopy, Filled,
         NEW i \in 1 .. NEntries + 1, NEW e \in PageEntries, Insert(i, e)
  PROVE  Filled'
<1>1. OneMore(Contents', Contents, i, e)
  BY InsertContents
<1>2. PageInv'
  BY InsertPreservesInv
<1>3. /\ Contents \in Seq(PageEntries) /\ Len(Contents) = NEntries
      /\ Contents' \in Seq(PageEntries) /\ Len(Contents') = NEntries'
      /\ NEntries' = NEntries + 1 /\ NEntries \in Nat
  BY <1>1, <1>2, ContentsFacts, ContentsNext DEF OneMore
<1> DEFINE k == NEntries + 1
           q == PrefixCost(Contents')
           x == PrefixCost(Contents)[NEntries]
           w == NWords[e]
           r == RoomOf(e)
<1>4. k \in i .. Len(Contents') /\ k - 1 = NEntries
  BY <1>3
<1>5. q[k] = PrefixCost(Contents)[k - 1] + RoomOf(e)
  <2>1. \A j \in i .. Len(Contents') : q[j] = PrefixCost(Contents)[j - 1] + RoomOf(e)
    BY <1>1, <1>3, CostOneMore
  <2> HIDE DEF q, k
  <2> QED BY <1>4, <2>1
<1>6. x = 2 * (PageEnd - upper) + 2 * NEntries
  BY DEF Filled
<1>7. upper' = upper - w
  BY DEF Insert
<1>8. x \in Nat /\ NEntries \in Nat /\ upper \in Int /\ PageEnd \in Int
  BY AccountNat
<1>9. w \in Nat /\ r = 2 * (w + 1)
  BY LayoutAssumption DEF RoomOf
<1>10. q[k] = x + r
  BY <1>4, <1>5
<1> HIDE DEF q, x, w, r
<1>11. q[k] = 2 * (PageEnd - (upper - w)) + 2 * (NEntries + 1)
  BY <1>6, <1>8, <1>9, <1>10
<1>12. q[NEntries'] = 2 * (PageEnd - upper') + 2 * NEntries'
  BY <1>3, <1>7, <1>11
<1> QED BY <1>12, FilledNext DEF q

\* A deletion frees what its entry and a slot took.
LEMMA DeleteFilled ==
  ASSUME PageInv, copy = NoCopy, Filled, NEW i \in 1 .. NEntries, Delete(i)
  PROVE  Filled'
<1>1. OneMore(Contents, Contents', i, Contents[i])
  BY DeleteContents
<1>2. PageInv'
  BY DeletePreservesInv
<1> DEFINE D == Contents'
           n == NEntries'
<1>3. /\ Contents \in Seq(PageEntries) /\ Len(Contents) = NEntries
      /\ D \in Seq(PageEntries) /\ Len(D) = n
  BY <1>2, ContentsFacts, ContentsNext
<1> HIDE DEF D, n
<1>4. OneMore(Contents, D, i, Contents[i])
  BY <1>1 DEF D
<1>5. NEntries = n + 1 /\ n \in Nat /\ NEntries - 1 = n /\ NEntries \in i .. Len(Contents)
  BY <1>3, <1>4 DEF OneMore
<1>6. Contents[i] = EntryAt(mem, Slot(i)) /\ Contents[i] \in PageEntries
  <2>1. Contents[i] = EntryAt(mem, Slot(i))
    BY ContentsFacts
  <2>2. i \in DOMAIN Contents
    BY ContentsFacts
  <2>3. Contents[i] \in PageEntries
    BY <1>3, <2>2, SeqFacts
  <2> QED BY <2>1, <2>3
<1> DEFINE p == PrefixCost(Contents)
           q == PrefixCost(D)
           w == NWords[Contents[i]]
           room == RoomOf(Contents[i])
<1>7. \A j \in i .. Len(Contents) : p[j] = q[j - 1] + room
  BY <1>3, <1>4, CostOneMore
<1>8. p[NEntries] = 2 * (PageEnd - upper) + 2 * NEntries
  BY DEF Filled
<1>9. upper' = upper + w
  BY <1>6 DEF Delete
<1>10. p[NEntries] \in Nat /\ upper \in Int /\ PageEnd \in Int
  BY AccountNat
<1>11. w \in Nat /\ room = 2 * (w + 1)
  BY <1>6, LayoutAssumption DEF RoomOf
<1>12. q \in [0 .. n -> Nat]
  BY <1>3, CostFacts
<1> HIDE DEF p, q, w, room
<1>13. p[NEntries] = q[n] + room /\ q[n] \in Nat
  BY <1>5, <1>7, <1>12
<1> DEFINE x == p[NEntries]
           z == q[n]
<1>14. x = z + room /\ z \in Nat /\ x = 2 * (PageEnd - upper) + 2 * (n + 1)
  BY <1>5, <1>8, <1>13
<1> HIDE DEF x, z
<1>15. z = 2 * (PageEnd - (upper + w)) + 2 * n
  BY <1>5, <1>10, <1>11, <1>14
<1>16. PrefixCost(Contents')[NEntries'] = 2 * (PageEnd - upper') + 2 * NEntries'
  BY <1>9, <1>15 DEF z, q, D, n
<1> QED BY <1>16, FilledNext

\* The two entries of a root are all that it has.
LEMMA ConvertFilled ==
  ASSUME PageInv, copy = NoCopy,
         NEW e1 \in PageEntries, NEW e2 \in PageEntries, ConvertRoot(e1, e2)
  PROVE  Filled'
<1> DEFINE u == <<e1, e2>>
           p == PrefixCost(u)
           w1 == NWords[e1]
           w2 == NWords[e2]
<1>1. Contents' = u
  BY ConvertContents
<1>2. u \in Seq(PageEntries) /\ Len(u) = 2 /\ u[1] = e1 /\ u[2] = e2
  OBVIOUS
<1>3. PageInv'
  BY ConvertPreservesInv
<1>4. NEntries' = 2
  BY <1>1, <1>2, <1>3, ContentsNext
<1>5. upper' = PageEnd - w1 - w2
  BY DEF ConvertRoot
<1>6. w1 \in Nat /\ w2 \in Nat /\ PageEnd \in Int
  BY LayoutAssumption
<1> HIDE DEF u
<1>7. p[0] = 0 /\ \A j \in 1 .. Len(u) : p[j] = p[j - 1] + RoomOf(u[j])
  BY <1>2, CostFacts
<1> HIDE DEF p
<1>8. p[1] = 0 + RoomOf(e1) /\ p[2] = p[1] + RoomOf(e2)
  <2>1. 1 \in 1 .. Len(u) /\ 2 \in 1 .. Len(u) /\ 1 - 1 = 0 /\ 2 - 1 = 1
    BY <1>2
  <2>2. p[1] = p[1 - 1] + RoomOf(u[1])
    BY <1>7, <2>1
  <2>3. p[2] = p[2 - 1] + RoomOf(u[2])
    BY <1>7, <2>1
  <2> QED BY <1>2, <1>7, <2>1, <2>2, <2>3
<1>9. RoomOf(e1) = 2 * (w1 + 1) /\ RoomOf(e2) = 2 * (w2 + 1)
  BY DEF RoomOf
<1> HIDE DEF w1, w2
<1>10. p[2] = 2 * (PageEnd - (PageEnd - w1 - w2)) + 2 * 2
  BY <1>6, <1>8, <1>9
<1>11. PrefixCost(Contents')[NEntries'] = 2 * (PageEnd - upper') + 2 * NEntries'
  BY <1>1, <1>4, <1>5, <1>10 DEF p
<1> QED BY <1>11, FilledNext

\* InsertAt adds one entry.
LEMMA Inserted ==
  ASSUME NEW s \in Seq(PageEntries), NEW e \in PageEntries, NEW pos \in 1 .. Len(s) + 1
  PROVE  /\ InsertAt(s, pos, e) \in Seq(PageEntries)
         /\ Len(InsertAt(s, pos, e)) = Len(s) + 1
         /\ OneMore(InsertAt(s, pos, e), s, pos, e)
<1> DEFINE u == InsertAt(s, pos, e)
<1>1. u \in Seq(PageEntries) /\ Len(u) = Len(s) + 1
  BY InsertAtFacts
<1>2. \A i \in 1 .. Len(s) + 1 :
        u[i] = IF i < pos THEN s[i] ELSE IF i = pos THEN e ELSE s[i - 1]
  <2>1. \A i \in 1 .. Len(s) + 1 :
          InsertAt(s, pos, e)[i] =
            IF i < pos THEN s[i] ELSE IF i = pos THEN e ELSE s[i - 1]
    BY InsertAtFacts
  <2> QED BY <2>1
<1> HIDE DEF u
<1>3. OneMore(u, s, pos, e)
  BY <1>1, <1>2 DEF OneMore
<1> QED BY <1>1, <1>3 DEF u

\* The half is a run of the page's entries with the new one among them.
LEMMA HalfRun ==
  ASSUME PageInv, NEW i, NEW b, NEW m, NEW e \in PageEntries, Halved(i, b, m, e)
  PROVE  /\ i \in 1 .. Len(Contents) + 1
         /\ InsertAt(Contents, i, e) \in Seq(PageEntries)
         /\ Len(InsertAt(Contents, i, e)) = NEntries + 1
         /\ OneMore(InsertAt(Contents, i, e), Contents, i, e)
         /\ \A j \in 1 .. m : Contents'[j] = InsertAt(Contents, i, e)[b + j]
<1>1. Contents \in Seq(PageEntries) /\ Len(Contents) = NEntries /\ NEntries \in Nat
  BY ContentsFacts
<1>2. /\ i \in 1 .. NEntries + 1 /\ b \in 0 .. NEntries /\ m \in Nat /\ b + m <= NEntries + 1
      /\ \A t \in 1 .. m : Contents'[t] = IF b + t = i THEN e ELSE Contents[Before(i, b + t)]
  BY <1>1 DEF Halved
<1> DEFINE t == InsertAt(Contents, i, e)
<1>3. i \in 1 .. Len(Contents) + 1
  BY <1>1, <1>2
<1>4. t \in Seq(PageEntries) /\ Len(t) = Len(Contents) + 1 /\ OneMore(t, Contents, i, e)
  BY <1>1, <1>3, Inserted
<1> HIDE DEF t
<1>5. \A j \in 1 .. Len(Contents) + 1 :
        t[j] = IF j < i THEN Contents[j] ELSE IF j = i THEN e ELSE Contents[j - 1]
  BY <1>4 DEF OneMore
<1>6. OneMore(t, Contents, i, e)
  BY <1>4
<1>7. ASSUME NEW j \in 1 .. m PROVE Contents'[j] = t[b + j]
  <2>1. b + j \in 1 .. Len(Contents) + 1
    BY <1>1, <1>2
  <2> DEFINE h == b + j
  <2>2. Contents'[j] = IF h = i THEN e ELSE Contents[Before(i, h)]
    BY <1>2
  <2>3. t[h] = IF h < i THEN Contents[h] ELSE IF h = i THEN e ELSE Contents[h - 1]
    BY <1>5, <2>1
  <2>4. h \in Int /\ i \in Int
    BY <1>2, <2>1
  <2> HIDE DEF h
  <2>5. Contents'[j] = t[h]
    BY <2>2, <2>3, <2>4 DEF Before
  <2> QED BY <2>5 DEF h
<1> QED BY <1>1, <1>3, <1>4, <1>6, <1>7 DEF t

\* The page that takes the place of the split one is filled by what was
\* copied to it and by the new entry if it went there.
LEMMA CommitFilled ==
  ASSUME PageInv, CopyPlaces, CopiesInv, HalfInv, CommitSplit
  PROVE  Filled'
<1>1. PICK i, b, m : HalfOf(i, b, m)
  BY DEF HalfInv
<1> DEFINE e == copy.new
           t == InsertAt(Contents, i, e)
           p == PrefixCost(Contents)
           q == PrefixCost(Contents')
           r == PrefixCost(t)
           last == copy.src - 1
           ba == Base(i, b)
           w == NWords[e]
           room == RoomOf(e)
<1>2. /\ Halved(i, b, m, e) /\ NEntries' = m
      /\ last = (IF i <= b + m THEN b + m - 1 ELSE b + m)
      /\ copy.reserve = IF b < i /\ i <= b + m THEN i - b ELSE 0
  BY <1>1, CommitHalf
<1>3. e \in PageEntries /\ bupper \in Int
  BY DEF CopyPlaces, CopyRecord
<1>4. /\ i \in 1 .. NEntries + 1 /\ b \in 0 .. NEntries /\ m \in Nat /\ b + m <= NEntries + 1
      /\ p[last] = p[ba] + 2 * (PageEnd - bupper) + 2 * (last - ba)
  BY <1>1 DEF HalfOf, CopiedRoom
<1>5. upper' = IF copy.reserve = 0 THEN bupper ELSE bupper - w
  BY DEF CommitSplit, CopiedUpper
<1>6. PageInv'
  BY CommitPreservesInv
<1>7. /\ Contents \in Seq(PageEntries) /\ Len(Contents) = NEntries /\ NEntries \in Nat
      /\ Contents' \in Seq(PageEntries) /\ Len(Contents') = m
      /\ PageEnd \in Int
  BY <1>2, <1>6, ContentsFacts, ContentsNext, LayoutAssumption
<1>8. /\ t \in Seq(PageEntries) /\ Len(t) = NEntries + 1
      /\ OneMore(t, Contents, i, e)
      /\ \A j \in 1 .. m : Contents'[j] = t[b + j]
  BY <1>2, <1>3, HalfRun
<1>9. w \in Nat /\ room = 2 * (w + 1)
  BY <1>3, LayoutAssumption DEF RoomOf
<1> HIDE DEF t
<1>10. q[m] + r[b] = r[b + m]
  <2> DEFINE z == 0
  <2>1. Alike(t, Contents', b, z, m)
    <3>1. \A j \in 1 .. m : z + j = j
      OBVIOUS
    <3>2. b \in Nat /\ z \in Nat /\ b + m <= Len(t) /\ z + m <= Len(Contents')
      BY <1>4, <1>7, <1>8
    <3>3. \A j \in 1 .. m : Contents'[z + j] = t[b + j]
      BY <1>8, <3>1
    <3> HIDE DEF z
    <3> QED BY <1>4, <3>2, <3>3 DEF Alike
  <2>2. z + m = m /\ z = 0
    BY <1>4
  <2> HIDE DEF z
  <2>3. q[z + m] + r[b] = r[b + m] + q[z]
    BY <1>7, <1>8, <2>1, CostShift
  <2>4. q[0] = 0
    BY <1>7, CostFacts
  <2>5. r[b + m] \in Nat
    <3>1. r \in [0 .. Len(t) -> Nat]
      BY <1>8, CostFacts
    <3>2. b + m \in 0 .. Len(t)
      BY <1>4, <1>7, <1>8
    <3> HIDE DEF r
    <3> QED BY <3>1, <3>2
  <2> HIDE DEF q, r
  <2>6. q[m] + r[b] = r[b + m] + 0
    BY <2>2, <2>3, <2>4
  <2> QED BY <2>5, <2>6
<1>11. /\ \A k \in 0 .. i - 1 : r[k] = p[k]
       /\ \A k \in i .. Len(t) : r[k] = p[k - 1] + room
  BY <1>7, <1>8, CostOneMore
<1>12. /\ \A k \in 0 .. NEntries : p[k] \in Nat
       /\ \A k \in 0 .. m : q[k] \in Nat
  <2>1. p \in [0 .. NEntries -> Nat] /\ q \in [0 .. m -> Nat]
    BY <1>7, CostFacts
  <2> HIDE DEF p, q
  <2> QED BY <2>1
<1>13. ba = IF b < i THEN b ELSE b - 1
  BY DEF Base
<1> HIDE DEF p, q, r, last, ba, w, room, e
<1> DEFINE c == b + m
           l == Len(t)
           pb == p[ba]
           pl == p[last]
           qm == q[m]
           n == NEntries
<1>13a. qm + r[b] = r[c] /\ c \in Int /\ c = b + m /\ l = n + 1
  <2>1. c \in Int
    BY <1>4
  <2>2. qm + r[b] = r[c]
    BY <1>10
  <2>3. l = n + 1
    BY <1>8
  <2> QED BY <2>1, <2>2, <2>3
<1>13b. last = (IF i <= c THEN c - 1 ELSE c)
  <2>1. last = (IF i <= b + m THEN b + m - 1 ELSE b + m)
    BY <1>2
  <2>2. c = b + m
    OBVIOUS
  <2>3. b \in Int /\ m \in Int /\ i \in Int /\ c \in Int
    BY <1>4
  <2> HIDE DEF c
  <2> QED BY <2>1, <2>2, <2>3
<1>13c. copy.reserve = IF b < i /\ i <= c THEN i - b ELSE 0
  BY <1>2
<1>13d. i \in 1 .. n + 1 /\ b \in 0 .. n /\ m \in Nat /\ c <= n + 1 /\ n \in Nat
  BY <1>4, <1>7
<1> HIDE DEF c, l
<1>13e. /\ \A k \in 0 .. i - 1 : r[k] = p[k]
        /\ \A k \in i .. l : r[k] = p[k - 1] + room
  BY <1>11 DEF l
<1>14. ba \in 0 .. n /\ last \in 0 .. n
  BY <1>13, <1>13a, <1>13b, <1>13d
<1>15. pb \in Nat /\ pl \in Nat /\ qm \in Nat
  BY <1>4, <1>12, <1>14
<1>16. pl = pb + 2 * (PageEnd - bupper) + 2 * (last - ba)
  BY <1>4
<1>17. ba \in Int /\ last \in Int /\ m \in Int /\ b \in Int /\ i \in Int
  BY <1>13d, <1>14
<1>18. CASE b >= i
  <2>1. b \in i .. l /\ c \in i .. l /\ ba = b - 1 /\ last = c - 1
    BY <1>13, <1>13a, <1>13b, <1>13d, <1>18
  <2>2. r[b] = p[b - 1] + room /\ r[c] = p[c - 1] + room
    BY <1>13e, <2>1
  <2>3. copy.reserve = 0
    BY <1>13c, <1>17, <1>18
  <2>4. qm + (pb + room) = pl + room
    BY <1>13a, <2>1, <2>2
  <2> HIDE DEF pb, pl, qm
  <2>5. qm = 2 * (PageEnd - bupper) + 2 * m
    BY <1>3, <1>7, <1>9, <1>13a, <1>15, <1>16, <1>17, <2>1, <2>4
  <2> QED BY <1>2, <1>5, <2>3, <2>5, FilledNext DEF qm, q
<1>19. CASE b < i /\ i <= c
  <2>1. b \in 0 .. i - 1 /\ c \in i .. l /\ ba = b /\ last = c - 1
    BY <1>13, <1>13a, <1>13b, <1>13d, <1>19
  <2>2. r[b] = p[b] /\ r[c] = p[c - 1] + room
    BY <1>13e, <2>1
  <2>3. copy.reserve # 0
    BY <1>13c, <1>17, <1>19
  <2>4. qm + pb = pl + room
    BY <1>13a, <2>1, <2>2
  <2> HIDE DEF pb, pl, qm
  <2>5. qm = 2 * (PageEnd - (bupper - w)) + 2 * m
    BY <1>3, <1>7, <1>9, <1>13a, <1>15, <1>16, <1>17, <2>1, <2>4
  <2> QED BY <1>2, <1>5, <2>3, <2>5, FilledNext DEF qm, q
<1>20. CASE i > c
  <2>1. b \in 0 .. i - 1 /\ c \in 0 .. i - 1 /\ ba = b /\ last = c
    BY <1>13, <1>13a, <1>13b, <1>13d, <1>20
  <2>2. r[b] = p[b] /\ r[c] = p[c]
    BY <1>13e, <2>1
  <2>3. copy.reserve = 0
    BY <1>13a, <1>13c, <1>17, <1>20
  <2>4. qm + pb = pl
    BY <1>13a, <2>1, <2>2
  <2> HIDE DEF pb, pl, qm
  <2>5. qm = 2 * (PageEnd - bupper) + 2 * m
    BY <1>3, <1>7, <1>13a, <1>15, <1>16, <1>17, <2>1, <2>4
  <2> QED BY <1>2, <1>5, <2>3, <2>5, FilledNext DEF qm, q
<1> QED BY <1>13a, <1>17, <1>18, <1>19, <1>20

-----------------------------------------------------------------------------
(* Every step, and the other two theorems.                                 *)

\* The whole invariant: what the page refers to, what it takes, and what of
\* a half is already copied.
WholeLayout ==
  /\ LayoutInv
  /\ ~ garbled => Filled /\ (copy = NoCopy \/ HalfInv)

\* An empty page takes nothing.
LEMMA InitEstablishesWhole == Init => WholeLayout /\ Contents = <<>>
<1> SUFFICES ASSUME Init PROVE WholeLayout /\ Contents = <<>>
  OBVIOUS
<1>1. LayoutInv
  BY InitEstablishesInv
<1>2. ~ garbled /\ copy = NoCopy /\ upper = PageEnd /\ lower = HeaderEnd
  BY DEF Init
<1>3. PageInv
  BY <1>1, <1>2 DEF LayoutInv
<1>4. NEntries = 0
  BY <1>2 DEF NEntries, HeaderEnd
<1>5. Contents \in Seq(PageEntries) /\ Len(Contents) = 0
  BY <1>3, <1>4, ContentsFacts
<1>6. Contents = <<>>
  BY <1>5
<1>7. PrefixCost(Contents)[0] = 0
  BY <1>5, CostFacts
<1>8. PageEnd - upper = 0
  BY <1>2, LayoutAssumption
<1>9. Filled
  BY <1>4, <1>7, <1>8 DEF Filled
<1> QED BY <1>1, <1>2, <1>6, <1>9 DEF WholeLayout

\* Nothing of a half is disturbed where nothing changes.
LEMMA HalfSame ==
  ASSUME UNCHANGED layoutVars, HalfInv
  PROVE  HalfInv'
<1>1. PICK i, b, m : HalfOf(i, b, m)
  BY DEF HalfInv
<1>2. mem' = mem /\ lower' = lower /\ copy' = copy /\ bmem' = bmem /\ bupper' = bupper
  BY DEF layoutVars, pageVars, copyVars
<1>3. Contents' = Contents /\ NEntries' = NEntries
  BY <1>2, SameContents
<1>4. FilledFrom(i, b) => FilledFrom(i, b)'
  BY <1>2, <1>3 DEF FilledFrom, EntryAt, OffsetAt, Before, Slot
<1>5. PrefixCost(Contents)' = PrefixCost(Contents)
  BY <1>3 DEF PrefixCost
<1>6. Base(i, b)' = Base(i, b)
  BY DEF Base
<1>7. CopiedRoom(Base(i, b)) => CopiedRoom(Base(i, b))'
  BY <1>2, <1>5, <1>6 DEF CopiedRoom
<1>8. HalfOf(i, b, m)'
  BY <1>1, <1>2, <1>3, <1>4, <1>7 DEF HalfOf, Slot
<1> QED BY <1>8 DEF HalfInv

\* A commit leaves one half of the page, as of a sequence.
LEMMA CommitContents ==
  ASSUME PageInv, CopyPlaces, CopiesInv, HalfInv, CommitSplit
  PROVE  C!Next
<1>1. PICK i, b, m : HalfOf(i, b, m)
  BY DEF HalfInv
<1> DEFINE e == copy.new
           t == InsertAt(Contents, i, e)
           D == Contents'
<1>2. Halved(i, b, m, e)
  BY <1>1, CommitHalf
<1>3. e \in PageEntries /\ e \notin Held
  BY DEF CopyPlaces, CopyRecord
<1>4. PageInv'
  BY CommitPreservesInv
<1>5. /\ Contents \in Seq(PageEntries) /\ Len(Contents) = NEntries /\ NEntries \in Nat
      /\ D \in Seq(PageEntries)
      /\ \A j \in DOMAIN Contents : Contents[j] # e
  BY <1>3, <1>4, ContentsFacts, ContentsNext
<1>6. /\ i \in 1 .. Len(Contents) + 1
      /\ t \in Seq(PageEntries) /\ Len(t) = NEntries + 1
      /\ \A j \in 1 .. m : D[j] = t[b + j]
  BY <1>2, <1>3, HalfRun
<1>7. /\ b \in 0 .. NEntries /\ m \in Nat /\ Len(D) = m
      /\ (b = 0 /\ m <= NEntries) \/ b + m = NEntries + 1
  BY <1>2 DEF Halved
<1>8. ASSUME NEW n \in 0 .. Len(Contents), D \in {SubSeq(t, 1, n), SubSeq(t, n + 1, Len(t))}
      PROVE  C!Next
  <2>1. C!Half(i, e, n)
    BY <1>5, <1>6, <1>8 DEF C!Half, C!InsertAt, InsertAt
  <2> QED BY <1>3, <1>6, <2>1 DEF C!Next
<1> HIDE DEF e, t, D
<1>9. CASE b = 0 /\ m <= NEntries
  <2> DEFINE k == 1
             u == SubSeq(t, k, m)
  <2>1. k \in Nat \ {0} /\ m \in 0 .. Len(t) /\ m \in 0 .. Len(Contents)
    BY <1>5, <1>6, <1>7, <1>9
  <2> HIDE DEF k
  <2>2. /\ u \in Seq(PageEntries) /\ Len(u) = IF k <= m THEN m - k + 1 ELSE 0
        /\ \A j \in 1 .. Len(u) : u[j] = t[k + j - 1]
    BY <1>6, <2>1, SubSeqFacts
  <2> HIDE DEF u
  <2>3. k = 1
    BY DEF k
  <2>4. Len(u) = m
    BY <1>7, <2>2, <2>3
  <2>5. \A j \in 1 .. Len(D) : D[j] = u[j]
    <3> SUFFICES ASSUME NEW j \in 1 .. m PROVE D[j] = u[j]
      BY <1>7
    <3>1. b + j = j /\ k + j - 1 = j
      BY <1>9, <2>3
    <3>2. D[j] = t[b + j] /\ u[j] = t[k + j - 1]
      BY <1>6, <2>2, <2>4
    <3> QED BY <3>1, <3>2
  <2>6. D = u
    BY <1>5, <1>7, <2>2, <2>4, <2>5, SameSeq
  <2> QED BY <1>8, <2>1, <2>3, <2>6 DEF u
<1>10. CASE b + m = NEntries + 1
  <2> DEFINE k == b + 1
             l == Len(t)
             u == SubSeq(t, k, l)
  <2>1. k \in Nat \ {0} /\ l \in 0 .. Len(t) /\ b \in 0 .. Len(Contents) /\ l = NEntries + 1
    BY <1>5, <1>6, <1>7
  <2>2. k = b + 1
    OBVIOUS
  <2> HIDE DEF k, l
  <2>3. /\ u \in Seq(PageEntries) /\ Len(u) = IF k <= l THEN l - k + 1 ELSE 0
        /\ \A j \in 1 .. Len(u) : u[j] = t[k + j - 1]
    BY <1>6, <2>1, SubSeqFacts
  <2> HIDE DEF u
  <2>4. Len(u) = m
    BY <1>5, <1>7, <1>10, <2>1, <2>2, <2>3
  <2>5. \A j \in 1 .. Len(D) : D[j] = u[j]
    <3> SUFFICES ASSUME NEW j \in 1 .. m PROVE D[j] = u[j]
      BY <1>7
    <3>1. b + j = k + j - 1
      BY <1>7, <2>2
    <3>2. D[j] = t[b + j] /\ u[j] = t[k + j - 1]
      BY <1>6, <2>3, <2>4
    <3> QED BY <3>1, <3>2
  <2>6. D = u
    BY <1>5, <1>7, <2>3, <2>4, <2>5, SameSeq
  <2> QED BY <1>8, <2>1, <2>2, <2>6 DEF u, l
<1> QED BY <1>7, <1>9, <1>10

\* Every step preserves the whole invariant, and is one that a sequence of
\* entries can take.
LEMMA WholeStep ==
  ASSUME WholeLayout, [Next]_layoutVars, ~ garbled'
  PROVE  /\ Filled' /\ (copy' = NoCopy \/ HalfInv')
         /\ C!Next \/ UNCHANGED Contents
<1>1. CASE UNCHANGED layoutVars
  <2>1. ~ garbled /\ mem' = mem /\ lower' = lower /\ upper' = upper /\ copy' = copy
    BY <1>1 DEF layoutVars, pageVars, copyVars
  <2>2. Filled /\ (copy = NoCopy \/ HalfInv)
    BY <2>1 DEF WholeLayout
  <2> QED BY <1>1, <2>1, <2>2, FilledSame, HalfSame, SameContents
<1>2. CASE Next
  <2>1. ~ garbled
    BY <1>2 DEF Next, Insert, BeginSplit, Delete, CopyOne, CommitSplit, RefuseSplit,
                GarbleSplit, ConvertRoot
  <2>2. /\ PageInv /\ (copy = NoCopy \/ (CopyPlaces /\ CopiesInv))
        /\ Filled /\ (copy = NoCopy \/ HalfInv)
    BY <2>1 DEF LayoutInv, WholeLayout
  <2>3. copy = NoCopy => ~ copy.on
    BY DEF NoCopy
  <2>4. CopyPlaces => copy.on
    BY DEF CopyPlaces, CopyRecord
  <2>5. ASSUME NEW i \in 1 .. NEntries + 1, NEW e \in PageEntries, Insert(i, e)
        PROVE  Filled' /\ copy' = NoCopy /\ C!Next
    <3>1. copy = NoCopy
      BY <2>2, <2>4, <2>5 DEF Insert
    <3>2. Filled' /\ copy' = NoCopy /\ PageInv'
      BY <2>2, <2>5, <3>1, InsertFilled, InsertPreservesInv
    <3>3. OneMore(Contents', Contents, i, e) /\ \A j \in DOMAIN Contents : Contents[j] # e
      BY <2>2, <2>5, <3>1, InsertContents
    <3>4. /\ Contents \in Seq(PageEntries) /\ Len(Contents) = NEntries
          /\ Contents' \in Seq(PageEntries)
      BY <2>2, <3>2, ContentsFacts, ContentsNext
    <3>5. i \in 1 .. Len(Contents) + 1
      BY <3>4
    <3>6. Contents' = InsertAt(Contents, i, e)
      BY <3>3, <3>4, <3>5, OneMoreInserted
    <3>7. C!Insert(i, e)
      BY <3>3, <3>5, <3>6 DEF C!Insert, C!InsertAt, InsertAt
    <3> QED BY <3>2, <3>5, <3>7 DEF C!Next
  <2>6. ASSUME NEW i \in 1 .. NEntries + 1, NEW e \in PageEntries, BeginSplit(i, e)
        PROVE  Filled' /\ HalfInv' /\ UNCHANGED Contents
    <3>1. HalfInv'
      BY <2>2, <2>6, BeginHalf
    <3>2. mem' = mem /\ lower' = lower /\ upper' = upper
      BY <2>6 DEF BeginSplit, pageVars
    <3> QED BY <2>2, <3>1, <3>2, FilledSame, SameContents
  <2>7. ASSUME NEW i \in 1 .. NEntries, Delete(i)
        PROVE  Filled' /\ copy' = NoCopy /\ C!Next
    <3>1. copy = NoCopy
      BY <2>2, <2>4, <2>7 DEF Delete
    <3>2. Filled' /\ copy' = NoCopy /\ PageInv'
      BY <2>2, <2>7, <3>1, DeleteFilled, DeletePreservesInv
    <3>3. OneMore(Contents, Contents', i, Contents[i])
      BY <2>2, <2>7, <3>1, DeleteContents
    <3>4. /\ Contents \in Seq(PageEntries) /\ Len(Contents) = NEntries /\ NEntries \in Nat
          /\ DOMAIN Contents = 1 .. NEntries
          /\ Contents' \in Seq(PageEntries)
      BY <2>2, <3>2, ContentsFacts, ContentsNext
    <3>5. Contents' = RemoveAt(Contents, i)
      BY <3>3, <3>4, OneMoreRemoved
    <3>6. C!Delete(i)
      BY <3>4, <3>5 DEF C!Delete, C!RemoveAt, RemoveAt
    <3>7. i \in 1 .. Len(Contents) + 1 /\ Contents[i] \in PageEntries
      BY <3>4, SeqFacts
    <3> QED BY <3>2, <3>6, <3>7 DEF C!Next
  <2>8. CASE CopyOne
    <3>1. CopyPlaces /\ CopiesInv /\ HalfInv
      BY <2>2, <2>3, <2>8 DEF CopyOne
    <3>2. HalfInv'
      BY <2>2, <2>8, <3>1, CopyHalf
    <3>3. mem' = mem /\ lower' = lower /\ upper' = upper
      BY <2>8 DEF CopyOne, pageVars
    <3> QED BY <2>2, <3>2, <3>3, FilledSame, SameContents
  <2>9. CASE CommitSplit
    <3>1. CopyPlaces /\ CopiesInv /\ HalfInv
      BY <2>2, <2>3, <2>9 DEF CommitSplit, AllCopied
    <3>2. copy' = NoCopy
      BY <2>9 DEF CommitSplit, NoMoreCopy
    <3> QED BY <2>2, <2>9, <3>1, <3>2, CommitFilled, CommitContents
  <2>10. CASE RefuseSplit
    <3>1. mem' = mem /\ lower' = lower /\ upper' = upper /\ copy' = NoCopy
      BY <2>10 DEF RefuseSplit, NoMoreCopy, pageVars
    <3> QED BY <2>2, <3>1, FilledSame, SameContents
  <2>11. CASE GarbleSplit
    BY <2>11 DEF GarbleSplit
  <2>12. ASSUME NEW e1 \in PageEntries, NEW e2 \in PageEntries, ConvertRoot(e1, e2)
         PROVE  Filled' /\ copy' = NoCopy /\ C!Next
    <3>1. copy = NoCopy
      BY <2>2, <2>4, <2>12 DEF ConvertRoot
    <3>2. Filled' /\ copy' = NoCopy
      BY <2>2, <2>12, <3>1, ConvertFilled, ConvertPreservesInv
    <3>3. Contents' = <<e1, e2>>
      BY <2>2, <2>12, <3>1, ConvertContents
    <3>4. C!Root(e1, e2)
      BY <2>12, <3>3 DEF C!Root, ConvertRoot
    <3>5. 1 \in 1 .. Len(Contents) + 1
      BY <2>2, ContentsFacts
    <3> QED BY <3>2, <3>4, <3>5 DEF C!Next
  <2> QED BY <1>2, <2>5, <2>6, <2>7, <2>8, <2>9, <2>10, <2>11, <2>12 DEF Next
<1> QED BY <1>1, <1>2

\* Every step preserves the whole invariant.
LEMMA NextPreservesWhole == WholeLayout /\ [Next]_layoutVars => WholeLayout'
<1> SUFFICES ASSUME WholeLayout, [Next]_layoutVars PROVE WholeLayout'
  OBVIOUS
<1>1. LayoutInv'
  BY NextPreservesInv DEF WholeLayout
<1>2. ~ garbled' => Filled' /\ (copy' = NoCopy \/ HalfInv')
  BY WholeStep
<1>3. NoCopy' = NoCopy
  BY DEF NoCopy
<1> QED BY <1>1, <1>2, <1>3 DEF WholeLayout

\* What is not free on a page is always taken by the entries that are there
\* and their slots, for every set of entries and every page size: no
\* deletion, and no copy of a half, leaves a gap.
THEOREM SpaceAlwaysExact == Spec => []SpaceExact
<1>1. WholeLayout => SpaceExact
  <2> SUFFICES ASSUME PageInv, Filled
               PROVE  2 * (upper - lower)
                        = 2 * (PageEnd - HeaderEnd) - PrefixCost(Contents)[NEntries]
    BY DEF WholeLayout, LayoutInv, SpaceExact
  <2> DEFINE x == PrefixCost(Contents)[NEntries]
  <2>1. x \in Nat /\ NEntries \in Nat /\ upper \in Int /\ PageEnd \in Int
    BY AccountNat
  <2>2. lower = HeaderEnd + NEntries /\ HeaderEnd = 10
    BY ContentsFacts DEF HeaderEnd
  <2>3. x = 2 * (PageEnd - upper) + 2 * NEntries
    BY DEF Filled
  <2> HIDE DEF x
  <2>4. 2 * (upper - lower) = 2 * (PageEnd - HeaderEnd) - x
    BY <2>1, <2>2, <2>3
  <2> QED BY <2>4 DEF x
<1>2. Init => WholeLayout
  BY InitEstablishesWhole
<1> QED BY <1>1, <1>2, NextPreservesWhole, PTL DEF Spec

\* Moving bytes and offsets about, the entries of a page change as a sequence
\* would, for every set of entries and every page size: insertions, deletions,
\* either half of a split and a new root's two entries keep the others whole
\* and in order, until a header is written over.
THEOREM ContentsCorrect == Spec => ImplementsContents
<1>1. Init => WholeLayout /\ C!Init
  BY InitEstablishesWhole DEF C!Init
<1>2. WholeLayout /\ [Next]_layoutVars => [garbled' \/ C!Next]_Contents
  BY WholeStep
<1> QED BY <1>1, <1>2, NextPreservesWhole, PTL DEF Spec, ImplementsContents
=============================================================================
