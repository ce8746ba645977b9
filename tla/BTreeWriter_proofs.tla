------------------------- MODULE BTreeWriter_proofs -------------------------
(***************************************************************************)
(* Proofs about BTreeWriter, for every set of keys and values, every page  *)
(* size and every bound on the arena.                                      *)
(***************************************************************************)
EXTENDS BTreeWriter, SequenceFacts, TLAPS

-----------------------------------------------------------------------------
(* The two halves of a page.                                               *)

\* The halves hold the entries of the page with the new one at its place,
\* in the same order, and the right half is not empty.
LEMMA HalvesFacts ==
  ASSUME NEW S, NEW ents \in Seq(S), NEW e \in S, NEW leaf,
         NEW pos \in 1 .. Len(ents) + 1, NEW h \in Halves(leaf, ents, pos, e)
  PROVE  /\ h.left \in Seq(S)
         /\ h.right \in Seq(S)
         /\ Len(h.left) \in 0 .. Len(ents)
         /\ Len(h.right) = Len(ents) + 1 - Len(h.left)
         /\ h.right # <<>>
         /\ h.right[1] \in S
         /\ \A i \in DOMAIN h.left : h.left[i] = InsertAt(ents, pos, e)[i]
         /\ \A i \in DOMAIN h.right :
              h.right[i] = InsertAt(ents, pos, e)[Len(h.left) + i]
<1> DEFINE all == InsertAt(ents, pos, e)
<1>1. all \in Seq(S) /\ Len(all) = Len(ents) + 1
  BY InsertAtFacts
<1>2. PICK n \in 0 .. Len(ents) :
        h = [left |-> SubSeq(all, 1, n), right |-> SubSeq(all, n + 1, Len(all))]
  BY DEF Halves
<1>3. Len(ents) \in Nat /\ n \in Nat /\ n <= Len(ents)
  OBVIOUS
<1> HIDE DEF all
<1>4. /\ SubSeq(all, 1, n) \in Seq(S)
      /\ Len(SubSeq(all, 1, n)) = n
      /\ \A i \in 1 .. n : SubSeq(all, 1, n)[i] = all[i]
  BY <1>1, <1>3, SubSeqFacts
<1>5. /\ SubSeq(all, n + 1, Len(all)) \in Seq(S)
      /\ Len(SubSeq(all, n + 1, Len(all))) = Len(ents) + 1 - n
      /\ \A i \in 1 .. Len(ents) + 1 - n :
           SubSeq(all, n + 1, Len(all))[i] = all[n + i]
  <2>1. n + 1 \in Nat \ {0} /\ Len(all) \in 0 .. Len(all)
    BY <1>1, <1>3
  <2>2. /\ SubSeq(all, n + 1, Len(all)) \in Seq(S)
        /\ Len(SubSeq(all, n + 1, Len(all)))
             = IF n + 1 <= Len(all) THEN Len(all) - (n + 1) + 1 ELSE 0
        /\ \A i \in 1 .. Len(SubSeq(all, n + 1, Len(all))) :
             SubSeq(all, n + 1, Len(all))[i] = all[n + 1 + i - 1]
    BY <1>1, <2>1, SubSeqFacts
  <2>3. \A i \in 1 .. Len(ents) + 1 - n : n + 1 + i - 1 = n + i
    BY <1>3
  <2> QED
    BY <1>1, <1>3, <2>2, <2>3
<1>6. /\ h.left = SubSeq(all, 1, n)
      /\ h.right = SubSeq(all, n + 1, Len(all))
  BY <1>2
<1>7. h.left \in Seq(S) /\ Len(h.left) = n
  BY <1>4, <1>6
<1>8. h.right \in Seq(S) /\ Len(h.right) = Len(ents) + 1 - n
  BY <1>5, <1>6
<1>9. DOMAIN h.left = 1 .. n /\ DOMAIN h.right = 1 .. Len(ents) + 1 - n
  BY <1>7, <1>8
<1>10. h.right # <<>> /\ h.right[1] \in S
  BY <1>3, <1>8, <1>9
<1> QED
  BY <1>3, <1>4, <1>5, <1>6, <1>7, <1>8, <1>9, <1>10 DEF all

-----------------------------------------------------------------------------
(* Pages, and what the arena looks like after each of its changes.         *)

AnyPage == LeafPage \cup InternalPage

\* What a page's entries are follows from its type.
EntryOf(leaf) == IF leaf THEN LeafEntry ELSE SepEntry

\* The key of an entry of either kind is a string.
LEMMA KeyOfEntry ==
  ASSUME NEW leaf, NEW e \in EntryOf(leaf)
  PROVE  e.key \in Strings
  BY DEF EntryOf, LeafEntry, SepEntry

\* The fields of a page, leaf or internal.
LEMMA PageFacts ==
  ASSUME NEW pg \in AnyPage
  PROVE  /\ pg.leaf \in BOOLEAN
         /\ pg.prev \in Nat
         /\ pg.next \in Nat
         /\ pg.ents \in Seq(EntryOf(pg.leaf))
  BY DEF AnyPage, LeafPage, InternalPage, EntryOf

\* Page builds a page with the fields it is given.
LEMMA NewPageFacts ==
  ASSUME NEW leaf \in BOOLEAN, NEW prev \in Nat, NEW next \in Nat,
         NEW ents \in Seq(EntryOf(leaf))
  PROVE  /\ Page(leaf, prev, next, ents) \in AnyPage
         /\ Page(leaf, prev, next, ents).leaf = leaf
         /\ Page(leaf, prev, next, ents).prev = prev
         /\ Page(leaf, prev, next, ents).next = next
         /\ Page(leaf, prev, next, ents).ents = ents
  BY DEF AnyPage, LeafPage, InternalPage, EntryOf, Page

\* Changing one field of a page gives the page with that field changed.
LEMMA ChangedPageFacts ==
  ASSUME NEW pg \in AnyPage
  PROVE  /\ \A n : [pg EXCEPT !.next = n] = Page(pg.leaf, pg.prev, n, pg.ents)
         /\ \A n : [pg EXCEPT !.prev = n] = Page(pg.leaf, n, pg.next, pg.ents)
         /\ \A s : [pg EXCEPT !.ents = s] = Page(pg.leaf, pg.prev, pg.next, s)
<1>1. CASE pg \in LeafPage
  <2>1. \A n : [pg EXCEPT !.next = n] = Page(pg.leaf, pg.prev, n, pg.ents)
    BY <1>1 DEF LeafPage, Page
  <2>2. \A n : [pg EXCEPT !.prev = n] = Page(pg.leaf, n, pg.next, pg.ents)
    BY <1>1 DEF LeafPage, Page
  <2>3. \A s : [pg EXCEPT !.ents = s] = Page(pg.leaf, pg.prev, pg.next, s)
    BY <1>1 DEF LeafPage, Page
  <2> QED
    BY <2>1, <2>2, <2>3
<1>2. CASE pg \in InternalPage
  <2>1. \A n : [pg EXCEPT !.next = n] = Page(pg.leaf, pg.prev, n, pg.ents)
    BY <1>2 DEF InternalPage, Page
  <2>2. \A n : [pg EXCEPT !.prev = n] = Page(pg.leaf, n, pg.next, pg.ents)
    BY <1>2 DEF InternalPage, Page
  <2>3. \A s : [pg EXCEPT !.ents = s] = Page(pg.leaf, pg.prev, pg.next, s)
    BY <1>2 DEF InternalPage, Page
  <2> QED
    BY <2>1, <2>2, <2>3
<1> QED
  BY <1>1, <1>2 DEF AnyPage

\* A sequence changed at one place.
LEMMA ChangeAtFacts ==
  ASSUME NEW S, NEW s \in Seq(S), NEW p \in DOMAIN s, NEW x \in S
  PROVE  /\ [s EXCEPT ![p] = x] \in Seq(S)
         /\ Len([s EXCEPT ![p] = x]) = Len(s)
         /\ \A q \in 1 .. Len(s) : [s EXCEPT ![p] = x][q] = IF q = p THEN x ELSE s[q]
  OBVIOUS

\* A change to the entries of one page.
LEMMA SetEntsFacts ==
  ASSUME NEW ps \in Seq(AnyPage), NEW p \in DOMAIN ps,
         NEW ents \in Seq(EntryOf(ps[p].leaf))
  PROVE  LET new == [ps EXCEPT ![p].ents = ents]
         IN  /\ new \in Seq(AnyPage)
             /\ Len(new) = Len(ps)
             /\ \A q \in 1 .. Len(ps) :
                  /\ new[q].leaf = ps[q].leaf
                  /\ new[q].prev = ps[q].prev
                  /\ new[q].next = ps[q].next
                  /\ new[q].ents = IF q = p THEN ents ELSE ps[q].ents
<1> DEFINE pg == Page(ps[p].leaf, ps[p].prev, ps[p].next, ents)
<1>1. ps[p] \in AnyPage
  BY SeqFacts
<1>2. [ps[p] EXCEPT !.ents = ents] = pg
  BY <1>1, ChangedPageFacts, PageFacts
<1>3. /\ pg \in AnyPage /\ pg.leaf = ps[p].leaf /\ pg.prev = ps[p].prev
      /\ pg.next = ps[p].next /\ pg.ents = ents
  <2>1. ps[p].leaf \in BOOLEAN /\ ps[p].prev \in Nat /\ ps[p].next \in Nat
    BY <1>1, PageFacts
  <2> QED
    BY <2>1, NewPageFacts
<1> HIDE DEF pg
<1>4. [ps EXCEPT ![p].ents = ents] = [ps EXCEPT ![p] = pg]
  BY <1>2
<1>5. /\ [ps EXCEPT ![p] = pg] \in Seq(AnyPage)
      /\ Len([ps EXCEPT ![p] = pg]) = Len(ps)
      /\ \A q \in 1 .. Len(ps) :
           [ps EXCEPT ![p] = pg][q] = IF q = p THEN pg ELSE ps[q]
  BY <1>3, ChangeAtFacts
<1> QED
  BY <1>3, <1>4, <1>5

\* A change to one of the links of one page.
LEMMA SetPrevFacts ==
  ASSUME NEW ps \in Seq(AnyPage), NEW p \in DOMAIN ps, NEW n \in Nat
  PROVE  LET new == [ps EXCEPT ![p].prev = n]
         IN  /\ new \in Seq(AnyPage)
             /\ Len(new) = Len(ps)
             /\ \A q \in 1 .. Len(ps) :
                  /\ new[q].leaf = ps[q].leaf
                  /\ new[q].prev = IF q = p THEN n ELSE ps[q].prev
                  /\ new[q].next = ps[q].next
                  /\ new[q].ents = ps[q].ents
<1> DEFINE pg == Page(ps[p].leaf, n, ps[p].next, ps[p].ents)
<1>1. ps[p] \in AnyPage
  BY SeqFacts
<1>2. [ps[p] EXCEPT !.prev = n] = pg
  BY <1>1, ChangedPageFacts
<1>3. /\ pg \in AnyPage /\ pg.leaf = ps[p].leaf /\ pg.prev = n
      /\ pg.next = ps[p].next /\ pg.ents = ps[p].ents
  <2>1. /\ ps[p].leaf \in BOOLEAN /\ ps[p].prev \in Nat /\ ps[p].next \in Nat
        /\ ps[p].ents \in Seq(EntryOf(ps[p].leaf))
    BY <1>1, PageFacts
  <2> QED
    BY <2>1, NewPageFacts
<1> HIDE DEF pg
<1>4. [ps EXCEPT ![p].prev = n] = [ps EXCEPT ![p] = pg]
  BY <1>2
<1>5. /\ [ps EXCEPT ![p] = pg] \in Seq(AnyPage)
      /\ Len([ps EXCEPT ![p] = pg]) = Len(ps)
      /\ \A q \in 1 .. Len(ps) :
           [ps EXCEPT ![p] = pg][q] = IF q = p THEN pg ELSE ps[q]
  BY <1>3, ChangeAtFacts
<1> QED
  BY <1>3, <1>4, <1>5

\* The arena after one page's next link was set.
LEMMA SetNextFacts ==
  ASSUME NEW ps \in Seq(AnyPage), NEW p \in DOMAIN ps, NEW n \in Nat
  PROVE  LET new == [ps EXCEPT ![p].next = n]
         IN  /\ new \in Seq(AnyPage)
             /\ Len(new) = Len(ps)
             /\ \A q \in 1 .. Len(ps) :
                  /\ new[q].leaf = ps[q].leaf
                  /\ new[q].prev = ps[q].prev
                  /\ new[q].next = IF q = p THEN n ELSE ps[q].next
                  /\ new[q].ents = ps[q].ents
<1> DEFINE pg == Page(ps[p].leaf, ps[p].prev, n, ps[p].ents)
<1>1. ps[p] \in AnyPage
  BY SeqFacts
<1>2. [ps[p] EXCEPT !.next = n] = pg
  BY <1>1, ChangedPageFacts
<1>3. /\ pg \in AnyPage /\ pg.leaf = ps[p].leaf /\ pg.prev = ps[p].prev
      /\ pg.next = n /\ pg.ents = ps[p].ents
  <2>1. /\ ps[p].leaf \in BOOLEAN /\ ps[p].prev \in Nat /\ ps[p].next \in Nat
        /\ ps[p].ents \in Seq(EntryOf(ps[p].leaf))
    BY <1>1, PageFacts
  <2> QED
    BY <2>1, NewPageFacts
<1> HIDE DEF pg
<1>4. [ps EXCEPT ![p].next = n] = [ps EXCEPT ![p] = pg]
  BY <1>2
<1>5. /\ [ps EXCEPT ![p] = pg] \in Seq(AnyPage)
      /\ Len([ps EXCEPT ![p] = pg]) = Len(ps)
      /\ \A q \in 1 .. Len(ps) :
           [ps EXCEPT ![p] = pg][q] = IF q = p THEN pg ELSE ps[q]
  BY <1>3, ChangeAtFacts
<1> QED
  BY <1>3, <1>4, <1>5

\* The arena after the right neighbour's prev link was set (RelinkNext).
LEMMA RelinkNextFacts ==
  ASSUME NEW ps \in Seq(AnyPage), NEW old \in Nat, NEW r \in Nat
  PROVE  LET new == RelinkNext(ps, old, r)
         IN  /\ new \in Seq(AnyPage)
             /\ Len(new) = Len(ps)
             /\ \A q \in 1 .. Len(ps) :
                  /\ new[q].leaf = ps[q].leaf
                  /\ new[q].prev = IF q = old THEN r ELSE ps[q].prev
                  /\ new[q].next = ps[q].next
                  /\ new[q].ents = ps[q].ents
<1>1. CASE old \in DOMAIN ps
  <2>1. old # P_INVALID
    BY <1>1, SeqFacts DEF P_INVALID
  <2>2. RelinkNext(ps, old, r) = [ps EXCEPT ![old].prev = r]
    BY <2>1 DEF RelinkNext
  <2> QED
    BY <1>1, <2>2, SetPrevFacts
<1>2. CASE old \notin DOMAIN ps
  <2>1. RelinkNext(ps, old, r) = ps
    BY <1>2 DEF RelinkNext
  <2>2. \A q \in 1 .. Len(ps) : q # old
    BY <1>2, SeqFacts
  <2> QED
    BY <2>1, <2>2
<1> QED
  BY <1>1, <1>2

\* A split: the page keeps the left half, a new page has the right one and
\* comes between it and the page that followed.
LEMMA SplitPageFacts ==
  ASSUME pages \in Seq(AnyPage), NEW p \in DOMAIN pages, NEW h,
         h.left \in Seq(EntryOf(pages[p].leaf)),
         h.right \in Seq(EntryOf(pages[p].leaf))
  PROVE  LET new == SplitPage(p, h)
             r == Len(pages) + 1
         IN  /\ new \in Seq(AnyPage)
             /\ Len(new) = r
             /\ \A q \in 1 .. Len(pages) :
                  /\ new[q].leaf = pages[q].leaf
                  /\ new[q].prev = IF q = pages[p].next THEN r ELSE pages[q].prev
                  /\ new[q].next = IF q = p THEN r ELSE pages[q].next
                  /\ new[q].ents = IF q = p THEN h.left ELSE pages[q].ents
             /\ new[r].leaf = pages[p].leaf
             /\ new[r].prev = p
             /\ new[r].next = pages[p].next
             /\ new[r].ents = h.right
<1> DEFINE r == Len(pages) + 1
           old == pages[p].next
           pg == Page(pages[p].leaf, pages[p].prev, r, h.left)
           split == [pages EXCEPT ![p] = pg]
           linked == RelinkNext(split, old, r)
           last == Page(pages[p].leaf, p, old, h.right)
<1>1. /\ pages[p] \in AnyPage /\ Len(pages) \in Nat /\ r \in Nat
      /\ p \in Nat /\ p \in 1 .. Len(pages)
  BY SeqFacts
<1>2. pages[p].leaf \in BOOLEAN /\ pages[p].prev \in Nat /\ old \in Nat
  BY <1>1, PageFacts
<1>3. /\ pg \in AnyPage /\ pg.leaf = pages[p].leaf /\ pg.prev = pages[p].prev
      /\ pg.next = r /\ pg.ents = h.left
  BY <1>1, <1>2, NewPageFacts
<1>4. /\ last \in AnyPage /\ last.leaf = pages[p].leaf /\ last.prev = p
      /\ last.next = old /\ last.ents = h.right
  BY <1>1, <1>2, NewPageFacts
<1>5. SplitPage(p, h) = Append(linked, last)
  BY DEF SplitPage, NextFreePgno
<1> HIDE DEF pg, last
<1>6. /\ split \in Seq(AnyPage) /\ Len(split) = Len(pages)
      /\ \A q \in 1 .. Len(pages) : split[q] = IF q = p THEN pg ELSE pages[q]
  BY <1>3, ChangeAtFacts
<1> HIDE DEF split, old, r
<1>7. /\ linked \in Seq(AnyPage) /\ Len(linked) = Len(pages)
      /\ \A q \in 1 .. Len(pages) :
           /\ linked[q].leaf = split[q].leaf
           /\ linked[q].prev = IF q = old THEN r ELSE split[q].prev
           /\ linked[q].next = split[q].next
           /\ linked[q].ents = split[q].ents
  <2>1. split \in Seq(AnyPage) /\ old \in Nat /\ r \in Nat
    BY <1>1, <1>2, <1>6
  <2>2. /\ linked \in Seq(AnyPage) /\ Len(linked) = Len(split)
        /\ \A q \in 1 .. Len(split) :
             /\ linked[q].leaf = split[q].leaf
             /\ linked[q].prev = IF q = old THEN r ELSE split[q].prev
             /\ linked[q].next = split[q].next
             /\ linked[q].ents = split[q].ents
    BY <2>1, RelinkNextFacts
  <2> QED
    BY <1>6, <2>2
<1> HIDE DEF linked
<1>8. /\ Append(linked, last) \in Seq(AnyPage)
      /\ Len(Append(linked, last)) = Len(pages) + 1
      /\ \A q \in 1 .. Len(pages) : Append(linked, last)[q] = linked[q]
      /\ Append(linked, last)[Len(pages) + 1] = last
  <2>1. linked \in Seq(AnyPage) /\ last \in AnyPage
    BY <1>4, <1>7
  <2>2. /\ Append(linked, last) \in Seq(AnyPage)
        /\ Len(Append(linked, last)) = Len(linked) + 1
        /\ \A q \in 1 .. Len(linked) : Append(linked, last)[q] = linked[q]
        /\ Append(linked, last)[Len(linked) + 1] = last
    BY <2>1, AppendFacts
  <2> QED
    BY <1>7, <2>2
<1>9. \A q \in 1 .. Len(pages) :
        /\ linked[q].leaf = pages[q].leaf
        /\ linked[q].prev = IF q = old THEN r ELSE pages[q].prev
        /\ linked[q].next = IF q = p THEN r ELSE pages[q].next
        /\ linked[q].ents = IF q = p THEN h.left ELSE pages[q].ents
  BY <1>3, <1>6, <1>7
<1> QED
  BY <1>4, <1>5, <1>8, <1>9 DEF r, old

\* bt_page's shortcut: the page itself only gets a new right neighbour.
LEMMA AppendPageFacts ==
  ASSUME pages \in Seq(AnyPage), NEW p \in DOMAIN pages,
         NEW e \in EntryOf(pages[p].leaf)
  PROVE  LET new == AppendPage(p, e)
             r == Len(pages) + 1
         IN  /\ new \in Seq(AnyPage)
             /\ Len(new) = r
             /\ \A q \in 1 .. Len(pages) :
                  /\ new[q].leaf = pages[q].leaf
                  /\ new[q].prev = pages[q].prev
                  /\ new[q].next = IF q = p THEN r ELSE pages[q].next
                  /\ new[q].ents = pages[q].ents
             /\ new[r].leaf = pages[p].leaf
             /\ new[r].prev = p
             /\ new[r].next = P_INVALID
             /\ new[r].ents = <<e>>
<1> DEFINE r == Len(pages) + 1
           linked == [pages EXCEPT ![p].next = r]
           last == Page(pages[p].leaf, p, P_INVALID, <<e>>)
<1>1. /\ pages[p] \in AnyPage /\ Len(pages) \in Nat /\ r \in Nat
      /\ p \in Nat /\ P_INVALID \in Nat
  BY SeqFacts DEF P_INVALID
<1>2. pages[p].leaf \in BOOLEAN /\ <<e>> \in Seq(EntryOf(pages[p].leaf))
  <2>1. pages[p].leaf \in BOOLEAN
    BY <1>1, PageFacts
  <2>2. <<e>> \in Seq(EntryOf(pages[p].leaf))
    OBVIOUS
  <2> QED
    BY <2>1, <2>2
<1>3. /\ last \in AnyPage /\ last.leaf = pages[p].leaf /\ last.prev = p
      /\ last.next = P_INVALID /\ last.ents = <<e>>
  <2>1. \A n \in Nat : \A s \in Seq(EntryOf(pages[p].leaf)) :
          LET pg == Page(pages[p].leaf, p, n, s)
          IN  /\ pg \in AnyPage /\ pg.leaf = pages[p].leaf /\ pg.prev = p
              /\ pg.next = n /\ pg.ents = s
    BY <1>1, <1>2, NewPageFacts
  <2> QED
    BY <1>1, <1>2, <2>1
<1>4. AppendPage(p, e) = Append(linked, last)
  BY DEF AppendPage, NextFreePgno
<1> HIDE DEF last, r
<1>5. /\ linked \in Seq(AnyPage) /\ Len(linked) = Len(pages)
      /\ \A q \in 1 .. Len(pages) :
           /\ linked[q].leaf = pages[q].leaf
           /\ linked[q].prev = pages[q].prev
           /\ linked[q].next = IF q = p THEN r ELSE pages[q].next
           /\ linked[q].ents = pages[q].ents
  BY <1>1, SetNextFacts
<1> HIDE DEF linked
<1>6. /\ Append(linked, last) \in Seq(AnyPage)
      /\ Len(Append(linked, last)) = Len(pages) + 1
      /\ \A q \in 1 .. Len(pages) : Append(linked, last)[q] = linked[q]
      /\ Append(linked, last)[Len(pages) + 1] = last
  <2>1. linked \in Seq(AnyPage) /\ last \in AnyPage
    BY <1>3, <1>5
  <2>2. /\ Append(linked, last) \in Seq(AnyPage)
        /\ Len(Append(linked, last)) = Len(linked) + 1
        /\ \A q \in 1 .. Len(linked) : Append(linked, last)[q] = linked[q]
        /\ Append(linked, last)[Len(linked) + 1] = last
    BY <2>1, AppendFacts
  <2> QED
    BY <1>5, <2>2
<1> QED
  BY <1>3, <1>4, <1>5, <1>6 DEF r

\* A new root: its entries go to two new pages, which it refers to.
LEMMA GrowRootFacts ==
  ASSUME pages \in Seq(AnyPage), P_ROOT \in DOMAIN pages, NEW h,
         h.left \in Seq(EntryOf(pages[P_ROOT].leaf)),
         h.right \in Seq(EntryOf(pages[P_ROOT].leaf)),
         h.right[1].key \in Strings
  PROVE  LET new == GrowRoot(h)
             l == Len(pages) + 1
             r == Len(pages) + 2
         IN  /\ new \in Seq(AnyPage)
             /\ Len(new) = r
             /\ \A q \in 1 .. Len(pages) :
                  /\ new[q].leaf = (q # P_ROOT /\ pages[q].leaf)
                  /\ new[q].prev = pages[q].prev
                  /\ new[q].next = pages[q].next
                  /\ q # P_ROOT => new[q].ents = pages[q].ents
             /\ new[P_ROOT].ents = << [key |-> 0, child |-> l],
                                      [key |-> h.right[1].key, child |-> r] >>
             /\ new[l].leaf = pages[P_ROOT].leaf
             /\ new[l].prev = P_INVALID
             /\ new[l].next = r
             /\ new[l].ents = h.left
             /\ new[r].leaf = pages[P_ROOT].leaf
             /\ new[r].prev = l
             /\ new[r].next = P_INVALID
             /\ new[r].ents = h.right
<1> DEFINE l == Len(pages) + 1
           r == Len(pages) + 2
           leaf == pages[P_ROOT].leaf
           top == << [key |-> 0, child |-> l],
                     [key |-> h.right[1].key, child |-> r] >>
           root == Page(FALSE, pages[P_ROOT].prev, pages[P_ROOT].next, top)
           left == Page(leaf, P_INVALID, r, h.left)
           right == Page(leaf, l, P_INVALID, h.right)
           grown == [pages EXCEPT ![P_ROOT] = root]
<1>1. /\ Len(pages) \in Nat /\ l \in Nat /\ r \in Nat /\ P_INVALID \in Nat
      /\ pages[P_ROOT] \in AnyPage /\ P_ROOT \in 1 .. Len(pages)
  BY SeqFacts DEF P_INVALID
<1>2. /\ leaf \in BOOLEAN /\ pages[P_ROOT].prev \in Nat
      /\ pages[P_ROOT].next \in Nat
  BY <1>1, PageFacts
<1>3. top \in Seq(EntryOf(FALSE))
  <2>1. [key |-> 0, child |-> l] \in SepEntry
    BY <1>1, StringsAssumption DEF SepEntry
  <2>2. [key |-> h.right[1].key, child |-> r] \in SepEntry
    BY <1>1 DEF SepEntry
  <2> QED
    BY <2>1, <2>2 DEF EntryOf
<1>4. GrowRoot(h) = grown \o <<left, right>>
  <2>1. r = NextFreePgno + 1 /\ l = NextFreePgno
    BY <1>1 DEF NextFreePgno
  <2> QED
    BY <2>1 DEF GrowRoot
<1> HIDE DEF l, r, top, leaf
<1>5. /\ root \in AnyPage /\ root.leaf = FALSE /\ root.prev = pages[P_ROOT].prev
      /\ root.next = pages[P_ROOT].next /\ root.ents = top
  <2>1. /\ pages[P_ROOT].prev \in Nat /\ pages[P_ROOT].next \in Nat
        /\ top \in Seq(SepEntry)
    BY <1>2, <1>3 DEF EntryOf
  <2> QED
    BY <2>1 DEF root, Page, AnyPage, InternalPage
<1>6. /\ left \in AnyPage /\ left.leaf = leaf /\ left.prev = P_INVALID
      /\ left.next = r /\ left.ents = h.left
  BY <1>1, <1>2, NewPageFacts DEF leaf
<1>7. /\ right \in AnyPage /\ right.leaf = leaf /\ right.prev = l
      /\ right.next = P_INVALID /\ right.ents = h.right
  BY <1>1, <1>2, NewPageFacts DEF leaf
<1> HIDE DEF root, left, right
<1>8. /\ grown \in Seq(AnyPage) /\ Len(grown) = Len(pages)
      /\ \A q \in 1 .. Len(pages) : grown[q] = IF q = P_ROOT THEN root ELSE pages[q]
  BY <1>1, <1>5, ChangeAtFacts
<1> HIDE DEF grown
<1>9. /\ <<left, right>> \in Seq(AnyPage) /\ Len(<<left, right>>) = 2
      /\ <<left, right>>[1] = left /\ <<left, right>>[2] = right
  BY <1>6, <1>7
<1>10. /\ grown \o <<left, right>> \in Seq(AnyPage)
       /\ Len(grown \o <<left, right>>) = Len(pages) + 2
       /\ \A q \in 1 .. Len(pages) : (grown \o <<left, right>>)[q] = grown[q]
       /\ (grown \o <<left, right>>)[Len(pages) + 1] = left
       /\ (grown \o <<left, right>>)[Len(pages) + 2] = right
  <2> DEFINE two == <<left, right>>
  <2>1. /\ grown \in Seq(AnyPage) /\ two \in Seq(AnyPage) /\ Len(two) = 2
        /\ two[1] = left /\ two[2] = right /\ Len(grown) = Len(pages)
        /\ Len(pages) \in Nat
    BY <1>1, <1>8, <1>9
  <2> HIDE DEF two
  <2>2. /\ grown \o two \in Seq(AnyPage)
        /\ Len(grown \o two) = Len(pages) + 2
        /\ \A q \in 1 .. Len(pages) : (grown \o two)[q] = grown[q]
        /\ \A q \in 1 .. 2 : (grown \o two)[Len(pages) + q] = two[q]
    <3> DEFINE m == Len(pages)
               n == 2
    <3>1. /\ grown \in Seq(AnyPage) /\ m \in Nat /\ m = Len(grown)
          /\ two \in Seq(AnyPage) /\ n \in Nat /\ n = Len(two)
      BY <2>1
    <3> HIDE DEF m, n
    <3>2. /\ grown \o two \in Seq(AnyPage)
          /\ Len(grown \o two) = m + n
          /\ \A q \in 1 .. m : (grown \o two)[q] = grown[q]
          /\ \A q \in 1 .. n : (grown \o two)[m + q] = two[q]
      BY <3>1, ConcatFacts
    <3> QED
      BY <3>2 DEF m, n
  <2>3. 1 \in 1 .. 2 /\ 2 \in 1 .. 2
    OBVIOUS
  <2> QED
    BY <2>1, <2>2, <2>3 DEF two
<1>11. \A q \in 1 .. Len(pages) :
         /\ grown[q].leaf = (q # P_ROOT /\ pages[q].leaf)
         /\ grown[q].prev = pages[q].prev
         /\ grown[q].next = pages[q].next
         /\ q # P_ROOT => grown[q].ents = pages[q].ents
  <2>1. \A q \in 1 .. Len(pages) : pages[q].leaf \in BOOLEAN
    BY PageFacts, SeqFacts
  <2> QED
    BY <1>5, <1>8, <2>1
<1>12. grown[P_ROOT].ents = top
  BY <1>1, <1>5, <1>8
<1> QED
  BY <1>1, <1>4, <1>6, <1>7, <1>10, <1>11, <1>12 DEF l, r, top, leaf

-----------------------------------------------------------------------------
(* The inductive invariant.  No page reaches itself through its children:  *)
(* every page has a level below that of the page that refers to it.  That  *)
(* is what keeps a change to one page of the spine away from the others.   *)

\* c can be a child of page p.
CanHang(ps, lv, p, c) == c \in DOMAIN ps /\ c # P_ROOT /\ lv[c] < lv[p]

Leveled(ps, lv) ==
  /\ lv \in [DOMAIN ps -> Nat]
  /\ \A p \in DOMAIN ps : ~ ps[p].leaf =>
       \A i \in DOMAIN ps[p].ents : CanHang(ps, lv, p, ps[p].ents[i].child)

\* pth leads from the root to page c, one level down at each hop.
LeadsTo(ps, lv, pth, c) ==
  /\ c \in DOMAIN ps
  /\ pth = <<>> => c = P_ROOT
  /\ pth # <<>> => pth[1].pgno = P_ROOT
  /\ \A i \in DOMAIN pth :
       /\ pth[i].pgno \in DOMAIN ps
       /\ ~ ps[pth[i].pgno].leaf
       /\ pth[i].slot \in DOMAIN ps[pth[i].pgno].ents
       /\ ps[pth[i].pgno].ents[pth[i].slot].child
            = IF i = Len(pth) THEN c ELSE pth[i + 1].pgno
       /\ lv[c] < lv[pth[i].pgno]
       /\ \A j \in DOMAIN pth : i < j => lv[pth[j].pgno] < lv[pth[i].pgno]

CallInv(lv) ==
  /\ pc \in {"idle", "panicked"} => cur = P_ROOT /\ path = <<>>
  /\ pc \in {"descend", "up"} => LeadsTo(pages, lv, path, cur)
  /\ pc = "descend" /\ job.op = "put" => ~ TooLarge(job.key, job.val)
  /\ pc = "up" =>
       /\ path # <<>>
       /\ sep # NoSep
       /\ sep.child \in DOMAIN pages /\ sep.child # P_ROOT
       /\ lv[sep.child] <= lv[cur]

IInv == TypeOK /\ \E lv : Leveled(pages, lv) /\ CallInv(lv)

Hop == [pgno : Nat, slot : Nat \ {0}]

-----------------------------------------------------------------------------
(* The levels survive every change to the arena.                           *)

\* Both halves of a page hold only its entries and the new one.
LEMMA HalvesFrom ==
  ASSUME NEW S, NEW ents \in Seq(S), NEW e \in S, NEW leaf,
         NEW pos \in 1 .. Len(ents) + 1, NEW h \in Halves(leaf, ents, pos, e)
  PROVE  From(h.left, ents, e) /\ From(h.right, ents, e)
<1> DEFINE all == InsertAt(ents, pos, e)
<1>1. all \in Seq(S) /\ Len(all) = Len(ents) + 1 /\ Len(ents) \in Nat
  BY InsertAtFacts
<1>2. From(all, ents, e)
  BY InsertFrom
<1>3. PICK n \in 0 .. Len(ents) :
        h = [left |-> SubSeq(all, 1, n), right |-> SubSeq(all, n + 1, Len(all))]
  BY DEF Halves
<1> HIDE DEF all
<1>4. /\ n \in 0 .. Len(all) /\ Len(all) \in 0 .. Len(all)
      /\ 1 \in Nat \ {0} /\ n + 1 \in Nat \ {0}
  BY <1>1
<1>5. From(SubSeq(all, 1, n), ents, e) /\ From(SubSeq(all, n + 1, Len(all)), ents, e)
  BY <1>1, <1>2, <1>4, SubSeqFrom
<1> QED
  BY <1>3, <1>5

\* A page whose entries are the old ones and one that can hang from it.
LEMMA LeveledSetEnts ==
  ASSUME NEW ps \in Seq(AnyPage), NEW lv, Leveled(ps, lv),
         NEW new \in Seq(AnyPage), Len(new) = Len(ps), NEW p \in DOMAIN ps, NEW e,
         \A q \in DOMAIN ps : new[q].leaf = ps[q].leaf,
         \A q \in DOMAIN ps \ {p} : new[q].ents = ps[q].ents,
         ~ ps[p].leaf => From(new[p].ents, ps[p].ents, e),
         ~ ps[p].leaf => CanHang(ps, lv, p, e.child)
  PROVE  Leveled(new, lv)
<1>1. DOMAIN new = DOMAIN ps
  BY SeqFacts
<1>2. ASSUME NEW q \in DOMAIN new, ~ new[q].leaf, NEW i \in DOMAIN new[q].ents
      PROVE  CanHang(new, lv, q, new[q].ents[i].child)
  <2>1. CASE q = p
    <3>2. ~ ps[p].leaf
      BY <1>1, <1>2, <2>1
    <3>1. new[p].ents[i] = e \/ \E j \in DOMAIN ps[p].ents : new[p].ents[i] = ps[p].ents[j]
      BY <1>2, <2>1, <3>2 DEF From
    <3>3. CanHang(ps, lv, p, new[p].ents[i].child)
      BY <3>1, <3>2 DEF Leveled
    <3> QED
      BY <1>1, <2>1, <3>3 DEF CanHang
  <2>2. CASE q # p
    BY <1>1, <1>2, <2>2 DEF Leveled, CanHang
  <2> QED
    BY <2>1, <2>2
<1> QED
  BY <1>1, <1>2 DEF Leveled

\* The root's entries move one level down, and the root one level up.
LEMMA LeveledGrow ==
  ASSUME NEW ps \in Seq(AnyPage), P_ROOT \in DOMAIN ps, NEW lv, Leveled(ps, lv),
         NEW l, l = Len(ps) + 1, NEW r, r = Len(ps) + 2,
         NEW new \in Seq(AnyPage), Len(new) = r, NEW e,
         \A q \in DOMAIN ps : new[q].leaf = (q # P_ROOT /\ ps[q].leaf),
         \A q \in DOMAIN ps \ {P_ROOT} : new[q].ents = ps[q].ents,
         NEW k, new[P_ROOT].ents = <<[key |-> 0, child |-> l], [key |-> k, child |-> r]>>,
         new[l].leaf = ps[P_ROOT].leaf, new[r].leaf = ps[P_ROOT].leaf,
         From(new[l].ents, ps[P_ROOT].ents, e), From(new[r].ents, ps[P_ROOT].ents, e),
         ~ ps[P_ROOT].leaf => CanHang(ps, lv, P_ROOT, e.child)
  PROVE  \E lv2 : Leveled(new, lv2)
<1> DEFINE lv2 == [q \in 1 .. r |-> IF q \in {l, r} THEN lv[P_ROOT]
                                   ELSE IF q = P_ROOT THEN lv[P_ROOT] + 1
                                   ELSE lv[q]]
<1>1. /\ DOMAIN ps = 1 .. Len(ps) /\ DOMAIN new = 1 .. r /\ Len(ps) \in Nat
      /\ r \in Nat /\ l \in Nat /\ l \notin DOMAIN ps /\ r \notin DOMAIN ps
      /\ DOMAIN new = DOMAIN ps \cup {l, r} /\ l # P_ROOT /\ r # P_ROOT /\ l # r
  <2>1. DOMAIN ps = 1 .. Len(ps) /\ DOMAIN new = 1 .. r /\ Len(ps) \in Nat
    BY SeqFacts
  <2>2. /\ r \in Nat /\ l \in Nat /\ l \notin DOMAIN ps /\ r \notin DOMAIN ps
        /\ l # r
    BY <2>1
  <2>3. DOMAIN new = DOMAIN ps \cup {l, r}
    BY <2>1
  <2> QED
    BY <2>1, <2>2, <2>3
<1>2. /\ lv \in [DOMAIN ps -> Nat]
      /\ lv2 \in [DOMAIN new -> Nat]
      /\ lv2[l] = lv[P_ROOT] /\ lv2[r] = lv[P_ROOT] /\ lv2[P_ROOT] = lv[P_ROOT] + 1
      /\ \A q \in DOMAIN ps \ {P_ROOT} : lv2[q] = lv[q]
  <2>1. lv \in [DOMAIN ps -> Nat] /\ lv[P_ROOT] \in Nat
    BY DEF Leveled
  <2>2. lv2 = [q \in DOMAIN new |-> IF q \in {l, r} THEN lv[P_ROOT]
                                    ELSE IF q = P_ROOT THEN lv[P_ROOT] + 1
                                    ELSE lv[q]]
    BY <1>1
  <2> HIDE DEF lv2
  <2>3. /\ lv2[l] = lv[P_ROOT] /\ lv2[r] = lv[P_ROOT] /\ lv2[P_ROOT] = lv[P_ROOT] + 1
        /\ \A q \in DOMAIN ps \ {P_ROOT} : lv2[q] = lv[q]
    BY <1>1, <2>2
  <2>4. ASSUME NEW q \in DOMAIN new
        PROVE  lv2[q] \in Nat
    <3>1. q \in {l, r} \/ q = P_ROOT \/ q \in DOMAIN ps \ {P_ROOT}
      BY <1>1
    <3>2. lv[P_ROOT] + 1 \in Nat /\ \A p \in DOMAIN ps : lv[p] \in Nat
      BY <2>1
    <3> QED
      BY <2>1, <2>3, <3>1, <3>2
  <2> QED
    BY <2>1, <2>2, <2>3, <2>4
<1> HIDE DEF lv2
<1>3. \A q \in DOMAIN ps \ {P_ROOT} : \A c :
        CanHang(ps, lv, q, c) => CanHang(new, lv2, q, c)
  BY <1>1, <1>2 DEF CanHang
<1>4. \A q \in {l, r} : \A c : CanHang(ps, lv, P_ROOT, c) => CanHang(new, lv2, q, c)
  BY <1>1, <1>2 DEF CanHang
<1>5. CanHang(new, lv2, P_ROOT, l) /\ CanHang(new, lv2, P_ROOT, r)
  BY <1>1, <1>2 DEF CanHang
<1>6. ASSUME NEW q \in DOMAIN new, ~ new[q].leaf, NEW i \in DOMAIN new[q].ents
      PROVE  CanHang(new, lv2, q, new[q].ents[i].child)
  <2>1. CASE q \in {l, r}
    <3>1. \/ new[q].ents[i] = e
          \/ \E j \in DOMAIN ps[P_ROOT].ents : new[q].ents[i] = ps[P_ROOT].ents[j]
      BY <1>6, <2>1 DEF From
    <3>2. ~ ps[P_ROOT].leaf
      BY <1>6, <2>1
    <3>3. CanHang(ps, lv, P_ROOT, new[q].ents[i].child)
      BY <3>1, <3>2 DEF Leveled
    <3> QED
      BY <1>4, <2>1, <3>3
  <2>2. CASE q = P_ROOT
    <3>1. /\ i \in {1, 2}
          /\ new[P_ROOT].ents[1].child = l /\ new[P_ROOT].ents[2].child = r
      BY <1>6, <2>2
    <3> QED
      BY <1>5, <2>2, <3>1
  <2>3. CASE q \notin {l, r, P_ROOT}
    <3>1. q \in DOMAIN ps \ {P_ROOT} /\ ~ ps[q].leaf /\ new[q].ents = ps[q].ents
      BY <1>1, <1>6, <2>3
    <3>2. CanHang(ps, lv, q, new[q].ents[i].child)
      BY <1>6, <3>1 DEF Leveled
    <3> QED
      BY <1>3, <3>1, <3>2
  <2> QED
    BY <2>1, <2>2, <2>3
<1> QED
  BY <1>2, <1>6 DEF Leveled

-----------------------------------------------------------------------------
(* The spine.                                                              *)

\* One more hop down.
LEMMA LeadsToChild ==
  ASSUME NEW ps \in Seq(AnyPage), NEW lv, Leveled(ps, lv),
         NEW pth \in Seq(Hop), NEW c, LeadsTo(ps, lv, pth, c),
         ~ ps[c].leaf, NEW i \in DOMAIN ps[c].ents
  PROVE  LET more == Append(pth, [pgno |-> c, slot |-> i])
         IN  more \in Seq(Hop) /\ LeadsTo(ps, lv, more, ps[c].ents[i].child)
<1> DEFINE hop == [pgno |-> c, slot |-> i]
           more == Append(pth, hop)
           n == Len(pth)
           d == ps[c].ents[i].child
<1>1. /\ c \in DOMAIN ps /\ c \in Nat /\ n \in Nat /\ DOMAIN pth = 1 .. n
      /\ i \in Nat \ {0}
  <2>1. c \in DOMAIN ps /\ c \in Nat /\ n \in Nat /\ DOMAIN pth = 1 .. n
    BY SeqFacts DEF LeadsTo
  <2>2. ps[c] \in AnyPage
    BY <2>1, SeqFacts
  <2>3. ps[c].ents \in Seq(EntryOf(ps[c].leaf))
    BY <2>2, PageFacts
  <2> QED
    BY <2>1, <2>3, SeqFacts
<1>2. hop \in Hop /\ hop.pgno = c /\ hop.slot = i
  BY <1>1 DEF Hop
<1>3. CanHang(ps, lv, c, d)
  BY <1>1 DEF Leveled
<1> HIDE DEF hop, n, d
<1>4. /\ more \in Seq(Hop) /\ Len(more) = n + 1 /\ DOMAIN more = 1 .. n + 1
      /\ \A j \in 1 .. n : more[j] = pth[j]
      /\ more[n + 1] = hop
  <2>1. /\ more \in Seq(Hop) /\ Len(more) = n + 1
        /\ \A j \in 1 .. n : more[j] = pth[j]
        /\ more[n + 1] = hop
    BY <1>2, AppendFacts DEF n
  <2> QED
    BY <2>1, SeqFacts
<1> HIDE DEF more
<1>5. d \in DOMAIN ps /\ d # P_ROOT /\ lv[d] < lv[c] /\ lv[d] \in Nat /\ lv[c] \in Nat
  BY <1>1, <1>3 DEF CanHang, Leveled
<1>6. more # <<>> /\ more[1].pgno = P_ROOT
  <2>0. more # <<>>
    BY <1>1, <1>4
  <2>1. CASE n = 0
    <3>1. pth = <<>>
      BY <2>1 DEF n
    <3>2. c = P_ROOT
      BY <3>1 DEF LeadsTo
    <3>3. more[1] = hop
      BY <1>4, <2>1
    <3> QED
      BY <1>2, <2>0, <3>2, <3>3
  <2>2. CASE n # 0
    <3>1. pth # <<>> /\ 1 \in 1 .. n
      BY <1>1, <2>2 DEF n
    <3>2. pth[1].pgno = P_ROOT
      BY <3>1 DEF LeadsTo
    <3> QED
      BY <1>4, <2>0, <3>1, <3>2
  <2> QED
    BY <2>1, <2>2
<1>7. ASSUME NEW j \in 1 .. n
      PROVE  /\ more[j].pgno \in DOMAIN ps
             /\ ~ ps[more[j].pgno].leaf
             /\ more[j].slot \in DOMAIN ps[more[j].pgno].ents
             /\ ps[more[j].pgno].ents[more[j].slot].child
                  = IF j = n + 1 THEN d ELSE more[j + 1].pgno
             /\ lv[d] < lv[more[j].pgno]
             /\ \A m \in 1 .. n + 1 : j < m => lv[more[m].pgno] < lv[more[j].pgno]
  <2>1. /\ pth[j].pgno \in DOMAIN ps
        /\ ~ ps[pth[j].pgno].leaf
        /\ pth[j].slot \in DOMAIN ps[pth[j].pgno].ents
        /\ ps[pth[j].pgno].ents[pth[j].slot].child
             = IF j = n THEN c ELSE pth[j + 1].pgno
        /\ lv[c] < lv[pth[j].pgno]
        /\ \A m \in 1 .. n : j < m => lv[pth[m].pgno] < lv[pth[j].pgno]
    BY <1>1 DEF LeadsTo, n
  <2>2. lv[pth[j].pgno] \in Nat
    BY <2>1 DEF Leveled
  <2>3. more[j + 1].pgno = IF j = n THEN c ELSE pth[j + 1].pgno
    BY <1>1, <1>2, <1>4
  <2>4. lv[d] < lv[pth[j].pgno]
    BY <1>5, <2>1, <2>2
  <2>5. ASSUME NEW m \in 1 .. n + 1, j < m
        PROVE  lv[more[m].pgno] < lv[more[j].pgno]
    <3>1. CASE m = n + 1
      BY <1>2, <1>4, <2>1, <3>1
    <3>2. CASE m # n + 1
      <4>1. m \in 1 .. n
        BY <1>1, <3>2
      <4> QED
        BY <1>4, <2>1, <2>5, <4>1
    <3> QED
      BY <3>1, <3>2
  <2>6. j # n + 1
    BY <1>1
  <2> QED
    BY <1>4, <2>1, <2>3, <2>4, <2>5, <2>6
<1>8. /\ more[n + 1].pgno \in DOMAIN ps
      /\ ~ ps[more[n + 1].pgno].leaf
      /\ more[n + 1].slot \in DOMAIN ps[more[n + 1].pgno].ents
      /\ ps[more[n + 1].pgno].ents[more[n + 1].slot].child = d
      /\ lv[d] < lv[more[n + 1].pgno]
  BY <1>1, <1>2, <1>4, <1>5 DEF d
<1>9. /\ \A j \in 1 .. n + 1 : j \in 1 .. n \/ j = n + 1
      /\ \A m \in 1 .. n + 1 : ~ (n + 1 < m)
  BY <1>1
<1> QED
  BY <1>4, <1>5, <1>6, <1>7, <1>8, <1>9 DEF LeadsTo, d, more, hop

\* A change to pages other than those passed on the way.
LEMMA LeadsToKept ==
  ASSUME NEW ps, NEW lv, Leveled(ps, lv), NEW pth, NEW c, LeadsTo(ps, lv, pth, c),
         NEW new, NEW lv2, DOMAIN ps \subseteq DOMAIN new,
         \A q \in DOMAIN ps : new[q].leaf = ps[q].leaf,
         \A q \in DOMAIN ps \ {c} : new[q].ents = ps[q].ents,
         \A q \in DOMAIN ps : lv2[q] = lv[q]
  PROVE  LeadsTo(new, lv2, pth, c)
<1>1. c \in DOMAIN ps /\ lv \in [DOMAIN ps -> Nat]
  BY DEF LeadsTo, Leveled
<1>2. ASSUME NEW i \in DOMAIN pth
      PROVE  /\ pth[i].pgno \in DOMAIN ps \ {c}
             /\ ~ ps[pth[i].pgno].leaf
             /\ pth[i].slot \in DOMAIN ps[pth[i].pgno].ents
             /\ ps[pth[i].pgno].ents[pth[i].slot].child
                  = IF i = Len(pth) THEN c ELSE pth[i + 1].pgno
             /\ lv[c] < lv[pth[i].pgno]
             /\ \A j \in DOMAIN pth : i < j => lv[pth[j].pgno] < lv[pth[i].pgno]
  <2>1. pth[i].pgno \in DOMAIN ps /\ lv[c] < lv[pth[i].pgno]
    BY DEF LeadsTo
  <2>2. lv[c] \in Nat
    BY <1>1
  <2>3. pth[i].pgno # c
    BY <2>1, <2>2
  <2> QED
    BY <2>1, <2>3 DEF LeadsTo
<1>3. ASSUME NEW i \in DOMAIN pth
      PROVE  /\ pth[i].pgno \in DOMAIN new
             /\ new[pth[i].pgno].leaf = ps[pth[i].pgno].leaf
             /\ new[pth[i].pgno].ents = ps[pth[i].pgno].ents
             /\ lv2[pth[i].pgno] = lv[pth[i].pgno]
  BY <1>2
<1>4. ASSUME NEW i \in DOMAIN pth
      PROVE  /\ pth[i].pgno \in DOMAIN new
             /\ ~ new[pth[i].pgno].leaf
             /\ pth[i].slot \in DOMAIN new[pth[i].pgno].ents
             /\ new[pth[i].pgno].ents[pth[i].slot].child
                  = IF i = Len(pth) THEN c ELSE pth[i + 1].pgno
             /\ lv2[c] < lv2[pth[i].pgno]
             /\ \A j \in DOMAIN pth : i < j => lv2[pth[j].pgno] < lv2[pth[i].pgno]
  BY <1>1, <1>2, <1>3
<1> QED
  BY <1>1, <1>4 DEF LeadsTo

\* One hop back up.
LEMMA LeadsToParent ==
  ASSUME NEW ps \in Seq(AnyPage), NEW lv, Leveled(ps, lv),
         NEW pth \in Seq(Hop), pth # <<>>, NEW c, LeadsTo(ps, lv, pth, c)
  PROVE  /\ Last(pth).pgno \in DOMAIN ps
         /\ ~ ps[Last(pth).pgno].leaf
         /\ Last(pth).slot \in DOMAIN ps[Last(pth).pgno].ents
         /\ ps[Last(pth).pgno].ents[Last(pth).slot].child = c
         /\ lv[c] < lv[Last(pth).pgno]
         /\ Front(pth) \in Seq(Hop)
         /\ Last(pth).pgno # P_ROOT =>
              Front(pth) # <<>> /\ LeadsTo(ps, lv, Front(pth), Last(pth).pgno)
<1> DEFINE n == Len(pth)
           up == Front(pth)
<1>1. /\ n \in Nat \ {0} /\ Last(pth) = pth[n] /\ up \in Seq(Hop) /\ Len(up) = n - 1
      /\ \A i \in 1 .. n - 1 : up[i] = pth[i]
  BY FrontLastFacts
<1>2. DOMAIN pth = 1 .. n /\ DOMAIN up = 1 .. n - 1 /\ n \in 1 .. n
  BY <1>1, SeqFacts
<1> HIDE DEF up
<1>3. ASSUME NEW i \in 1 .. n
      PROVE  /\ pth[i].pgno \in DOMAIN ps
             /\ ~ ps[pth[i].pgno].leaf
             /\ pth[i].slot \in DOMAIN ps[pth[i].pgno].ents
             /\ ps[pth[i].pgno].ents[pth[i].slot].child
                  = IF i = n THEN c ELSE pth[i + 1].pgno
             /\ lv[c] < lv[pth[i].pgno]
             /\ \A j \in 1 .. n : i < j => lv[pth[j].pgno] < lv[pth[i].pgno]
  BY <1>2 DEF LeadsTo
<1> HIDE DEF n
<1>4. ASSUME pth[n].pgno # P_ROOT
      PROVE  up # <<>> /\ LeadsTo(ps, lv, up, pth[n].pgno)
  <2>1. pth[1].pgno = P_ROOT
    BY DEF LeadsTo
  <2>2. n # 1
    BY <1>4, <2>1
  <2>3. n - 1 \in Nat \ {0} /\ 1 \in 1 .. n - 1
    BY <1>1, <2>2
  <2>4. up # <<>> /\ up[1].pgno = P_ROOT
    <3>1. up[1] = pth[1]
      BY <1>1, <2>3
    <3>2. up # <<>>
      BY <1>1, <2>3
    <3> QED
      BY <2>1, <3>1, <3>2
  <2>5. ASSUME NEW i \in 1 .. n - 1
        PROVE  /\ up[i].pgno \in DOMAIN ps
               /\ ~ ps[up[i].pgno].leaf
               /\ up[i].slot \in DOMAIN ps[up[i].pgno].ents
               /\ ps[up[i].pgno].ents[up[i].slot].child
                    = IF i = n - 1 THEN pth[n].pgno ELSE up[i + 1].pgno
               /\ lv[pth[n].pgno] < lv[up[i].pgno]
               /\ \A j \in 1 .. n - 1 : i < j => lv[up[j].pgno] < lv[up[i].pgno]
    <3>1. /\ i \in 1 .. n /\ i # n /\ i < n
          /\ i = n - 1 => i + 1 = n
          /\ i # n - 1 => i + 1 \in 1 .. n - 1
          /\ \A j \in 1 .. n - 1 : j \in 1 .. n
      BY <1>1
    <3>2. up[i] = pth[i] /\ \A j \in 1 .. n - 1 : up[j] = pth[j]
      BY <1>1
    <3> QED
      BY <1>2, <1>3, <3>1, <3>2
  <2> QED
    BY <1>1, <1>2, <1>3, <2>4, <2>5 DEF LeadsTo
<1> QED
  BY <1>1, <1>2, <1>3, <1>4 DEF up

-----------------------------------------------------------------------------
(* A full leaf is not empty: put's bounds leave room in an empty one.      *)

\* An empty leaf costs nothing.
LEMMA EmptyCost == Cost(TRUE, <<>>) = 0
<1> DEFINE C == [i \in 0 .. Len(<<>>) |-> 0]
           F(c) == [i \in 0 .. Len(<<>>) |->
                     IF i = 0 THEN 0
                     ELSE c[i - 1] + EntryBytes(TRUE, <<>>[i]) + LINP_SIZE]
<1>1. 0 .. Len(<<>>) = {0}
  OBVIOUS
<1>2. C = F(C)
  BY <1>1
<1>3. \A c : c = F(c) => c[0] = 0
  BY <1>1
<1>4. PrefixCost(TRUE, <<>>) = CHOOSE c : c = F(c)
  BY DEF PrefixCost
<1> HIDE DEF F, C
<1>5. PrefixCost(TRUE, <<>>) = F(PrefixCost(TRUE, <<>>))
  BY <1>2, <1>4
<1> QED
  BY <1>1, <1>3, <1>5 DEF Cost

\* What put's bounds let through fits an empty leaf.
LEMMA EmptyLeafHasRoom ==
  ASSUME NEW k \in Strings, NEW v \in Values, ~ TooLarge(k, v)
  PROVE  HasRoom(TRUE, <<>>, [key |-> k, val |-> v])
<1>1. LeafBytes(k, v) \in Int /\ Usable \in Int
  <2>1. KeyLen[k] \in Nat /\ ValLen[v] \in Nat
    BY StringsAssumption
  <2>2. \A n \in Nat : ((n + 3) \div 4) * 4 \in Int
    OBVIOUS
  <2>3. ENTRY_HEADER_SIZE + KeyLen[k] + ValLen[v] \in Nat
    BY <2>1 DEF ENTRY_HEADER_SIZE
  <2>4. Usable \in Int
    BY PsizeAssumption DEF Usable, PAGE_HEADER_SIZE
  <2> QED
    BY <2>2, <2>3, <2>4 DEF LeafBytes, align_entry
<1>2. LeafBytes(k, v) + LINP_SIZE <= Usable
  BY <1>1 DEF TooLarge, LINP_SIZE
<1>3. FreeSpace(TRUE, <<>>) = Usable
  <2>1. FreeSpace(TRUE, <<>>) = Usable - Cost(TRUE, <<>>)
    BY Zenon DEF FreeSpace
  <2>2. FreeSpace(TRUE, <<>>) = Usable - 0
    BY <2>1, EmptyCost, Zenon
  <2>3. \A u \in Int : u - 0 = u
    OBVIOUS
  <2> QED
    BY <1>1, <2>2, <2>3, Zenon
<1> QED
  BY <1>1, <1>2, <1>3 DEF HasRoom, EntryBytes, LINP_SIZE

-----------------------------------------------------------------------------
(* The steps.                                                              *)

\* What TypeOK says of the arena and of the spine.
LEMMA TypeFacts ==
  ASSUME TypeOK
  PROVE  /\ pages \in Seq(AnyPage)
         /\ P_ROOT \in DOMAIN pages
         /\ path \in Seq(Hop)
  BY DEF TypeOK, AnyPage, Hop

\* The fields of a page of the arena.
LEMMA EntsFacts ==
  ASSUME NEW ps \in Seq(AnyPage), NEW p \in DOMAIN ps
  PROVE  /\ ps[p].leaf \in BOOLEAN
         /\ ps[p].next \in Nat
         /\ ps[p].prev \in Nat
         /\ ps[p].ents \in Seq(EntryOf(ps[p].leaf))
         /\ p \in Nat
  BY PageFacts, SeqFacts

Answers == {"none", "true", "false", "EntryTooLarge", "CorruptPage", "panic"}

\* A call that ends.
LEMMA ReturnKeeps ==
  ASSUME NEW r \in Answers, Return(r), pages' \in Seq(AnyPage),
         P_ROOT \in DOMAIN pages', NEW lv, Leveled(pages', lv)
  PROVE  IInv'
<1>1. TypeOK'
  BY DEF Return, TypeOK, AnyPage, Answers, P_ROOT
<1>2. CallInv(lv)'
  BY DEF Return, CallInv
<1> QED
  BY <1>1, <1>2 DEF IInv

\* A call that goes on, or starts to, after a split.
LEMMA GoesUp ==
  ASSUME pages' \in Seq(AnyPage), P_ROOT \in DOMAIN pages', NEW lv,
         Leveled(pages', lv), LeadsTo(pages', lv, path', cur'),
         path' \in Seq(Hop), path' # <<>>, cur' \in Nat,
         pc' = "up", ret' \in Answers, job' \in {NoJob} \cup PutJob \cup DelJob,
         sep' \in LeafSep \cup InternalSep,
         sep'.child \in DOMAIN pages', sep'.child # P_ROOT, lv[sep'.child] <= lv[cur']
  PROVE  IInv'
<1>1. TypeOK'
  BY DEF TypeOK, AnyPage, Answers, Hop
<1>2. sep' # NoSep
  BY DEF NoSep, LeafSep, InternalSep
<1>3. CallInv(lv)'
  BY <1>2 DEF CallInv
<1> QED
  BY <1>1, <1>3 DEF IInv

\* The calls that leave the arena as it is.
LEMMA StartKeeps ==
  ASSUME TypeOK, NEW lv, Leveled(pages, lv), CallInv(lv),
         NEW call \in PutJob \cup DelJob, Start(call),
         call.op = "put" => ~ TooLarge(call.key, call.val)
  PROVE  IInv'
<1>1. LeadsTo(pages, lv, path, cur)
  <2>1. cur = P_ROOT /\ path = <<>>
    BY DEF Start, CallInv
  <2> QED
    BY <2>1, TypeFacts DEF LeadsTo
<1>2. TypeOK'
  BY DEF Start, TypeOK
<1>3. CallInv(lv)'
  BY <1>1 DEF Start, CallInv, LeadsTo
<1>4. Leveled(pages', lv)
  BY DEF Start
<1> QED
  BY <1>2, <1>3, <1>4 DEF IInv

\* A call that ends and leaves the arena alone keeps the invariant.
LEMMA AnswerKeeps ==
  ASSUME TypeOK, NEW lv, Leveled(pages, lv), NEW r \in Answers, Return(r),
         UNCHANGED pages
  PROVE  IInv'
<1>1. /\ pages' \in Seq(AnyPage) /\ P_ROOT \in DOMAIN pages'
      /\ Leveled(pages', lv)
  BY TypeFacts
<1> QED
  BY <1>1, ReturnKeeps

\* What a failing split reports is one of the answers.
LEMMA UnfitAnswers ==
  ASSUME NEW leaf, NEW h
  PROVE  Unfit(leaf, h) \subseteq Answers
  BY DEF Unfit, Answers

\* A turn of descend keeps the invariant: the spine gets one hop longer and the
\* level one lower.
LEMMA DescendKeeps ==
  ASSUME TypeOK, NEW lv, Leveled(pages, lv), CallInv(lv), Descend
  PROVE  IInv'
<1>1. PICK i \in DOMAIN Ents : /\ path' = Append(path, [pgno |-> cur, slot |-> i])
                             /\ cur' = Ents[i].child
  BY DEF Descend
<1>2. /\ pages' = pages /\ pc = "descend" /\ pc' = "descend" /\ job' = job
      /\ sep' = sep /\ ret' = ret /\ ~ pages[cur].leaf
  BY DEF Descend
<1>3. LeadsTo(pages, lv, path, cur)
  BY <1>2 DEF CallInv
<1>4. path' \in Seq(Hop) /\ LeadsTo(pages, lv, path', cur')
  <2>1. i \in DOMAIN pages[cur].ents
    BY DEF Ents
  <2>2. /\ Append(path, [pgno |-> cur, slot |-> i]) \in Seq(Hop)
        /\ LeadsTo(pages, lv, Append(path, [pgno |-> cur, slot |-> i]),
                   pages[cur].ents[i].child)
    BY <1>2, <1>3, <2>1, TypeFacts, LeadsToChild
  <2> QED
    BY <1>1, <2>2 DEF Ents
<1>5. cur' \in Nat
  BY <1>4, TypeFacts, SeqFacts DEF LeadsTo
<1>6. TypeOK'
  BY <1>2, <1>4, <1>5 DEF TypeOK, Hop
<1>7. CallInv(lv)'
  BY <1>2, <1>4 DEF CallInv
<1>8. Leveled(pages', lv)
  BY <1>2
<1> QED
  BY <1>6, <1>7, <1>8 DEF IInv

\* The leaf a call has reached.
LEMMA LeafFacts ==
  ASSUME TypeOK, NEW lv, CallInv(lv), NEW op, AtLeaf(op)
  PROVE  /\ cur \in DOMAIN pages
         /\ cur \in Nat
         /\ pages[cur].leaf = TRUE
         /\ Ents \in Seq(LeafEntry)
         /\ LeadsTo(pages, lv, path, cur)
<1>1. pc = "descend" /\ pages[cur].leaf
  BY DEF AtLeaf
<1>2. LeadsTo(pages, lv, path, cur)
  BY <1>1 DEF CallInv
<1>3. cur \in DOMAIN pages
  BY <1>2 DEF LeadsTo
<1>4. /\ pages[cur].leaf \in BOOLEAN /\ pages[cur].ents \in Seq(EntryOf(pages[cur].leaf))
      /\ cur \in Nat
  BY <1>3, TypeFacts, EntsFacts
<1>5. pages[cur].leaf = TRUE
  BY <1>1, <1>4
<1>6. EntryOf(pages[cur].leaf) = LeafEntry
  BY <1>1 DEF EntryOf
<1> QED
  BY <1>2, <1>3, <1>4, <1>5, <1>6 DEF Ents

\* The entry a put makes is a leaf entry.
LEMMA NewLeafEntryFacts ==
  ASSUME TypeOK, AtLeaf("put")
  PROVE  job.key \in Strings /\ job.val \in Values /\ NewLeafEntry \in LeafEntry
<1>1. job \in PutJob
  <2>1. job.op = "put"
    BY DEF AtLeaf
  <2> QED
    BY <2>1 DEF TypeOK, NoJob, PutJob, DelJob
<1>2. job.key \in Keys /\ job.val \in Values
  BY <1>1 DEF PutJob
<1> QED
  BY <1>2, StringsAssumption DEF NewLeafEntry, LeafEntry

\* A change to the entries of the leaf that ends the call.
LEMMA LeafChangeKeeps ==
  ASSUME TypeOK, NEW lv, Leveled(pages, lv), CallInv(lv), NEW op, AtLeaf(op),
         NEW ents \in Seq(LeafEntry), pages' = [pages EXCEPT ![cur].ents = ents],
         NEW r \in Answers, Return(r)
  PROVE  IInv'
<1>1. /\ cur \in DOMAIN pages /\ pages[cur].leaf = TRUE
      /\ EntryOf(pages[cur].leaf) = LeafEntry
  BY LeafFacts DEF EntryOf
<1>2. pages \in Seq(AnyPage) /\ P_ROOT \in DOMAIN pages
  BY TypeFacts
<1>3. /\ pages' \in Seq(AnyPage)
      /\ Len(pages') = Len(pages)
      /\ \A q \in 1 .. Len(pages) :
           /\ pages'[q].leaf = pages[q].leaf
           /\ pages'[q].ents = IF q = cur THEN ents ELSE pages[q].ents
  <2> DEFINE new == [pages EXCEPT ![cur].ents = ents]
  <2>1. ents \in Seq(EntryOf(pages[cur].leaf))
    BY <1>1
  <2>2. /\ new \in Seq(AnyPage)
        /\ Len(new) = Len(pages)
        /\ \A q \in 1 .. Len(pages) :
             /\ new[q].leaf = pages[q].leaf
             /\ new[q].ents = IF q = cur THEN ents ELSE pages[q].ents
    <3>1. cur \in DOMAIN pages /\ pages \in Seq(AnyPage)
      BY <1>1, <1>2
    <3>2. new \in Seq(AnyPage)
      BY <2>1, <3>1, SetEntsFacts
    <3>5. Len(new) = Len(pages)
      BY <2>1, <3>1, SetEntsFacts
    <3>3. \A q \in 1 .. Len(pages) : new[q].leaf = pages[q].leaf
      BY <2>1, <3>1, SetEntsFacts
    <3>4. \A q \in 1 .. Len(pages) :
            new[q].ents = IF q = cur THEN ents ELSE pages[q].ents
      BY <2>1, <3>1, SetEntsFacts
    <3> QED
      BY <3>2, <3>3, <3>4, <3>5
  <2> HIDE DEF new
  <2>3. pages' = new
    BY DEF new
  <2> QED
    BY <2>2, <2>3
<1>4. DOMAIN pages = 1 .. Len(pages) /\ DOMAIN pages' = 1 .. Len(pages)
  BY <1>2, <1>3, SeqFacts
<1>5. Leveled(pages', lv)
  BY <1>1, <1>2, <1>3, <1>4, LeveledSetEnts
<1> QED
  BY <1>2, <1>3, <1>4, <1>5, ReturnKeeps

\* A deletion keeps the invariant.
LEMMA DelHitKeeps ==
  ASSUME TypeOK, NEW lv, Leveled(pages, lv), CallInv(lv), DelHit
  PROVE  IInv'
<1>1. AtLeaf("del") /\ Return("true") /\ "true" \in Answers
  BY DEF DelHit, Answers
<1>2. PICK i \in DOMAIN Ents : pages' = [pages EXCEPT ![cur].ents = RemoveAt(@, i)]
  BY DEF DelHit
<1>3. Ents \in Seq(LeafEntry) /\ cur \in DOMAIN pages
  BY <1>1, LeafFacts
<1>4. RemoveAt(Ents, i) \in Seq(LeafEntry)
  <2>1. i \in 1 .. Len(Ents)
    BY <1>3, SeqFacts
  <2> QED
    BY <1>3, <2>1, RemoveAtFacts
<1>5. pages' = [pages EXCEPT ![cur].ents = RemoveAt(Ents, i)]
  BY <1>2, <1>3 DEF Ents
<1> QED
  BY <1>1, <1>4, <1>5, LeafChangeKeeps

\* An insertion into a leaf with room keeps the invariant.
LEMMA InsertLeafEntryKeeps ==
  ASSUME TypeOK, NEW lv, Leveled(pages, lv), CallInv(lv), InsertLeafEntry
  PROVE  IInv'
<1>1. AtLeaf("put") /\ Return("true") /\ "true" \in Answers
  BY DEF InsertLeafEntry, Answers
<1>2. PICK pos \in 1 .. Len(Ents) + 1 :
        pages' = [pages EXCEPT ![cur].ents = InsertAt(@, pos, NewLeafEntry)]
  BY DEF InsertLeafEntry
<1>3. Ents \in Seq(LeafEntry) /\ cur \in DOMAIN pages /\ NewLeafEntry \in LeafEntry
  BY <1>1, LeafFacts, NewLeafEntryFacts
<1>4. InsertAt(Ents, pos, NewLeafEntry) \in Seq(LeafEntry)
  BY <1>3, InsertAtFacts
<1>5. pages' = [pages EXCEPT ![cur].ents = InsertAt(Ents, pos, NewLeafEntry)]
  BY <1>2, <1>3 DEF Ents
<1> QED
  BY <1>1, <1>4, <1>5, LeafChangeKeeps

\* The root's entries and e, which can be one of them, divided over two new
\* pages.
LEMMA GrowRootKeeps ==
  ASSUME TypeOK, NEW lv, Leveled(pages, lv),
         NEW e \in EntryOf(pages[P_ROOT].leaf),
         ~ pages[P_ROOT].leaf => CanHang(pages, lv, P_ROOT, e.child),
         NEW leaf, NEW pos \in 1 .. Len(pages[P_ROOT].ents) + 1,
         NEW h \in Halves(leaf, pages[P_ROOT].ents, pos, e),
         pages' = GrowRoot(h), Return("true")
  PROVE  IInv'
<1> DEFINE S == EntryOf(pages[P_ROOT].leaf)
           ents == pages[P_ROOT].ents
           l == Len(pages) + 1
           r == Len(pages) + 2
<1>1. pages \in Seq(AnyPage) /\ P_ROOT \in DOMAIN pages /\ ents \in Seq(S)
  BY TypeFacts, EntsFacts
<1>2. h.left \in Seq(S) /\ h.right \in Seq(S) /\ h.right[1] \in S
  BY <1>1, HalvesFacts
<1>3. From(h.left, ents, e) /\ From(h.right, ents, e)
  BY <1>1, HalvesFrom
<1>4. h.right[1].key \in Strings
  <2> HIDE DEF S
  <2>1. \A x \in S : x.key \in Strings
    BY KeyOfEntry DEF S
  <2> QED
    BY <1>2, <2>1
<1> DEFINE new == GrowRoot(h)
<1>5. /\ new \in Seq(AnyPage)
      /\ Len(new) = r
      /\ \A q \in 1 .. Len(pages) :
           /\ new[q].leaf = (q # P_ROOT /\ pages[q].leaf)
           /\ q # P_ROOT => new[q].ents = pages[q].ents
      /\ new[P_ROOT].ents = << [key |-> 0, child |-> l],
                               [key |-> h.right[1].key, child |-> r] >>
      /\ new[l].leaf = pages[P_ROOT].leaf
      /\ new[l].ents = h.left
      /\ new[r].leaf = pages[P_ROOT].leaf
      /\ new[r].ents = h.right
  BY <1>1, <1>2, <1>4, GrowRootFacts
<1>6. new = pages'
  OBVIOUS
<1> HIDE DEF new
<1>7. /\ DOMAIN pages = 1 .. Len(pages) /\ P_ROOT \in DOMAIN new
      /\ \A q \in DOMAIN pages : new[q].leaf = (q # P_ROOT /\ pages[q].leaf)
      /\ \A q \in DOMAIN pages \ {P_ROOT} : new[q].ents = pages[q].ents
  <2>1. DOMAIN pages = 1 .. Len(pages) /\ Len(pages) \in Nat /\ DOMAIN new = 1 .. r
    BY <1>1, <1>5, SeqFacts
  <2> QED
    BY <1>1, <1>5, <2>1
<1>8. From(new[l].ents, ents, e) /\ From(new[r].ents, ents, e)
  BY <1>3, <1>5
<1>9. PICK lv2 : Leveled(new, lv2)
  <2> DEFINE k == h.right[1].key
  <2>1. new[P_ROOT].ents = <<[key |-> 0, child |-> l], [key |-> k, child |-> r]>>
    BY <1>5
  <2> HIDE DEF k
  <2>2. l = Len(pages) + 1 /\ r = Len(pages) + 2
    OBVIOUS
  <2>3. new \in Seq(AnyPage) /\ Len(new) = r
    BY <1>5
  <2>4. new[l].leaf = pages[P_ROOT].leaf /\ new[r].leaf = pages[P_ROOT].leaf
    BY <1>5
  <2> HIDE DEF l, r
  <2> QED
    BY <1>1, <1>7, <1>8, <2>1, <2>2, <2>3, <2>4, LeveledGrow
<1>10. "true" \in Answers
  BY DEF Answers
<1> QED
  BY <1>5, <1>6, <1>7, <1>9, <1>10, ReturnKeeps

\* What is known of a full leaf that a put has reached; it is not empty.
LEMMA LeafFullFacts ==
  ASSUME TypeOK, NEW lv, CallInv(lv), NEW pos, LeafFull(pos)
  PROVE  /\ cur \in DOMAIN pages
         /\ cur \in Nat
         /\ pages[cur].leaf = TRUE
         /\ EntryOf(pages[cur].leaf) = LeafEntry
         /\ Ents = pages[cur].ents
         /\ Ents \in Seq(LeafEntry)
         /\ NewLeafEntry \in LeafEntry
         /\ pos \in 1 .. Len(Ents) + 1
         /\ LeadsTo(pages, lv, path, cur)
         /\ job.key \in Strings
         /\ Ents # <<>>
         /\ pc = "descend"
<1>1. AtLeaf("put") /\ ~ HasRoom(TRUE, Ents, NewLeafEntry)
      /\ pos \in 1 .. Len(Ents) + 1
  BY DEF LeafFull, IsLeafPos
<1>2. /\ cur \in DOMAIN pages
      /\ cur \in Nat
      /\ pages[cur].leaf = TRUE
      /\ Ents \in Seq(LeafEntry)
      /\ LeadsTo(pages, lv, path, cur)
  BY <1>1, LeafFacts
<1>3. job.key \in Strings /\ job.val \in Values /\ NewLeafEntry \in LeafEntry
  BY <1>1, NewLeafEntryFacts
<1>4. ~ TooLarge(job.key, job.val)
  BY <1>1 DEF AtLeaf, CallInv
<1>5. HasRoom(TRUE, <<>>, [key |-> job.key, val |-> job.val])
  BY <1>3, <1>4, EmptyLeafHasRoom
<1>6. Ents # <<>>
  BY <1>1, <1>5 DEF NewLeafEntry
<1> QED
  BY <1>1, <1>2, <1>3, <1>6 DEF EntryOf, Ents, AtLeaf

\* A split of the root while it is a leaf keeps the invariant.
LEMMA SplitRootLeafKeeps ==
  ASSUME TypeOK, NEW lv, Leveled(pages, lv), CallInv(lv), NEW pos, SplitRootLeaf(pos)
  PROVE  IInv'
<1>1. LeafFull(pos) /\ cur = P_ROOT /\ Return("true")
  BY DEF SplitRootLeaf
<1>2. PICK h \in LeafHalves(pos) : pages' = GrowRoot(h)
  BY DEF SplitRootLeaf
<1>3. /\ pages[P_ROOT].leaf /\ NewLeafEntry \in EntryOf(pages[P_ROOT].leaf)
      /\ pos \in 1 .. Len(pages[P_ROOT].ents) + 1
  BY <1>1, LeafFullFacts
<1>4. h \in Halves(TRUE, pages[P_ROOT].ents, pos, NewLeafEntry)
  BY <1>1 DEF LeafHalves, Ents
<1> QED
  BY <1>1, <1>2, <1>3, <1>4, GrowRootKeeps

\* new is the arena after page p was split: p and the new page share its
\* entries, all else is as it was.
SplitOff(new, lv2, lv, p) ==
  /\ new \in Seq(AnyPage)
  /\ P_ROOT \in DOMAIN new
  /\ DOMAIN pages \subseteq DOMAIN new
  /\ NextFreePgno \in DOMAIN new /\ NextFreePgno # P_ROOT
  /\ \A q \in DOMAIN pages : new[q].leaf = pages[q].leaf
  /\ \A q \in DOMAIN pages \ {p} : new[q].ents = pages[q].ents
  /\ Leveled(new, lv2)
  /\ \A q \in DOMAIN pages : lv2[q] = lv[q]
  /\ lv2[NextFreePgno] = lv[p]

\* A page added behind p, with entries of p and e, keeps the arena leveled.
LEMMA SplitOffFacts ==
  ASSUME pages \in Seq(AnyPage), P_ROOT \in DOMAIN pages, NEW lv, Leveled(pages, lv),
         NEW p \in DOMAIN pages, NEW e,
         ~ pages[p].leaf => CanHang(pages, lv, p, e.child),
         NEW new \in Seq(AnyPage), Len(new) = Len(pages) + 1,
         \A q \in 1 .. Len(pages) : new[q].leaf = pages[q].leaf,
         \A q \in 1 .. Len(pages) : q # p => new[q].ents = pages[q].ents,
         new[Len(pages) + 1].leaf = pages[p].leaf,
         From(new[p].ents, pages[p].ents, e),
         From(new[Len(pages) + 1].ents, pages[p].ents, e)
  PROVE  \E lv2 : SplitOff(new, lv2, lv, p)
<1> DEFINE r == Len(pages) + 1
           lv2 == [q \in 1 .. r |-> IF q = r THEN lv[p] ELSE lv[q]]
<1>1. /\ DOMAIN pages = 1 .. Len(pages) /\ Len(pages) \in Nat
      /\ DOMAIN new = 1 .. r /\ r \in Nat /\ r \notin DOMAIN pages
      /\ DOMAIN pages \subseteq DOMAIN new /\ r \in DOMAIN new
  BY SeqFacts
<1>2. \A q \in DOMAIN pages : lv2[q] = lv[q]
  BY <1>1
<1>3. lv2[r] = lv[p]
  BY <1>1
<1>4. /\ \A q \in DOMAIN pages : new[q].leaf = pages[q].leaf
      /\ \A q \in DOMAIN pages \ {p} : new[q].ents = pages[q].ents
  BY <1>1
<1>5. lv2 \in [DOMAIN new -> Nat]
  <2>1. lv \in [DOMAIN pages -> Nat]
    BY DEF Leveled
  <2>2. \A q \in DOMAIN new : lv2[q] \in Nat
    BY <1>1, <2>1
  <2> QED
    BY <1>1, <2>2
<1> HIDE DEF lv2
<1> HIDE DEF r
<1>6. DOMAIN new = DOMAIN pages \cup {r} /\ lv \in [DOMAIN pages -> Nat]
  <2>1. DOMAIN new = DOMAIN pages \cup {r}
    BY <1>1 DEF r
  <2> QED
    BY <2>1 DEF Leveled
<1>7. /\ \A q \in DOMAIN pages : \A c :
            CanHang(pages, lv, q, c) => CanHang(new, lv2, q, c)
      /\ \A c : CanHang(pages, lv, p, c) => CanHang(new, lv2, r, c)
  BY <1>1, <1>2, <1>3, <1>6 DEF CanHang
<1>8. /\ From(new[p].ents, pages[p].ents, e) /\ From(new[r].ents, pages[p].ents, e)
      /\ new[r].leaf = pages[p].leaf
  BY DEF r
<1>9. ASSUME NEW q \in DOMAIN new, ~ new[q].leaf, NEW i \in DOMAIN new[q].ents
      PROVE  CanHang(new, lv2, q, new[q].ents[i].child)
  <2>1. CASE q \in {p, r}
    <3>1. \/ new[q].ents[i] = e
          \/ \E j \in DOMAIN pages[p].ents : new[q].ents[i] = pages[p].ents[j]
      BY <1>9, <1>8, <2>1 DEF From
    <3>2. ~ pages[p].leaf
      BY <1>4, <1>9, <1>8, <2>1
    <3>3. CanHang(pages, lv, p, new[q].ents[i].child)
      BY <3>1, <3>2 DEF Leveled
    <3> QED
      BY <1>7, <2>1, <3>3
  <2>2. CASE q \notin {p, r}
    <3>1. q \in DOMAIN pages /\ ~ pages[q].leaf /\ new[q].ents = pages[q].ents
      BY <1>4, <1>9, <1>6, <2>2
    <3>2. CanHang(pages, lv, q, new[q].ents[i].child)
      BY <1>9, <3>1 DEF Leveled
    <3> QED
      BY <1>7, <3>1, <3>2
  <2> QED
    BY <2>1, <2>2
<1>10. Leveled(new, lv2)
  BY <1>9, <1>5 DEF Leveled
<1>11. r = NextFreePgno
  BY DEF NextFreePgno, r
<1>12. r # P_ROOT /\ P_ROOT \in DOMAIN new
  BY <1>1
<1> QED
  BY <1>1, <1>2, <1>3, <1>4, <1>11, <1>12, <1>10 DEF SplitOff

\* SplitPage adds such a page.
LEMMA SplitPageOff ==
  ASSUME pages \in Seq(AnyPage), P_ROOT \in DOMAIN pages, NEW lv, Leveled(pages, lv),
         NEW p \in DOMAIN pages, NEW e \in EntryOf(pages[p].leaf),
         ~ pages[p].leaf => CanHang(pages, lv, p, e.child),
         NEW leaf, NEW pos \in 1 .. Len(pages[p].ents) + 1,
         NEW h \in Halves(leaf, pages[p].ents, pos, e)
  PROVE  \E lv2 : SplitOff(SplitPage(p, h), lv2, lv, p)
<1> DEFINE S == EntryOf(pages[p].leaf)
           ents == pages[p].ents
           new == SplitPage(p, h)
           r == Len(pages) + 1
<1>1. ents \in Seq(S) /\ p \in 1 .. Len(pages) /\ Len(pages) \in Nat
  BY EntsFacts, SeqFacts
<1>2. h.left \in Seq(S) /\ h.right \in Seq(S)
  BY <1>1, HalvesFacts
<1>3. From(h.left, ents, e) /\ From(h.right, ents, e)
  BY <1>1, HalvesFrom
<1>4. /\ new \in Seq(AnyPage)
      /\ Len(new) = r
      /\ \A q \in 1 .. Len(pages) :
           /\ new[q].leaf = pages[q].leaf
           /\ new[q].ents = IF q = p THEN h.left ELSE pages[q].ents
      /\ new[r].leaf = pages[p].leaf
      /\ new[r].ents = h.right
  BY <1>2, SplitPageFacts
<1> HIDE DEF new
<1>5. /\ \A q \in 1 .. Len(pages) : new[q].leaf = pages[q].leaf
      /\ \A q \in 1 .. Len(pages) : q # p => new[q].ents = pages[q].ents
      /\ From(new[p].ents, ents, e) /\ From(new[r].ents, ents, e)
  BY <1>1, <1>3, <1>4
<1>6. \E lv2 : SplitOff(new, lv2, lv, p)
  BY <1>4, <1>5, SplitOffFacts
<1> QED
  BY <1>6 DEF new

\* AppendPage adds such a page.
LEMMA AppendPageOff ==
  ASSUME pages \in Seq(AnyPage), P_ROOT \in DOMAIN pages, NEW lv, Leveled(pages, lv),
         NEW p \in DOMAIN pages, NEW e \in EntryOf(pages[p].leaf),
         ~ pages[p].leaf => CanHang(pages, lv, p, e.child)
  PROVE  \E lv2 : SplitOff(AppendPage(p, e), lv2, lv, p)
<1> DEFINE ents == pages[p].ents
           new == AppendPage(p, e)
           r == Len(pages) + 1
<1>1. p \in 1 .. Len(pages) /\ Len(pages) \in Nat
  BY SeqFacts
<1>2. /\ new \in Seq(AnyPage)
      /\ Len(new) = r
      /\ \A q \in 1 .. Len(pages) :
           /\ new[q].leaf = pages[q].leaf
           /\ new[q].ents = pages[q].ents
      /\ new[r].leaf = pages[p].leaf
      /\ new[r].ents = <<e>>
  BY AppendPageFacts
<1> HIDE DEF new
<1>3. /\ \A q \in 1 .. Len(pages) : new[q].leaf = pages[q].leaf
      /\ \A q \in 1 .. Len(pages) : q # p => new[q].ents = pages[q].ents
  BY <1>2
<1>4. From(new[p].ents, ents, e)
  <2>1. new[p].ents = ents
    BY <1>1, <1>2
  <2> HIDE DEF ents
  <2> QED
    BY <2>1 DEF From
<1>5. From(new[r].ents, ents, e)
  <2>1. \A i \in DOMAIN <<e>> : <<e>>[i] = e
    OBVIOUS
  <2> HIDE DEF ents, r
  <2> QED
    BY <1>2, <2>1 DEF From
<1>6. \E lv2 : SplitOff(new, lv2, lv, p)
  BY <1>2, <1>3, <1>4, <1>5, SplitOffFacts
<1> QED
  BY <1>6 DEF new

\* A call that goes up after a page was split off keeps the invariant.
LEMMA SplitOffGoesUp ==
  ASSUME TypeOK, NEW lv, Leveled(pages, lv), LeadsTo(pages, lv, path', cur'),
         path' \in Seq(Hop), path' # <<>>,
         \E lv2 : SplitOff(pages', lv2, lv, cur'),
         pc' = "up", job' = job, ret' = ret,
         sep' \in LeafSep \cup InternalSep, sep'.child = NextFreePgno
  PROVE  IInv'
<1>1. PICK lv2 : SplitOff(pages', lv2, lv, cur')
  OBVIOUS
<1>2. cur' \in DOMAIN pages /\ cur' \in Nat
  BY TypeFacts, SeqFacts DEF LeadsTo
<1>3. LeadsTo(pages', lv2, path', cur')
  BY <1>1, LeadsToKept DEF SplitOff
<1>4. lv2[sep'.child] <= lv2[cur']
  <2>1. lv2[sep'.child] = lv2[cur']
    BY <1>1, <1>2 DEF SplitOff
  <2>2. lv2[cur'] \in Nat
    BY <1>1, <1>2 DEF SplitOff, Leveled
  <2> QED
    BY <2>1, <2>2
<1>5. /\ ret' \in Answers /\ job' \in {NoJob} \cup PutJob \cup DelJob
  BY DEF TypeOK, Answers
<1>6. /\ pages' \in Seq(AnyPage) /\ P_ROOT \in DOMAIN pages' /\ Leveled(pages', lv2)
      /\ sep'.child \in DOMAIN pages' /\ sep'.child # P_ROOT
  BY <1>1 DEF SplitOff
<1> QED
  BY <1>2, <1>3, <1>4, <1>5, <1>6, GoesUp

\* The sorted-append shortcut for a leaf keeps the invariant.
LEMMA SplitLeafSortedOptKeeps ==
  ASSUME TypeOK, NEW lv, Leveled(pages, lv), CallInv(lv), NEW pos,
         SplitLeafSortedOpt(pos)
  PROVE  IInv'
<1>1. /\ LeafFull(pos) /\ cur # P_ROOT /\ pages' = AppendPage(cur, NewLeafEntry)
      /\ sep' = [src |-> "leaf", key |-> job.key, child |-> NextFreePgno,
                 last |-> Last(Ents).key]
      /\ pc' = "up" /\ job' = job /\ cur' = cur /\ path' = path /\ ret' = ret
  BY DEF SplitLeafSortedOpt
<1>2. /\ cur \in DOMAIN pages /\ pages[cur].leaf = TRUE
      /\ EntryOf(pages[cur].leaf) = LeafEntry
      /\ Ents \in Seq(LeafEntry) /\ Ents # <<>>
      /\ NewLeafEntry \in LeafEntry /\ job.key \in Strings
      /\ LeadsTo(pages, lv, path, cur)
  BY <1>1, LeafFullFacts
<1>3. /\ pages \in Seq(AnyPage) /\ P_ROOT \in DOMAIN pages /\ path \in Seq(Hop)
  BY TypeFacts
<1>4. \E lv2 : SplitOff(pages', lv2, lv, cur')
  <2>1. NewLeafEntry \in EntryOf(pages[cur].leaf)
    BY <1>2
  <2>2. \E lv2 : SplitOff(AppendPage(cur, NewLeafEntry), lv2, lv, cur)
    BY <1>2, <1>3, <2>1, AppendPageOff
  <2> QED
    BY <1>1, <2>2
<1>5. sep' \in LeafSep /\ sep'.child = NextFreePgno
  <2>1. Last(Ents).key \in Strings
    <3>1. Last(Ents) \in LeafEntry
      BY <1>2, FrontLastFacts
    <3> QED
      BY <3>1 DEF LeafEntry
  <2>2. NextFreePgno \in Nat
    BY <1>3, SeqFacts DEF NextFreePgno
  <2> QED
    BY <1>1, <1>2, <2>1, <2>2 DEF LeafSep
<1>6. path' # <<>>
  BY <1>1, <1>2 DEF LeadsTo
<1> QED
  BY <1>1, <1>2, <1>3, <1>4, <1>5, <1>6, SplitOffGoesUp

\* The full split of a leaf below the root keeps the invariant.
LEMMA SplitLeafFullKeeps ==
  ASSUME TypeOK, NEW lv, Leveled(pages, lv), CallInv(lv), NEW pos, SplitLeafFull(pos)
  PROVE  IInv'
<1>1. /\ LeafFull(pos) /\ cur # P_ROOT
      /\ pc' = "up" /\ job' = job /\ cur' = cur /\ path' = path /\ ret' = ret
  BY DEF SplitLeafFull
<1>2. PICK h \in LeafHalves(pos) :
        /\ h.left # <<>>
        /\ pages' = SplitPage(cur, h)
        /\ sep' = [src |-> "leaf", key |-> h.right[1].key,
                   child |-> NextFreePgno, last |-> Last(h.left).key]
  BY DEF SplitLeafFull
<1>3. /\ cur \in DOMAIN pages /\ pages[cur].leaf = TRUE
      /\ EntryOf(pages[cur].leaf) = LeafEntry
      /\ Ents = pages[cur].ents /\ Ents \in Seq(LeafEntry)
      /\ NewLeafEntry \in LeafEntry /\ pos \in 1 .. Len(Ents) + 1
      /\ LeadsTo(pages, lv, path, cur)
  BY <1>1, LeafFullFacts
<1>4. /\ pages \in Seq(AnyPage) /\ P_ROOT \in DOMAIN pages /\ path \in Seq(Hop)
  BY TypeFacts
<1>5. h \in Halves(TRUE, pages[cur].ents, pos, NewLeafEntry)
  BY <1>3 DEF LeafHalves
<1>6. \E lv2 : SplitOff(pages', lv2, lv, cur')
  <2>1. /\ NewLeafEntry \in EntryOf(pages[cur].leaf)
        /\ pos \in 1 .. Len(pages[cur].ents) + 1
    BY <1>3
  <2>2. \E lv2 : SplitOff(SplitPage(cur, h), lv2, lv, cur)
    BY <1>3, <1>4, <1>5, <2>1, SplitPageOff
  <2> QED
    BY <1>1, <1>2, <2>2
<1>7. sep' \in LeafSep /\ sep'.child = NextFreePgno
  <2>1. h \in Halves(TRUE, Ents, pos, NewLeafEntry)
    BY <1>3, <1>5
  <2>2. h.left \in Seq(LeafEntry) /\ h.right[1] \in LeafEntry
    BY <1>3, <2>1, HalvesFacts
  <2>3. Last(h.left) \in LeafEntry
    BY <1>2, <2>2, FrontLastFacts
  <2>4. NextFreePgno \in Nat
    BY <1>4, SeqFacts DEF NextFreePgno
  <2> QED
    BY <1>2, <2>2, <2>3, <2>4 DEF LeafSep, LeafEntry
<1>8. path' # <<>>
  BY <1>1, <1>3 DEF LeadsTo
<1> QED
  BY <1>1, <1>3, <1>4, <1>6, <1>7, <1>8, SplitOffGoesUp

\* The page a separator is to be placed in.
LEMMA ParentFacts ==
  ASSUME TypeOK, NEW lv, Leveled(pages, lv), CallInv(lv), GoingUp
  PROVE  /\ Parent \in DOMAIN pages
         /\ pages[Parent].leaf = FALSE
         /\ ParentEnts = pages[Parent].ents
         /\ ParentEnts \in Seq(SepEntry)
         /\ EntryOf(pages[Parent].leaf) = SepEntry
         /\ SepSlot \in 1 .. Len(ParentEnts) + 1
         /\ NewSepEntry \in SepEntry
         /\ CanHang(pages, lv, Parent, NewSepEntry.child)
         /\ Front(path) \in Seq(Hop)
         /\ Parent # P_ROOT =>
              Front(path) # <<>> /\ LeadsTo(pages, lv, Front(path), Parent)
<1>1. /\ LeadsTo(pages, lv, path, cur) /\ path # <<>> /\ sep # NoSep
      /\ sep.child \in DOMAIN pages /\ sep.child # P_ROOT /\ lv[sep.child] <= lv[cur]
  BY DEF GoingUp, CallInv
<1>2. pages \in Seq(AnyPage) /\ path \in Seq(Hop)
  BY TypeFacts
<1>3. /\ Parent \in DOMAIN pages /\ ~ pages[Parent].leaf
      /\ Last(path).slot \in DOMAIN ParentEnts
      /\ lv[cur] < lv[Parent]
      /\ Front(path) \in Seq(Hop)
      /\ Parent # P_ROOT =>
           Front(path) # <<>> /\ LeadsTo(pages, lv, Front(path), Parent)
  BY <1>1, <1>2, LeadsToParent DEF Parent, ParentEnts
<1>4. /\ pages[Parent].leaf \in BOOLEAN
      /\ pages[Parent].ents \in Seq(EntryOf(pages[Parent].leaf))
  BY <1>2, <1>3, EntsFacts
<1>5. /\ pages[Parent].leaf = FALSE /\ EntryOf(pages[Parent].leaf) = SepEntry
      /\ ParentEnts \in Seq(SepEntry)
  BY <1>3, <1>4 DEF EntryOf, ParentEnts
<1>6. SepSlot \in 1 .. Len(ParentEnts) + 1
  <2>1. DOMAIN ParentEnts = 1 .. Len(ParentEnts) /\ Len(ParentEnts) \in Nat
    BY <1>5, SeqFacts
  <2> QED
    BY <1>3, <2>1 DEF SepSlot
<1>7. CanHang(pages, lv, Parent, sep.child)
  <2>1. lv[cur] \in Nat /\ lv[Parent] \in Nat /\ lv[sep.child] \in Nat
    BY <1>1, <1>3 DEF Leveled, LeadsTo
  <2> QED
    BY <1>1, <1>3, <2>1 DEF CanHang
<1>8. NewSepEntry \in SepEntry /\ NewSepEntry.child = sep.child
  <2>1. sep \in LeafSep \cup InternalSep
    BY <1>1 DEF TypeOK
  <2>2. EncodedKey(sep, pages[Parent].prev, SepSlot) \in Strings
    <3>1. CASE sep \in LeafSep
      <4>1. sep.key \in Strings /\ sep.last \in Strings
        BY <3>1 DEF LeafSep
      <4>2. Pfx[sep.last][sep.key] \in Strings
        BY <4>1, PfxAssumption
      <4> QED
        BY <4>1, <4>2 DEF EncodedKey
    <3>2. CASE sep \in InternalSep
      BY <3>2 DEF InternalSep, EncodedKey
    <3> QED
      BY <2>1, <3>1, <3>2
  <2>3. sep.child \in Nat
    BY <2>1 DEF LeafSep, InternalSep
  <2> QED
    BY <2>2, <2>3 DEF NewSepEntry, SepEntry
<1> QED
  BY <1>3, <1>5, <1>6, <1>7, <1>8 DEF ParentEnts

\* A separator placed in a page with room keeps the invariant.
LEMMA InsertInternalKeeps ==
  ASSUME TypeOK, NEW lv, Leveled(pages, lv), CallInv(lv), InsertInternalInPlace
  PROVE  IInv'
<1> DEFINE e == NewSepEntry
           ents == InsertAt(ParentEnts, SepSlot, e)
           p == Parent
<1>1. GoingUp /\ Return("true") /\ "true" \in Answers
  BY DEF InsertInternalInPlace, Answers
<1>2. /\ p \in DOMAIN pages /\ ParentEnts = pages[p].ents /\ ParentEnts \in Seq(SepEntry)
      /\ EntryOf(pages[p].leaf) = SepEntry
      /\ SepSlot \in 1 .. Len(ParentEnts) + 1
      /\ e \in SepEntry /\ CanHang(pages, lv, p, e.child)
  BY <1>1, ParentFacts
<1>3. pages' = [pages EXCEPT ![p].ents = ents]
  BY <1>2 DEF InsertInternalInPlace
<1> HIDE DEF e, p
<1>4. ents \in Seq(SepEntry) /\ From(ents, ParentEnts, e)
  BY <1>2, InsertAtFacts, InsertFrom
<1>5. pages \in Seq(AnyPage) /\ P_ROOT \in DOMAIN pages
  BY TypeFacts
<1>6. /\ pages' \in Seq(AnyPage)
      /\ Len(pages') = Len(pages)
      /\ \A q \in 1 .. Len(pages) :
           /\ pages'[q].leaf = pages[q].leaf
           /\ pages'[q].ents = IF q = p THEN ents ELSE pages[q].ents
  <2> HIDE DEF ents
  <2> DEFINE new == [pages EXCEPT ![p].ents = ents]
  <2>1. ents \in Seq(EntryOf(pages[p].leaf)) /\ p \in DOMAIN pages
    BY <1>2, <1>4
  <2>2. new \in Seq(AnyPage)
    BY <1>5, <2>1, SetEntsFacts
  <2>3. Len(new) = Len(pages)
    BY <1>5, <2>1, SetEntsFacts
  <2>4. \A q \in 1 .. Len(pages) : new[q].leaf = pages[q].leaf
    BY <1>5, <2>1, SetEntsFacts
  <2>5. \A q \in 1 .. Len(pages) : new[q].ents = IF q = p THEN ents ELSE pages[q].ents
    BY <1>5, <2>1, SetEntsFacts
  <2> HIDE DEF new
  <2>6. pages' = new
    BY <1>3 DEF new
  <2> QED
    BY <2>2, <2>3, <2>4, <2>5, <2>6
<1> HIDE DEF ents
<1>7. DOMAIN pages = 1 .. Len(pages) /\ DOMAIN pages' = 1 .. Len(pages)
  BY <1>5, <1>6, SeqFacts
<1>8. /\ \A q \in DOMAIN pages : pages'[q].leaf = pages[q].leaf
      /\ \A q \in DOMAIN pages \ {p} : pages'[q].ents = pages[q].ents
      /\ From(pages'[p].ents, pages[p].ents, e)
  BY <1>2, <1>4, <1>6, <1>7
<1>9. Leveled(pages', lv)
  BY <1>2, <1>5, <1>6, <1>8, LeveledSetEnts
<1> QED
  BY <1>1, <1>5, <1>6, <1>7, <1>9, ReturnKeeps

\* A split of an internal root keeps the invariant.
LEMMA SplitRootInternalKeeps ==
  ASSUME TypeOK, NEW lv, Leveled(pages, lv), CallInv(lv), SplitRootInternal
  PROVE  IInv'
<1>1. GoingUp /\ Parent = P_ROOT /\ Return("true")
  BY DEF SplitRootInternal, ParentFull
<1>2. PICK h \in ParentHalves : pages' = GrowRoot(h)
  BY DEF SplitRootInternal
<1>3. /\ ParentEnts = pages[P_ROOT].ents
      /\ NewSepEntry \in EntryOf(pages[P_ROOT].leaf)
      /\ SepSlot \in 1 .. Len(pages[P_ROOT].ents) + 1
      /\ CanHang(pages, lv, P_ROOT, NewSepEntry.child)
  BY <1>1, ParentFacts
<1>4. h \in Halves(FALSE, pages[P_ROOT].ents, SepSlot, NewSepEntry)
  BY <1>3 DEF ParentHalves
<1> QED
  BY <1>1, <1>2, <1>3, <1>4, GrowRootKeeps

\* The loop goes on with the separator of the page just split.
LEMMA AscendKeeps ==
  ASSUME TypeOK, NEW lv, Leveled(pages, lv), CallInv(lv), GoingUp, Parent # P_ROOT,
         NEW key \in Strings, Ascend(key),
         \E lv2 : SplitOff(pages', lv2, lv, Parent)
  PROVE  IInv'
<1>1. /\ sep' = [src |-> "internal", key |-> key, child |-> NextFreePgno]
      /\ cur' = Parent /\ path' = Front(path)
      /\ pc' = pc /\ job' = job /\ ret' = ret
  BY DEF Ascend
<1>2. /\ Front(path) \in Seq(Hop) /\ Front(path) # <<>>
      /\ LeadsTo(pages, lv, Front(path), Parent)
  BY ParentFacts
<1>3. pc' = "up"
  BY <1>1 DEF GoingUp
<1>4. sep' \in InternalSep /\ sep'.child = NextFreePgno
  <2>1. NextFreePgno \in Nat
    BY TypeFacts, SeqFacts DEF NextFreePgno
  <2> QED
    BY <1>1, <2>1 DEF InternalSep
<1> QED
  BY <1>1, <1>2, <1>3, <1>4, SplitOffGoesUp

\* The sorted-append shortcut for an internal page keeps the invariant.
LEMMA SplitInternalSortedOptKeeps ==
  ASSUME TypeOK, NEW lv, Leveled(pages, lv), CallInv(lv), SplitInternalSortedOpt
  PROVE  IInv'
<1>1. /\ GoingUp /\ Parent # P_ROOT
      /\ pages' = AppendPage(Parent, NewSepEntry) /\ Ascend(NewSepEntry.key)
  BY DEF SplitInternalSortedOpt, ParentFull
<1>2. /\ Parent \in DOMAIN pages /\ NewSepEntry \in SepEntry
      /\ NewSepEntry \in EntryOf(pages[Parent].leaf)
      /\ CanHang(pages, lv, Parent, NewSepEntry.child)
  BY <1>1, ParentFacts
<1>3. \E lv2 : SplitOff(AppendPage(Parent, NewSepEntry), lv2, lv, Parent)
  BY <1>2, TypeFacts, AppendPageOff
<1>4. NewSepEntry.key \in Strings
  BY <1>2 DEF SepEntry
<1> QED
  BY <1>1, <1>3, <1>4, AscendKeeps

\* The full split of an internal page below the root keeps the invariant.
LEMMA SplitInternalPageKeeps ==
  ASSUME TypeOK, NEW lv, Leveled(pages, lv), CallInv(lv), SplitInternalPage
  PROVE  IInv'
<1>1. GoingUp /\ Parent # P_ROOT
  BY DEF SplitInternalPage, ParentFull
<1>2. PICK h \in ParentHalves :
        pages' = SplitPage(Parent, h) /\ Ascend(h.right[1].key)
  BY DEF SplitInternalPage
<1>3. /\ Parent \in DOMAIN pages /\ ParentEnts = pages[Parent].ents
      /\ ParentEnts \in Seq(SepEntry)
      /\ NewSepEntry \in SepEntry
      /\ NewSepEntry \in EntryOf(pages[Parent].leaf)
      /\ SepSlot \in 1 .. Len(ParentEnts) + 1
      /\ CanHang(pages, lv, Parent, NewSepEntry.child)
  BY <1>1, ParentFacts
<1>4. /\ h \in Halves(FALSE, ParentEnts, SepSlot, NewSepEntry)
      /\ h \in Halves(FALSE, pages[Parent].ents, SepSlot, NewSepEntry)
      /\ SepSlot \in 1 .. Len(pages[Parent].ents) + 1
  BY <1>3 DEF ParentHalves
<1>5. \E lv2 : SplitOff(SplitPage(Parent, h), lv2, lv, Parent)
  BY <1>3, <1>4, TypeFacts, SplitPageOff
<1>6. h.right[1].key \in Strings
  <2>1. h.right[1] \in SepEntry
    BY <1>3, <1>4, HalvesFacts
  <2> QED
    BY <2>1 DEF SepEntry
<1> QED
  BY <1>1, <1>2, <1>5, <1>6, AscendKeeps

-----------------------------------------------------------------------------
(* The theorems.                                                           *)

\* The empty root leaf of create_new satisfies the invariant.
LEMMA InitEstablishes == Init => IInv
<1> SUFFICES ASSUME Init PROVE IInv
  OBVIOUS
<1>1. pages = <<Page(TRUE, P_INVALID, P_INVALID, <<>>)>>
  BY DEF Init
<1>2. /\ pages \in Seq(AnyPage) /\ DOMAIN pages = {1} /\ pages[1].leaf = TRUE
  BY <1>1 DEF Page, P_INVALID, AnyPage, LeafPage
<1>3. TypeOK
  <2>1. pages \in Seq(LeafPage \cup InternalPage) /\ P_ROOT \in DOMAIN pages
    BY <1>2 DEF AnyPage, P_ROOT
  <2>2. path \in Seq([pgno : Nat, slot : Nat \ {0}])
    BY DEF Init
  <2> QED
    BY <2>1, <2>2 DEF Init, TypeOK, P_ROOT
<1>4. Leveled(pages, [p \in {1} |-> 0])
  BY <1>2 DEF Leveled
<1>5. CallInv([p \in {1} |-> 0])
  BY DEF Init, CallInv
<1> QED
  BY <1>3, <1>4, <1>5 DEF IInv

\* Every step of the writer keeps the invariant.
LEMMA NextPreserves == IInv /\ [Next]_vars => IInv'
<1> SUFFICES ASSUME IInv, [Next]_vars PROVE IInv'
  OBVIOUS
<1>0. TypeOK
  BY DEF IInv
<1>1. PICK lv : Leveled(pages, lv) /\ CallInv(lv)
  BY DEF IInv
<1>2. CASE UNCHANGED vars
  <2>1. TypeOK' /\ Leveled(pages', lv) /\ CallInv(lv)'
    BY <1>0, <1>1, <1>2 DEF vars, TypeOK, CallInv
  <2> QED
    BY <2>1 DEF IInv
<1>3. ASSUME NEW k \in Keys, NEW v \in Values, RejectPut(k, v)
      PROVE  IInv'
  BY <1>0, <1>1, <1>3, AnswerKeeps DEF RejectPut, Answers
<1>4. ASSUME NEW k \in Keys, NEW v \in Values, CallPut(k, v)
      PROVE  IInv'
  <2> DEFINE call == [op |-> "put", key |-> k, val |-> v]
  <2>1. /\ call \in PutJob \cup DelJob /\ Start(call)
        /\ call.op = "put" => ~ TooLarge(call.key, call.val)
    BY <1>4 DEF CallPut, PutJob
  <2> HIDE DEF call
  <2> QED
    BY <1>0, <1>1, <2>1, StartKeeps
<1>5. ASSUME NEW k \in Keys, CallDel(k)
      PROVE  IInv'
  <2> DEFINE call == [op |-> "del", key |-> k]
  <2>1. /\ call \in PutJob \cup DelJob /\ Start(call)
        /\ call.op = "put" => ~ TooLarge(call.key, call.val)
    BY <1>5 DEF CallDel, DelJob
  <2> HIDE DEF call
  <2> QED
    BY <1>0, <1>1, <2>1, StartKeeps
<1>6. CASE Descend
  BY <1>0, <1>1, <1>6, DescendKeeps
<1>7. CASE DelHit
  BY <1>0, <1>1, <1>7, DelHitKeeps
<1>8. CASE DelMiss
  BY <1>0, <1>1, <1>8, AnswerKeeps DEF DelMiss, Answers
<1>9. CASE PutDuplicate
  BY <1>0, <1>1, <1>9, AnswerKeeps DEF PutDuplicate, Answers
<1>10. CASE InsertLeafEntry
  BY <1>0, <1>1, <1>10, InsertLeafEntryKeeps
<1>11. ASSUME NEW pos \in 1 .. Len(Ents) + 1, SplitRootLeaf(pos)
       PROVE  IInv'
  BY <1>0, <1>1, <1>11, SplitRootLeafKeeps
<1>12. ASSUME NEW pos \in 1 .. Len(Ents) + 1, SplitLeafSortedOpt(pos)
       PROVE  IInv'
  BY <1>0, <1>1, <1>12, SplitLeafSortedOptKeeps
<1>13. ASSUME NEW pos \in 1 .. Len(Ents) + 1, SplitLeafFull(pos)
       PROVE  IInv'
  BY <1>0, <1>1, <1>13, SplitLeafFullKeeps
<1>14. ASSUME NEW pos \in 1 .. Len(Ents) + 1, SplitLeafUnfit(pos)
       PROVE  IInv'
  <2>1. PICK h, r : r \in Unfit(TRUE, h) /\ Return(r)
    BY <1>14 DEF SplitLeafUnfit
  <2>2. r \in Answers
    BY <2>1, UnfitAnswers
  <2>3. UNCHANGED pages
    BY <1>14 DEF SplitLeafUnfit
  <2> QED
    BY <1>0, <1>1, <2>1, <2>2, <2>3, AnswerKeeps
<1>15. CASE InsertInternalInPlace
  BY <1>0, <1>1, <1>15, InsertInternalKeeps
<1>16. CASE SplitRootInternal
  BY <1>0, <1>1, <1>16, SplitRootInternalKeeps
<1>17. CASE SplitInternalSortedOpt
  BY <1>0, <1>1, <1>17, SplitInternalSortedOptKeeps
<1>18. CASE SplitInternalPage
  BY <1>0, <1>1, <1>18, SplitInternalPageKeeps
<1>19. CASE SplitInternalUnfit
  <2>1. PICK h, r : r \in Unfit(FALSE, h) /\ Return(r)
    BY <1>19 DEF SplitInternalUnfit
  <2>2. r \in Answers
    BY <2>1, UnfitAnswers
  <2>3. UNCHANGED pages
    BY <1>19 DEF SplitInternalUnfit
  <2> QED
    BY <1>0, <1>1, <2>1, <2>2, <2>3, AnswerKeeps
<1> QED
  BY <1>2, <1>3, <1>4, <1>5, <1>6, <1>7, <1>8, <1>9, <1>10, <1>11, <1>12, <1>13,
     <1>14, <1>15, <1>16, <1>17, <1>18, <1>19 DEF Next, Call, Step

\* The inductive invariant holds in every reachable state.
LEMMA InvariantHolds == Spec => []IInv
  BY InitEstablishes, NextPreserves, PTL DEF Spec

\* Every variable always has a value of its type: put and del, with any keys,
\* values and page size, only ever write well-formed pages.
THEOREM TypeCorrect == Spec => []TypeOK
<1>1. IInv => TypeOK
  BY DEF IInv
<1> QED
  BY <1>1, InvariantHolds, PTL

\* The path descend recorded always leads from the root to the page the call
\* is at, at any depth of tree: each step of propagate_separator finds the
\* page it came from in the slot the path names, and its unreachable! is.
THEOREM SpineCorrect == Spec => []SpineLeadsToCur
<1>1. IInv => SpineLeadsToCur
  <2> SUFFICES ASSUME IInv, pc \in {"descend", "up"} PROVE SpineLeadsToCur
    BY DEF SpineLeadsToCur
  <2>1. TypeOK
    BY DEF IInv
  <2>2. PICK lv : Leveled(pages, lv) /\ CallInv(lv)
    BY DEF IInv
  <2>3. LeadsTo(pages, lv, path, cur)
    BY <2>2 DEF CallInv
  <2> DEFINE n == Len(path)
             hop == [i \in DOMAIN path |-> path[i].pgno] \o <<cur>>
  <2>4. n \in Nat /\ DOMAIN path = 1 .. n /\ path \in Seq(Hop) /\ cur \in Nat
    BY <2>1, TypeFacts, SeqFacts DEF TypeOK
  <2>5. /\ \A i \in 1 .. n : hop[i] = path[i].pgno
        /\ hop[n + 1] = cur
    <3> DEFINE pgnos == [i \in 1 .. n |-> path[i].pgno]
    <3>1. pgnos \in Seq(Nat) /\ Len(pgnos) = n
      <4>1. \A i \in 1 .. n : path[i].pgno \in Nat
        <5>1. \A i \in DOMAIN path : path[i] \in Hop
          BY <2>4, SeqFacts
        <5> QED
          BY <2>4, <5>1 DEF Hop
      <4> HIDE DEF n
      <4> QED
        BY <2>4, <4>1
    <3>2. \A i \in 1 .. n : pgnos[i] = path[i].pgno
      OBVIOUS
    <3>3. hop = pgnos \o <<cur>>
      BY <2>4
    <3> HIDE DEF pgnos, hop
    <3>4. /\ \A i \in 1 .. n : (pgnos \o <<cur>>)[i] = pgnos[i]
          /\ (pgnos \o <<cur>>)[n + 1] = cur
      BY <2>4, <3>1
    <3> QED
      BY <3>2, <3>3, <3>4
  <2> HIDE DEF hop
  <2>6. hop[1] = P_ROOT
    <3>1. CASE path = <<>>
      BY <2>3, <2>5, <3>1 DEF LeadsTo
    <3>2. CASE path # <<>>
      <4>1. 1 \in 1 .. n
        BY <2>4, <3>2
      <4> QED
        BY <2>3, <2>5, <3>2, <4>1 DEF LeadsTo
    <3> QED
      BY <3>1, <3>2
  <2>7. pc = "up" => path # <<>>
    BY <2>2 DEF CallInv
  <2>8. ASSUME NEW i \in DOMAIN path
        PROVE  /\ path[i].slot \in DOMAIN pages[hop[i]].ents
               /\ ~ pages[hop[i]].leaf
               /\ pages[hop[i]].ents[path[i].slot].child = hop[i + 1]
    <3>1. hop[i] = path[i].pgno
      BY <2>4, <2>5
    <3>2. hop[i + 1] = IF i = Len(path) THEN cur ELSE path[i + 1].pgno
      BY <2>4, <2>5
    <3> QED
      BY <2>3, <3>1, <3>2 DEF LeadsTo
  <2> QED
    BY <2>6, <2>7, <2>8 DEF SpineLeadsToCur, hop
<1> QED
  BY <1>1, InvariantHolds, PTL

-----------------------------------------------------------------------------
(* The links of a level.                                                   *)

\* SiblingsAgree, for links that point to pages and never to their own page.
Linked(ps) ==
  \A p \in DOMAIN ps :
    /\ ps[p].next \in DOMAIN ps \cup {P_INVALID} /\ ps[p].next # p
    /\ ps[p].prev \in DOMAIN ps \cup {P_INVALID}
    /\ ps[p].next # P_INVALID => ps[ps[p].next].prev = p
    /\ ps[p].prev # P_INVALID => ps[ps[p].prev].next = p

\* Links depend on the prev and next fields only.
LEMMA LinkedKept ==
  ASSUME NEW ps, Linked(ps), NEW new, DOMAIN new = DOMAIN ps,
         \A q \in DOMAIN ps : new[q].prev = ps[q].prev /\ new[q].next = ps[q].next
  PROVE  Linked(new)
<1>1. ASSUME NEW p \in DOMAIN ps
      PROVE  /\ new[p].next \in DOMAIN ps \cup {P_INVALID} /\ new[p].next # p
             /\ new[p].prev \in DOMAIN ps \cup {P_INVALID}
             /\ new[p].next # P_INVALID => new[new[p].next].prev = p
             /\ new[p].prev # P_INVALID => new[new[p].prev].next = p
  BY DEF Linked
<1> QED
  BY <1>1 DEF Linked

\* A new page r between p and the page that followed it, if there was one.
LEMMA LinkedSplit ==
  ASSUME NEW ps \in Seq(AnyPage), Linked(ps), NEW p \in DOMAIN ps,
         NEW r, r = Len(ps) + 1, NEW new \in Seq(AnyPage), Len(new) = r,
         \A q \in 1 .. Len(ps) :
           /\ new[q].prev = IF q = ps[p].next THEN r ELSE ps[q].prev
           /\ new[q].next = IF q = p THEN r ELSE ps[q].next,
         new[r].prev = p, new[r].next = ps[p].next
  PROVE  Linked(new)
<1>1. /\ DOMAIN ps = 1 .. Len(ps) /\ DOMAIN new = DOMAIN ps \cup {r}
      /\ r \notin DOMAIN ps /\ r # P_INVALID /\ P_INVALID \notin DOMAIN ps
  <2>1. DOMAIN ps = 1 .. Len(ps) /\ Len(ps) \in Nat /\ DOMAIN new = 1 .. r
    BY SeqFacts
  <2> QED
    BY <2>1 DEF P_INVALID
<1> DEFINE old == ps[p].next
<1>2. /\ old \in DOMAIN ps \cup {P_INVALID} /\ old # p /\ old # r
      /\ old # P_INVALID => ps[old].prev = p
  BY <1>1 DEF Linked
<1>3. /\ \A q \in DOMAIN ps : q # old => new[q].prev = ps[q].prev
      /\ \A q \in DOMAIN ps : q # p => new[q].next = ps[q].next
      /\ new[p].next = r
      /\ old \in DOMAIN ps => new[old].prev = r
  BY <1>1
<1>4. new[r].prev = p /\ new[r].next = old
  OBVIOUS
<1> HIDE DEF old
<1>5. ASSUME NEW q \in DOMAIN ps, q # p
      PROVE  /\ new[q].next \in DOMAIN new \cup {P_INVALID} /\ new[q].next # q
             /\ new[q].next # P_INVALID => new[new[q].next].prev = q
  <2>1. /\ new[q].next = ps[q].next /\ ps[q].next # q
        /\ ps[q].next \in DOMAIN ps \cup {P_INVALID}
        /\ ps[q].next # P_INVALID => ps[ps[q].next].prev = q
    BY <1>3, <1>5 DEF Linked
  <2>2. ps[q].next # P_INVALID => ps[q].next # old
    BY <1>2, <1>5, <2>1
  <2> QED
    BY <1>1, <1>3, <2>1, <2>2
<1>6. ASSUME NEW q \in DOMAIN ps, q # old
      PROVE  /\ new[q].prev \in DOMAIN new \cup {P_INVALID}
             /\ new[q].prev # P_INVALID => new[new[q].prev].next = q
  <2>1. /\ new[q].prev = ps[q].prev
        /\ ps[q].prev \in DOMAIN ps \cup {P_INVALID}
        /\ ps[q].prev # P_INVALID => ps[ps[q].prev].next = q
    BY <1>3, <1>6 DEF Linked
  <2>2. ps[q].prev # P_INVALID => ps[q].prev # p
    BY <1>6, <2>1 DEF old
  <2> QED
    BY <1>1, <1>3, <2>1, <2>2
<1>7. /\ new[p].next = r /\ r # p /\ new[r].prev = p
      /\ old \in DOMAIN ps => new[old].prev = r /\ new[r].next = old
      /\ r # old
  BY <1>1, <1>2, <1>3, <1>4
<1>8. ASSUME NEW q \in DOMAIN new
      PROVE  /\ new[q].next \in DOMAIN new \cup {P_INVALID} /\ new[q].next # q
             /\ new[q].next # P_INVALID => new[new[q].next].prev = q
  <2>1. CASE q = p
    BY <1>1, <1>7, <2>1
  <2>2. CASE q = r
    BY <1>1, <1>2, <1>4, <1>7, <2>2
  <2>3. CASE q \notin {p, r}
    BY <1>1, <1>5, <2>3
  <2> QED
    BY <2>1, <2>2, <2>3
<1>9. ASSUME NEW q \in DOMAIN new
      PROVE  /\ new[q].prev \in DOMAIN new \cup {P_INVALID}
             /\ new[q].prev # P_INVALID => new[new[q].prev].next = q
  <2>1. CASE q = r
    BY <1>1, <1>7, <2>1
  <2>2. CASE q # r /\ q = old
    BY <1>1, <1>7, <2>2
  <2>3. CASE q \notin {old, r}
    BY <1>1, <1>6, <2>3
  <2> QED
    BY <2>1, <2>2, <2>3
<1> QED
  BY <1>8, <1>9 DEF Linked

\* Two new pages that are each other's only neighbours.
LEMMA LinkedGrow ==
  ASSUME NEW ps \in Seq(AnyPage), Linked(ps),
         NEW l, l = Len(ps) + 1, NEW r, r = Len(ps) + 2,
         NEW new \in Seq(AnyPage), Len(new) = r,
         \A q \in 1 .. Len(ps) :
           new[q].prev = ps[q].prev /\ new[q].next = ps[q].next,
         new[l].prev = P_INVALID, new[l].next = r,
         new[r].prev = l, new[r].next = P_INVALID
  PROVE  Linked(new)
<1>1. /\ DOMAIN ps = 1 .. Len(ps) /\ DOMAIN new = DOMAIN ps \cup {l, r}
      /\ l # r /\ P_INVALID \notin {l, r}
  <2>1. DOMAIN ps = 1 .. Len(ps) /\ Len(ps) \in Nat /\ DOMAIN new = 1 .. r
    BY SeqFacts
  <2> QED
    BY <2>1 DEF P_INVALID
<1>2. ASSUME NEW q \in DOMAIN ps
      PROVE  /\ new[q].next \in DOMAIN new \cup {P_INVALID} /\ new[q].next # q
             /\ new[q].prev \in DOMAIN new \cup {P_INVALID}
             /\ new[q].next # P_INVALID => new[new[q].next].prev = q
             /\ new[q].prev # P_INVALID => new[new[q].prev].next = q
  <2>1. new[q].next = ps[q].next /\ new[q].prev = ps[q].prev
    BY <1>1
  <2>2. /\ ps[q].next \in DOMAIN ps \cup {P_INVALID} /\ ps[q].next # q
        /\ ps[q].prev \in DOMAIN ps \cup {P_INVALID}
        /\ ps[q].next # P_INVALID => ps[ps[q].next].prev = q
        /\ ps[q].prev # P_INVALID => ps[ps[q].prev].next = q
    BY DEF Linked
  <2> QED
    BY <1>1, <2>1, <2>2
<1>3. /\ new[l].next \in DOMAIN new /\ new[l].next # l /\ new[new[l].next].prev = l
      /\ new[l].prev = P_INVALID
  BY <1>1
<1>4. /\ new[r].prev \in DOMAIN new /\ new[new[r].prev].next = r
      /\ new[r].next = P_INVALID /\ new[r].next # r
  BY <1>1
<1> QED
  BY <1>1, <1>2, <1>3, <1>4 DEF Linked

\* The changes to the arena, one by one.
LEMMA SetEntsLinked ==
  ASSUME pages \in Seq(AnyPage), Linked(pages), NEW p \in DOMAIN pages,
         NEW ents \in Seq(EntryOf(pages[p].leaf)), pages' = [pages EXCEPT ![p].ents = ents]
  PROVE  Linked(pages')
<1> DEFINE new == [pages EXCEPT ![p].ents = ents]
<1>1. Len(new) = Len(pages)
  BY SetEntsFacts
<1>2. new \in Seq(AnyPage)
  BY SetEntsFacts
<1>3. \A q \in 1 .. Len(pages) : new[q].prev = pages[q].prev
  BY SetEntsFacts
<1>4. \A q \in 1 .. Len(pages) : new[q].next = pages[q].next
  BY SetEntsFacts
<1> HIDE DEF new
<1>5. DOMAIN new = DOMAIN pages /\ DOMAIN pages = 1 .. Len(pages)
  BY <1>1, <1>2, SeqFacts
<1>6. Linked(new)
  BY <1>3, <1>4, <1>5, LinkedKept
<1> QED
  BY <1>6 DEF new

\* SplitPage keeps the links of a level inverse to each other.
LEMMA SplitPageLinked ==
  ASSUME pages \in Seq(AnyPage), Linked(pages), NEW p \in DOMAIN pages,
         NEW e \in EntryOf(pages[p].leaf), NEW leaf,
         NEW pos \in 1 .. Len(pages[p].ents) + 1,
         NEW h \in Halves(leaf, pages[p].ents, pos, e)
  PROVE  Linked(SplitPage(p, h))
<1> DEFINE S == EntryOf(pages[p].leaf)
           new == SplitPage(p, h)
           r == Len(pages) + 1
<1>1. pages[p].ents \in Seq(S)
  BY EntsFacts
<1>2. h.left \in Seq(S) /\ h.right \in Seq(S)
  BY <1>1, HalvesFacts
<1>3. /\ new \in Seq(AnyPage)
      /\ Len(new) = r
      /\ \A q \in 1 .. Len(pages) :
           /\ new[q].prev = IF q = pages[p].next THEN r ELSE pages[q].prev
           /\ new[q].next = IF q = p THEN r ELSE pages[q].next
      /\ new[r].prev = p
      /\ new[r].next = pages[p].next
  BY <1>2, SplitPageFacts
<1> HIDE DEF new
<1>4. r = Len(pages) + 1
  OBVIOUS
<1> HIDE DEF r
<1>5. Linked(new)
  BY <1>3, <1>4, LinkedSplit
<1> QED
  BY <1>5 DEF new

\* So does AppendPage, for the last page of a level.
LEMMA AppendPageLinked ==
  ASSUME pages \in Seq(AnyPage), Linked(pages), NEW p \in DOMAIN pages,
         NEW e \in EntryOf(pages[p].leaf), pages[p].next = P_INVALID
  PROVE  Linked(AppendPage(p, e))
<1> DEFINE new == AppendPage(p, e)
           r == Len(pages) + 1
<1>1. /\ new \in Seq(AnyPage)
      /\ Len(new) = r
      /\ \A q \in 1 .. Len(pages) :
           /\ new[q].prev = pages[q].prev
           /\ new[q].next = IF q = p THEN r ELSE pages[q].next
      /\ new[r].prev = p
      /\ new[r].next = P_INVALID
  BY AppendPageFacts
<1> HIDE DEF new
<1>2. \A q \in 1 .. Len(pages) : q # pages[p].next
  BY DEF P_INVALID
<1>3. r = Len(pages) + 1
  OBVIOUS
<1> HIDE DEF r
<1>4. Linked(new)
  BY <1>1, <1>2, <1>3, LinkedSplit
<1> QED
  BY <1>4 DEF new

\* So does GrowRoot: the two new pages are a level of their own.
LEMMA GrowRootLinked ==
  ASSUME pages \in Seq(AnyPage), P_ROOT \in DOMAIN pages, Linked(pages),
         NEW e \in EntryOf(pages[P_ROOT].leaf), NEW leaf,
         NEW pos \in 1 .. Len(pages[P_ROOT].ents) + 1,
         NEW h \in Halves(leaf, pages[P_ROOT].ents, pos, e)
  PROVE  Linked(GrowRoot(h))
<1> DEFINE S == EntryOf(pages[P_ROOT].leaf)
           new == GrowRoot(h)
           l == Len(pages) + 1
           r == Len(pages) + 2
<1>1. pages[P_ROOT].ents \in Seq(S)
  BY EntsFacts
<1>2. h.left \in Seq(S) /\ h.right \in Seq(S) /\ h.right[1] \in S
  BY <1>1, HalvesFacts
<1>3. h.right[1].key \in Strings
  <2> HIDE DEF S
  <2>1. \A x \in S : x.key \in Strings
    BY KeyOfEntry DEF S
  <2> QED
    BY <1>2, <2>1
<1>4. /\ new \in Seq(AnyPage)
      /\ Len(new) = r
      /\ \A q \in 1 .. Len(pages) :
           new[q].prev = pages[q].prev /\ new[q].next = pages[q].next
      /\ new[l].prev = P_INVALID
      /\ new[l].next = r
      /\ new[r].prev = l
      /\ new[r].next = P_INVALID
  BY <1>2, <1>3, GrowRootFacts
<1> HIDE DEF new
<1>5. l = Len(pages) + 1 /\ r = Len(pages) + 2
  OBVIOUS
<1> HIDE DEF l, r
<1>6. Linked(new)
  BY <1>4, <1>5, LinkedGrow
<1> QED
  BY <1>6 DEF new

\* So does a change of one leaf's entries.
LEMMA LeafLinked ==
  ASSUME TypeOK, NEW lv, CallInv(lv), Linked(pages), NEW op, AtLeaf(op),
         NEW ents \in Seq(LeafEntry), pages' = [pages EXCEPT ![cur].ents = ents]
  PROVE  Linked(pages')
<1>1. cur \in DOMAIN pages /\ pages[cur].leaf = TRUE
  BY LeafFacts
<1>2. ents \in Seq(EntryOf(pages[cur].leaf))
  BY <1>1 DEF EntryOf
<1>3. pages \in Seq(AnyPage)
  BY TypeFacts
<1> QED
  BY <1>1, <1>2, <1>3, SetEntsLinked

\* So do the three splits of a leaf.
LEMMA LeafSplitLinked ==
  ASSUME TypeOK, NEW lv, CallInv(lv), Linked(pages), NEW pos,
         \/ SplitRootLeaf(pos) \/ SplitLeafSortedOpt(pos) \/ SplitLeafFull(pos)
  PROVE  Linked(pages')
<1>1. LeafFull(pos)
  BY DEF SplitRootLeaf, SplitLeafSortedOpt, SplitLeafFull
<1>2. /\ cur \in DOMAIN pages /\ Ents = pages[cur].ents
      /\ NewLeafEntry \in EntryOf(pages[cur].leaf)
      /\ pos \in 1 .. Len(pages[cur].ents) + 1
  BY <1>1, LeafFullFacts
<1>3. pages \in Seq(AnyPage) /\ P_ROOT \in DOMAIN pages
  BY TypeFacts
<1>4. \A h \in LeafHalves(pos) : h \in Halves(TRUE, pages[cur].ents, pos, NewLeafEntry)
  BY <1>2 DEF LeafHalves
<1>5. CASE SplitRootLeaf(pos)
  <2>1. PICK h \in LeafHalves(pos) : cur = P_ROOT /\ pages' = GrowRoot(h)
    BY <1>5 DEF SplitRootLeaf
  <2> QED
    BY <1>2, <1>3, <1>4, <2>1, GrowRootLinked
<1>6. CASE SplitLeafSortedOpt(pos)
  <2>1. pages[cur].next = P_INVALID /\ pages' = AppendPage(cur, NewLeafEntry)
    BY <1>6 DEF SplitLeafSortedOpt, IsSortedAppend
  <2> QED
    BY <1>2, <1>3, <2>1, AppendPageLinked
<1>7. CASE SplitLeafFull(pos)
  <2>1. PICK h \in LeafHalves(pos) : pages' = SplitPage(cur, h)
    BY <1>7 DEF SplitLeafFull
  <2> QED
    BY <1>2, <1>3, <1>4, <2>1, SplitPageLinked
<1> QED
  BY <1>5, <1>6, <1>7

\* So do a separator's insertion and the three splits of an internal page.
LEMMA ParentLinked ==
  ASSUME TypeOK, NEW lv, Leveled(pages, lv), CallInv(lv), Linked(pages),
         \/ InsertInternalInPlace \/ SplitRootInternal
         \/ SplitInternalSortedOpt \/ SplitInternalPage
  PROVE  Linked(pages')
<1>1. GoingUp
  BY DEF InsertInternalInPlace, SplitRootInternal, SplitInternalSortedOpt,
         SplitInternalPage, ParentFull
<1>2. /\ Parent \in DOMAIN pages /\ ParentEnts = pages[Parent].ents
      /\ ParentEnts \in Seq(SepEntry) /\ NewSepEntry \in SepEntry
      /\ EntryOf(pages[Parent].leaf) = SepEntry
      /\ SepSlot \in 1 .. Len(pages[Parent].ents) + 1
  BY <1>1, ParentFacts
<1>3. pages \in Seq(AnyPage) /\ P_ROOT \in DOMAIN pages
  BY TypeFacts
<1>4. \A h \in ParentHalves :
        h \in Halves(FALSE, pages[Parent].ents, SepSlot, NewSepEntry)
  BY <1>2 DEF ParentHalves
<1>5. NewSepEntry \in EntryOf(pages[Parent].leaf)
  BY <1>2
<1>6. CASE InsertInternalInPlace
  <2> DEFINE ents == InsertAt(ParentEnts, SepSlot, NewSepEntry)
  <2>1. pages' = [pages EXCEPT ![Parent].ents = ents]
    BY <1>2, <1>6 DEF InsertInternalInPlace
  <2>2. ents \in Seq(SepEntry)
    BY <1>2, InsertAtFacts
  <2> HIDE DEF ents
  <2>3. ents \in Seq(EntryOf(pages[Parent].leaf))
    BY <1>2, <2>2
  <2> QED
    BY <1>2, <1>3, <2>1, <2>3, SetEntsLinked
<1>7. CASE SplitRootInternal
  <2>1. PICK h \in ParentHalves : Parent = P_ROOT /\ pages' = GrowRoot(h)
    BY <1>7 DEF SplitRootInternal
  <2> QED
    BY <1>2, <1>3, <1>4, <1>5, <2>1, GrowRootLinked
<1>8. CASE SplitInternalSortedOpt
  <2>1. pages[Parent].next = P_INVALID /\ pages' = AppendPage(Parent, NewSepEntry)
    BY <1>8 DEF SplitInternalSortedOpt, IsSortedAppend
  <2> QED
    BY <1>2, <1>3, <1>5, <2>1, AppendPageLinked
<1>9. CASE SplitInternalPage
  <2>1. PICK h \in ParentHalves : pages' = SplitPage(Parent, h)
    BY <1>9 DEF SplitInternalPage
  <2> QED
    BY <1>2, <1>3, <1>4, <1>5, <2>1, SplitPageLinked
<1> QED
  BY <1>6, <1>7, <1>8, <1>9

\* The empty root leaf has no neighbours.
LEMMA InitLinked == Init => Linked(pages)
<1> SUFFICES ASSUME Init PROVE Linked(pages)
  OBVIOUS
<1>1. DOMAIN pages = {1} /\ pages[1].next = P_INVALID /\ pages[1].prev = P_INVALID
  BY DEF Init, Page
<1> QED
  BY <1>1 DEF Linked, P_INVALID

\* Every step of the writer keeps the links inverse to each other.
LEMMA NextLinked == IInv /\ Linked(pages) /\ [Next]_vars => Linked(pages)'
<1> SUFFICES ASSUME IInv, Linked(pages), [Next]_vars PROVE Linked(pages')
  OBVIOUS
<1>0. TypeOK
  BY DEF IInv
<1>1. PICK lv : Leveled(pages, lv) /\ CallInv(lv)
  BY DEF IInv
<1>2. ASSUME UNCHANGED pages
      PROVE  Linked(pages')
  BY <1>2
<1>3. CASE UNCHANGED vars
  BY <1>2, <1>3 DEF vars
<1>4. CASE Call
  <2>1. UNCHANGED pages
    BY <1>4 DEF Call, RejectPut, CallPut, CallDel, Start
  <2> QED
    BY <1>2, <2>1
<1>5. CASE Descend \/ DelMiss \/ PutDuplicate
  BY <1>2, <1>5 DEF Descend, DelMiss, PutDuplicate
<1>6. CASE DelHit
  <2>1. AtLeaf("del")
    BY <1>6 DEF DelHit
  <2>2. Ents \in Seq(LeafEntry) /\ cur \in DOMAIN pages
    BY <1>0, <1>1, <2>1, LeafFacts
  <2>3. PICK i \in DOMAIN Ents : pages' = [pages EXCEPT ![cur].ents = RemoveAt(@, i)]
    BY <1>6 DEF DelHit
  <2>4. RemoveAt(Ents, i) \in Seq(LeafEntry)
    <3>1. i \in 1 .. Len(Ents)
      BY <2>2, SeqFacts
    <3> QED
      BY <2>2, <3>1, RemoveAtFacts
  <2>5. pages' = [pages EXCEPT ![cur].ents = RemoveAt(Ents, i)]
    BY <2>2, <2>3 DEF Ents
  <2> QED
    BY <1>0, <1>1, <2>1, <2>4, <2>5, LeafLinked
<1>7. CASE InsertLeafEntry
  <2>1. AtLeaf("put")
    BY <1>7 DEF InsertLeafEntry
  <2>2. /\ Ents \in Seq(LeafEntry) /\ cur \in DOMAIN pages
        /\ NewLeafEntry \in LeafEntry
    BY <1>0, <1>1, <2>1, LeafFacts, NewLeafEntryFacts
  <2>3. PICK pos \in 1 .. Len(Ents) + 1 :
          pages' = [pages EXCEPT ![cur].ents = InsertAt(@, pos, NewLeafEntry)]
    BY <1>7 DEF InsertLeafEntry
  <2>4. InsertAt(Ents, pos, NewLeafEntry) \in Seq(LeafEntry)
    BY <2>2, InsertAtFacts
  <2>5. pages' = [pages EXCEPT ![cur].ents = InsertAt(Ents, pos, NewLeafEntry)]
    BY <2>2, <2>3 DEF Ents
  <2> QED
    BY <1>0, <1>1, <2>1, <2>4, <2>5, LeafLinked
<1>8. ASSUME NEW pos \in 1 .. Len(Ents) + 1,
             \/ SplitRootLeaf(pos) \/ SplitLeafSortedOpt(pos) \/ SplitLeafFull(pos)
      PROVE  Linked(pages')
  BY <1>0, <1>1, <1>8, LeafSplitLinked
<1>9. ASSUME NEW pos \in 1 .. Len(Ents) + 1, SplitLeafUnfit(pos)
      PROVE  Linked(pages')
  BY <1>2, <1>9 DEF SplitLeafUnfit
<1>10. CASE \/ InsertInternalInPlace \/ SplitRootInternal
            \/ SplitInternalSortedOpt \/ SplitInternalPage
  BY <1>0, <1>1, <1>10, ParentLinked
<1>11. CASE SplitInternalUnfit
  BY <1>2, <1>11 DEF SplitInternalUnfit
<1> QED
  BY <1>3, <1>4, <1>5, <1>6, <1>7, <1>8, <1>9, <1>10, <1>11 DEF Next, Step

\* The prev and next links of a level are always each other's inverses, in
\* the middle of a put too: a split relinks the old right neighbour, and the
\* sorted-append shortcut is only taken where there is none.
THEOREM SiblingsCorrect == Spec => []SiblingsAgree
<1>1. Linked(pages) => SiblingsAgree
  BY DEF Linked, SiblingsAgree
<1>2. Spec => [](IInv /\ Linked(pages))
  <2>1. IInv /\ Linked(pages) /\ [Next]_vars => (IInv /\ Linked(pages))'
    BY NextPreserves, NextLinked
  <2> QED
    BY <2>1, InitEstablishes, InitLinked, PTL DEF Spec
<1> QED
  BY <1>1, <1>2, PTL

-----------------------------------------------------------------------------
(* What the entries of a page cost.  A sum of PrefixCost is a function on   *)
(* numbers, so what holds of it is shown of the set of the numbers it       *)
(* holds for.                                                              *)

\* The sizes of the entries of s are numbers.
Sized(leaf, s) ==
  Len(s) \in Nat /\ \A i \in 1 .. Len(s) : EntryBytes(leaf, s[i]) \in Nat

\* The size of an entry is a number.
LEMMA SizeFacts ==
  ASSUME NEW leaf \in BOOLEAN, NEW e \in EntryOf(leaf)
  PROVE  EntryBytes(leaf, e) \in Nat
<1>1. \A n \in Nat : align_entry(ENTRY_HEADER_SIZE + n) \in Nat
  BY DEF align_entry, ENTRY_HEADER_SIZE
<1>2. CASE leaf = TRUE
  <2>1. e.key \in Strings /\ e.val \in Values
    BY <1>2 DEF EntryOf, LeafEntry
  <2>2. KeyLen[e.key] \in Nat /\ ValLen[e.val] \in Nat
    BY <2>1, StringsAssumption
  <2>3. ENTRY_HEADER_SIZE + KeyLen[e.key] + ValLen[e.val]
          = ENTRY_HEADER_SIZE + (KeyLen[e.key] + ValLen[e.val])
    BY <2>2 DEF ENTRY_HEADER_SIZE
  <2> QED
    BY <1>1, <1>2, <2>2, <2>3 DEF EntryBytes, LeafBytes
<1>3. CASE leaf = FALSE
  <2>1. e.key \in Strings
    BY <1>3 DEF EntryOf, SepEntry
  <2>2. KeyLen[e.key] \in Nat
    BY <2>1, StringsAssumption
  <2> QED
    BY <1>1, <1>3, <2>2 DEF EntryBytes, SepBytes
<1> QED
  BY <1>2, <1>3

\* The entries of a page have sizes.
LEMMA SizedFacts ==
  ASSUME NEW leaf \in BOOLEAN, NEW s \in Seq(EntryOf(leaf))
  PROVE  Sized(leaf, s)
<1>1. Len(s) \in Nat /\ \A i \in 1 .. Len(s) : s[i] \in EntryOf(leaf)
  <2> DEFINE S == EntryOf(leaf)
  <2> HIDE DEF S
  <2>1. s \in Seq(S)
    BY DEF S
  <2>2. Len(s) \in Nat /\ \A i \in 1 .. Len(s) : s[i] \in S
    BY <2>1
  <2> QED
    BY <2>2 DEF S
<1> QED
  BY <1>1, SizeFacts DEF Sized

\* PrefixCost is the running sum its definition describes.
LEMMA CostFacts ==
  ASSUME NEW leaf, NEW s, Sized(leaf, s)
  PROVE  /\ PrefixCost(leaf, s) \in [0 .. Len(s) -> Nat]
         /\ PrefixCost(leaf, s)[0] = 0
         /\ \A i \in 1 .. Len(s) :
              PrefixCost(leaf, s)[i] =
                PrefixCost(leaf, s)[i - 1] + EntryBytes(leaf, s[i]) + LINP_SIZE
<1> DEFINE n == Len(s)
           w(i) == EntryBytes(leaf, s[i]) + LINP_SIZE
           F(c) == [i \in 0 .. n |->
                     IF i = 0 THEN 0
                     ELSE c[i - 1] + EntryBytes(leaf, s[i]) + LINP_SIZE]
           Sums(m, c) == /\ c[0] = 0
                         /\ \A i \in 1 .. m : c[i] = c[i - 1] + w(i)
           T == {m \in Nat : m <= n => \E c \in [0 .. n -> Nat] : Sums(m, c)}
<1>0. n \in Nat /\ \A i \in 1 .. n : w(i) \in Nat
  BY DEF Sized, LINP_SIZE
<1>1. PrefixCost(leaf, s) = CHOOSE c : c = F(c)
  BY DEF PrefixCost
<1>2. \A i \in 1 .. n : \A x \in Nat :
        x + EntryBytes(leaf, s[i]) + LINP_SIZE = x + w(i)
  BY DEF Sized, LINP_SIZE
<1> HIDE DEF w
<1> HIDE DEF n
<1>3. 0 \in T
  <2>1. [i \in 0 .. n |-> 0] \in [0 .. n -> Nat] /\ Sums(0, [i \in 0 .. n |-> 0])
    BY <1>0
  <2> HIDE DEF Sums
  <2> QED
    BY <2>1
<1>4. ASSUME NEW m \in T PROVE m + 1 \in T
  <2>1. m \in Nat /\ m + 1 \in Nat
    OBVIOUS
  <2> SUFFICES ASSUME m + 1 <= n
               PROVE  \E c \in [0 .. n -> Nat] : Sums(m + 1, c)
    BY <2>1
  <2>2. PICK c \in [0 .. n -> Nat] : Sums(m, c)
    BY <1>0, <2>1
  <2> DEFINE d == [c EXCEPT ![m + 1] = c[m] + w(m + 1)]
  <2>3. m \in 0 .. n /\ m + 1 \in 1 .. n
    BY <1>0, <2>1
  <2>4. d \in [0 .. n -> Nat]
    BY <1>0, <2>2, <2>3
  <2>5. /\ \A i \in 0 .. m : d[i] = c[i]
        /\ d[m + 1] = c[m] + w(m + 1)
    BY <1>0, <2>2, <2>3
  <2> HIDE DEF d
  <2>6. Sums(m + 1, d)
    <3>1. d[0] = 0
      BY <2>1, <2>2, <2>5
    <3>2. ASSUME NEW i \in 1 .. m + 1 PROVE d[i] = d[i - 1] + w(i)
      <4>1. CASE i = m + 1
        BY <2>1, <2>5, <4>1
      <4>2. CASE i # m + 1
        <5>1. i \in 1 .. m /\ i \in 0 .. m /\ i - 1 \in 0 .. m
          BY <2>1, <4>2
        <5> QED
          BY <2>2, <2>5, <5>1
      <4> QED
        BY <4>1, <4>2
    <3> QED
      BY <3>1, <3>2
  <2> HIDE DEF Sums
  <2> QED
    BY <2>4, <2>6
<1>5. T = Nat
  <2>1. T \in SUBSET Nat
    OBVIOUS
  <2> HIDE DEF T
  <2> QED
    BY <1>3, <1>4, <2>1, NatInd
<1>6. PICK c \in [0 .. n -> Nat] : Sums(n, c)
  <2>1. n \in T
    <3> HIDE DEF T
    <3> QED
      BY <1>0, <1>5
  <2>2. n <= n
    BY <1>0
  <2> HIDE DEF Sums
  <2> QED
    BY <2>1, <2>2
<1>7. c = F(c)
  <2>1. \A i \in 0 .. n : i # 0 => i \in 1 .. n /\ i - 1 \in 0 .. n
    BY <1>0
  <2>2. \A i \in 0 .. n : F(c)[i] = c[i]
    BY <1>2, <1>6, <2>1
  <2> QED
    BY <1>6, <2>2
<1> DEFINE pre == PrefixCost(leaf, s)
<1>8. pre = F(pre)
  <2> HIDE DEF F
  <2> QED
    BY <1>1, <1>7
<1> HIDE DEF pre
<1>9. /\ DOMAIN pre = 0 .. n
      /\ pre[0] = 0
      /\ \A i \in 1 .. n : pre[i] = pre[i - 1] + EntryBytes(leaf, s[i]) + LINP_SIZE
  <2>1. DOMAIN pre = 0 .. n
    BY <1>8
  <2>2. 0 \in 0 .. n /\ \A i \in 1 .. n : i \in 0 .. n /\ i # 0
    BY <1>0
  <2> QED
    BY <1>8, <2>1, <2>2
<1> DEFINE U == {m \in Nat : m <= n => pre[m] \in Nat}
<1>10. 0 \in U
  BY <1>9
<1>11. ASSUME NEW m \in U PROVE m + 1 \in U
  <2> SUFFICES ASSUME m + 1 <= n PROVE pre[m + 1] \in Nat
    OBVIOUS
  <2>1. m \in Nat /\ pre[m] \in Nat /\ m + 1 \in 1 .. n /\ (m + 1) - 1 = m
    BY <1>0
  <2>2. pre[m + 1] = pre[m] + EntryBytes(leaf, s[m + 1]) + LINP_SIZE
    BY <1>9, <2>1
  <2>3. pre[m + 1] = pre[m] + w(m + 1)
    BY <1>2, <2>1, <2>2
  <2> QED
    BY <1>0, <2>1, <2>3
<1>12. U = Nat
  <2>1. U \in SUBSET Nat
    OBVIOUS
  <2> HIDE DEF U
  <2> QED
    BY <1>10, <1>11, <2>1, NatInd
<1>13. \A i \in 0 .. n : pre[i] \in Nat
  BY <1>0, <1>12
<1>14. pre \in [0 .. n -> Nat]
  BY <1>8, <1>9, <1>13
<1> QED
  BY <1>9, <1>14 DEF pre, n

\* Costs only grow along a page.
LEMMA CostGrows ==
  ASSUME NEW leaf, NEW s, Sized(leaf, s), NEW i \in 0 .. Len(s), NEW j \in i .. Len(s)
  PROVE  PrefixCost(leaf, s)[i] <= PrefixCost(leaf, s)[j]
<1> DEFINE pre == PrefixCost(leaf, s)
           n == Len(s)
           T == {m \in Nat : i + m <= n => pre[i] <= pre[i + m]}
<1>1. /\ n \in Nat /\ i \in Nat /\ j \in Nat /\ i <= j /\ j <= n
      /\ \A m \in 0 .. n : pre[m] \in Nat
      /\ \A m \in 1 .. n : /\ pre[m] = pre[m - 1] + EntryBytes(leaf, s[m]) + LINP_SIZE
                          /\ EntryBytes(leaf, s[m]) \in Nat
  <2>1. pre \in [0 .. n -> Nat]
    BY CostFacts
  <2>2. n \in Nat /\ i \in Nat /\ j \in Nat /\ i <= j /\ j <= n
    BY DEF Sized
  <2>3. \A m \in 0 .. n : pre[m] \in Nat
    <3> HIDE DEF pre, n
    <3> QED
      BY <2>1
  <2>4. \A m \in 1 .. n : pre[m] = pre[m - 1] + EntryBytes(leaf, s[m]) + LINP_SIZE
    BY CostFacts
  <2>5. \A m \in 1 .. n : EntryBytes(leaf, s[m]) \in Nat
    BY DEF Sized
  <2> QED
    BY <2>2, <2>3, <2>4, <2>5
<1> HIDE DEF pre, n
<1>2. 0 \in T
  BY <1>1
<1>3. ASSUME NEW m \in T PROVE m + 1 \in T
  <2> SUFFICES ASSUME i + (m + 1) <= n PROVE pre[i] <= pre[i + (m + 1)]
    OBVIOUS
  <2>1. i + m \in 0 .. n /\ i + (m + 1) \in 1 .. n /\ i + (m + 1) - 1 = i + m
        /\ i + m <= n
    BY <1>1
  <2>2. pre[i] <= pre[i + m]
    BY <2>1
  <2>3. pre[i + m] \in Nat /\ EntryBytes(leaf, s[i + (m + 1)]) \in Nat
        /\ pre[i + (m + 1)] = pre[i + m] + EntryBytes(leaf, s[i + (m + 1)]) + 2
        /\ pre[i] \in Nat
    BY <1>1, <2>1 DEF LINP_SIZE
  <2> QED
    BY <2>2, <2>3
<1>4. T = Nat
  <2>1. T \in SUBSET Nat
    OBVIOUS
  <2> HIDE DEF T
  <2> QED
    BY <1>2, <1>3, <2>1, NatInd
<1>5. j - i \in T
  <2>1. j - i \in Nat
    BY <1>1
  <2> HIDE DEF T
  <2> QED
    BY <1>4, <2>1
<1>6. i + (j - i) = j
  BY <1>1
<1> QED
  BY <1>1, <1>5, <1>6 DEF pre, n

\* Pages that begin with the same entries cost the same so far.
LEMMA CostSame ==
  ASSUME NEW leaf, NEW s, Sized(leaf, s), NEW t, Sized(leaf, t),
         NEW n \in 0 .. Len(s), n <= Len(t),
         \A i \in 1 .. n : t[i] = s[i], NEW k \in 0 .. n
  PROVE  PrefixCost(leaf, t)[k] = PrefixCost(leaf, s)[k]
<1> DEFINE p == PrefixCost(leaf, s)
           q == PrefixCost(leaf, t)
           T == {m \in Nat : m <= n => q[m] = p[m]}
<1>1. /\ n \in Nat /\ Len(s) \in Nat /\ Len(t) \in Nat /\ n <= Len(s)
      /\ p[0] = 0 /\ q[0] = 0
      /\ \A m \in 1 .. n : p[m] = p[m - 1] + EntryBytes(leaf, s[m]) + LINP_SIZE
      /\ \A m \in 1 .. n : q[m] = q[m - 1] + EntryBytes(leaf, s[m]) + LINP_SIZE
  <2>1. n \in Nat /\ Len(s) \in Nat /\ Len(t) \in Nat /\ n <= Len(s)
    BY DEF Sized
  <2>2. \A m \in 1 .. n : m \in 1 .. Len(s) /\ m \in 1 .. Len(t) /\ t[m] = s[m]
    BY <2>1
  <2> QED
    BY <2>1, <2>2, CostFacts
<1> HIDE DEF p, q
<1>2. 0 \in T
  BY <1>1
<1>3. ASSUME NEW m \in T PROVE m + 1 \in T
  <2>1. m + 1 \in Nat /\ (m + 1 <= n => m <= n /\ m + 1 \in 1 .. n /\ m + 1 - 1 = m)
    BY <1>1
  <2> QED
    BY <1>1, <2>1
<1>4. T = Nat
  <2>1. T \in SUBSET Nat
    OBVIOUS
  <2> HIDE DEF T
  <2> QED
    BY <1>2, <1>3, <2>1, NatInd
<1> QED
  BY <1>1, <1>4 DEF p, q

\* What comes behind the first n entries costs what it costs on a page of its
\* own.
LEMMA CostTail ==
  ASSUME NEW leaf, NEW s, Sized(leaf, s), NEW t, Sized(leaf, t),
         NEW n \in 0 .. Len(s), n + Len(t) = Len(s),
         \A i \in 1 .. Len(t) : t[i] = s[n + i]
  PROVE  Cost(leaf, s) = PrefixCost(leaf, s)[n] + Cost(leaf, t)
<1> DEFINE p == PrefixCost(leaf, s)
           q == PrefixCost(leaf, t)
           T == {m \in Nat : m <= Len(t) => p[n + m] = p[n] + q[m]}
<1>1. /\ n \in Nat /\ Len(s) \in Nat /\ Len(t) \in Nat /\ n <= Len(s)
      /\ q[0] = 0 /\ p[n] \in Nat
      /\ \A m \in 1 .. Len(t) :
           p[n + m] = p[n + m - 1] + EntryBytes(leaf, t[m]) + LINP_SIZE
      /\ \A m \in 1 .. Len(t) : q[m] = q[m - 1] + EntryBytes(leaf, t[m]) + LINP_SIZE
      /\ \A m \in 1 .. Len(t) : EntryBytes(leaf, t[m]) \in Nat
      /\ \A m \in 0 .. Len(t) : q[m] \in Nat
  <2>1. n \in Nat /\ Len(s) \in Nat /\ Len(t) \in Nat /\ n <= Len(s)
    BY DEF Sized
  <2>2. \A m \in 1 .. Len(t) : n + m \in 1 .. Len(s) /\ t[m] = s[n + m]
    BY <2>1
  <2>3. p \in [0 .. Len(s) -> Nat] /\ q \in [0 .. Len(t) -> Nat]
    BY CostFacts
  <2>4. \A m \in 1 .. Len(s) : p[m] = p[m - 1] + EntryBytes(leaf, s[m]) + LINP_SIZE
    BY CostFacts
  <2>5. \A m \in 1 .. Len(t) : q[m] = q[m - 1] + EntryBytes(leaf, t[m]) + LINP_SIZE
    BY CostFacts
  <2>6. \A m \in 1 .. Len(t) : EntryBytes(leaf, t[m]) \in Nat
    BY DEF Sized
  <2>7. q[0] = 0
    BY CostFacts
  <2> HIDE DEF p, q
  <2>8. \A m \in 1 .. Len(t) :
          p[n + m] = p[n + m - 1] + EntryBytes(leaf, t[m]) + LINP_SIZE
    BY <2>2, <2>4
  <2> QED
    BY <2>1, <2>3, <2>5, <2>6, <2>7, <2>8
<1> HIDE DEF p, q
<1>2. 0 \in T
  BY <1>1
<1>3. ASSUME NEW m \in T PROVE m + 1 \in T
  <2> SUFFICES ASSUME m + 1 <= Len(t) PROVE p[n + (m + 1)] = p[n] + q[m + 1]
    OBVIOUS
  <2>1. /\ m <= Len(t) /\ m + 1 \in 1 .. Len(t) /\ m + 1 - 1 = m /\ m \in 0 .. Len(t)
        /\ n + (m + 1) - 1 = n + m
    BY <1>1
  <2>2. p[n + m] = p[n] + q[m]
    BY <2>1
  <2>3. /\ p[n + (m + 1)] = p[n + m] + EntryBytes(leaf, t[m + 1]) + 2
        /\ q[m + 1] = q[m] + EntryBytes(leaf, t[m + 1]) + 2
        /\ EntryBytes(leaf, t[m + 1]) \in Nat /\ q[m] \in Nat /\ p[n] \in Nat
    BY <1>1, <2>1 DEF LINP_SIZE
  <2> QED
    BY <2>2, <2>3
<1>4. T = Nat
  <2>1. T \in SUBSET Nat
    OBVIOUS
  <2> HIDE DEF T
  <2> QED
    BY <1>2, <1>3, <2>1, NatInd
<1>5. Len(t) \in T
  <2>1. Len(t) \in Nat
    BY <1>1
  <2> HIDE DEF T
  <2> QED
    BY <1>4, <2>1
<1>6. p[n + Len(t)] = p[n] + q[Len(t)]
  BY <1>1, <1>5
<1>7. p[Len(s)] = p[n] + q[Len(t)]
  BY <1>6
<1> QED
  BY <1>7 DEF Cost, p, q

\* t is s with one more entry, e, at place pos.
OneMore(t, s, pos, e) ==
  /\ pos \in 1 .. Len(s) + 1
  /\ Len(t) = Len(s) + 1
  /\ \A i \in 1 .. Len(t) :
       t[i] = IF i < pos THEN s[i] ELSE IF i = pos THEN e ELSE s[i - 1]

\* One more entry costs its size and a slot, whatever its place.
LEMMA CostOneMore ==
  ASSUME NEW leaf, NEW s, Sized(leaf, s), NEW t, Sized(leaf, t), NEW pos, NEW e,
         OneMore(t, s, pos, e)
  PROVE  /\ \A k \in 0 .. pos - 1 : PrefixCost(leaf, t)[k] = PrefixCost(leaf, s)[k]
         /\ \A k \in pos .. Len(t) :
              PrefixCost(leaf, t)[k] =
                PrefixCost(leaf, s)[k - 1] + EntryBytes(leaf, e) + LINP_SIZE
         /\ Cost(leaf, t) = Cost(leaf, s) + EntryBytes(leaf, e) + LINP_SIZE
<1> DEFINE p == PrefixCost(leaf, s)
           q == PrefixCost(leaf, t)
           T == {m \in Nat : pos + m <= Len(t) =>
                   q[pos + m] = p[pos + m - 1] + EntryBytes(leaf, e) + LINP_SIZE}
<1>0. Len(s) \in Nat /\ Len(t) = Len(s) + 1 /\ pos \in 1 .. Len(s) + 1
  BY DEF Sized, OneMore
<1>1. ASSUME NEW k \in 0 .. pos - 1 PROVE q[k] = p[k]
  <2> DEFINE n == pos - 1
  <2>1. n \in 0 .. Len(s) /\ n <= Len(t) /\ k \in 0 .. n
    BY <1>0
  <2>2. \A i \in 1 .. n : t[i] = s[i]
    BY <1>0 DEF OneMore
  <2> HIDE DEF n
  <2> QED
    BY <2>1, <2>2, CostSame
<1>2. /\ \A m \in 1 .. Len(s) : /\ p[m] = p[m - 1] + EntryBytes(leaf, s[m]) + LINP_SIZE
                              /\ EntryBytes(leaf, s[m]) \in Nat
      /\ \A m \in 1 .. Len(t) : /\ q[m] = q[m - 1] + EntryBytes(leaf, t[m]) + LINP_SIZE
      /\ \A m \in 0 .. Len(s) : p[m] \in Nat
      /\ EntryBytes(leaf, e) \in Nat
  <2>1. p \in [0 .. Len(s) -> Nat]
    BY CostFacts
  <2>2. t[pos] = e /\ pos \in 1 .. Len(t)
    BY <1>0 DEF OneMore
  <2> QED
    BY <2>1, <2>2, CostFacts DEF Sized
<1> HIDE DEF p, q
<1>3. 0 \in T
  <2>1. pos + 0 = pos /\ pos \in 1 .. Len(t) /\ pos - 1 \in 0 .. pos - 1 /\ t[pos] = e
    BY <1>0 DEF OneMore
  <2>2. q[pos] = q[pos - 1] + EntryBytes(leaf, e) + LINP_SIZE /\ q[pos - 1] = p[pos - 1]
    BY <1>1, <1>2, <2>1
  <2> QED
    BY <2>1, <2>2
<1>4. ASSUME NEW m \in T PROVE m + 1 \in T
  <2> DEFINE j == pos + m
  <2> SUFFICES ASSUME j + 1 <= Len(t)
               PROVE  q[j + 1] = p[j] + EntryBytes(leaf, e) + LINP_SIZE
    <3>1. pos + (m + 1) = j + 1 /\ j + 1 - 1 = j /\ m + 1 \in Nat
      BY <1>0
    <3> QED
      BY <3>1
  <2>1. q[j] = p[j - 1] + EntryBytes(leaf, e) + LINP_SIZE
    BY <1>0
  <2>2. /\ j \in Nat /\ j >= pos /\ j \in 1 .. Len(s) /\ j + 1 \in 1 .. Len(t)
        /\ j + 1 - 1 = j /\ j - 1 \in 0 .. Len(s)
    BY <1>0
  <2> HIDE DEF j
  <2>3. t[j + 1] = s[j]
    <3>1. ~ (j + 1 < pos) /\ j + 1 # pos
      BY <1>0, <2>2
    <3> QED
      BY <2>2, <3>1 DEF OneMore
  <2>4. /\ q[j + 1] = q[j] + EntryBytes(leaf, s[j]) + 2
        /\ p[j] = p[j - 1] + EntryBytes(leaf, s[j]) + 2
        /\ p[j - 1] \in Nat /\ EntryBytes(leaf, s[j]) \in Nat
    BY <1>2, <2>2, <2>3 DEF LINP_SIZE
  <2> QED
    BY <1>2, <2>1, <2>4 DEF LINP_SIZE
<1>5. T = Nat
  <2>1. T \in SUBSET Nat
    OBVIOUS
  <2> HIDE DEF T
  <2> QED
    BY <1>3, <1>4, <2>1, NatInd
<1>6. ASSUME NEW k \in pos .. Len(t)
      PROVE  q[k] = p[k - 1] + EntryBytes(leaf, e) + LINP_SIZE
  <2>1. k - pos \in T
    <3>1. k - pos \in Nat
      BY <1>0
    <3> HIDE DEF T
    <3> QED
      BY <1>5, <3>1
  <2>2. pos + (k - pos) = k /\ k <= Len(t) /\ pos + (k - pos) - 1 = k - 1
    BY <1>0
  <2> DEFINE m == k - pos
  <2>3. m \in T /\ pos + m = k /\ pos + m - 1 = k - 1 /\ k <= Len(t)
    BY <2>1, <2>2
  <2> HIDE DEF m
  <2>4. q[pos + m] = p[pos + m - 1] + EntryBytes(leaf, e) + LINP_SIZE
    BY <2>3
  <2> QED
    BY <2>3, <2>4
<1>7. Cost(leaf, t) = Cost(leaf, s) + EntryBytes(leaf, e) + LINP_SIZE
  <2>1. Len(t) \in pos .. Len(t) /\ Len(t) - 1 = Len(s)
    BY <1>0
  <2>2. q[Len(t)] = p[Len(s)] + EntryBytes(leaf, e) + LINP_SIZE
    BY <1>6, <2>1
  <2> QED
    BY <2>2 DEF Cost, p, q
<1> QED
  BY <1>1, <1>6, <1>7 DEF p, q

\* The page size less the header is a number.
LEMMA UsableFacts == Usable \in Nat
  BY PsizeAssumption DEF Usable, PAGE_HEADER_SIZE

\* What an entry list costs is a number, nothing when it is empty.
LEMMA CostNat ==
  ASSUME NEW leaf, NEW s, Sized(leaf, s)
  PROVE  Cost(leaf, s) \in Nat /\ (Len(s) = 0 => Cost(leaf, s) = 0)
<1>1. Len(s) \in 0 .. Len(s)
  BY DEF Sized
<1>2. PrefixCost(leaf, s) \in [0 .. Len(s) -> Nat] /\ PrefixCost(leaf, s)[0] = 0
  BY CostFacts
<1> QED
  BY <1>1, <1>2 DEF Cost

\* InsertAt adds one entry.
LEMMA InsertOneMore ==
  ASSUME NEW S, NEW ents \in Seq(S), NEW e \in S, NEW pos \in 1 .. Len(ents) + 1
  PROVE  OneMore(InsertAt(ents, pos, e), ents, pos, e)
  BY InsertAtFacts DEF OneMore

\* RemoveAt takes one away.
LEMMA RemoveOneMore ==
  ASSUME NEW S, NEW ents \in Seq(S), NEW pos \in 1 .. Len(ents)
  PROVE  OneMore(ents, RemoveAt(ents, pos), pos, ents[pos])
<1> DEFINE t == RemoveAt(ents, pos)
<1>1. /\ Len(ents) \in Nat /\ Len(t) = Len(ents) - 1
      /\ \A i \in 1 .. Len(ents) - 1 : t[i] = IF i < pos THEN ents[i] ELSE ents[i + 1]
  BY RemoveAtFacts
<1> HIDE DEF t
<1>2. pos \in 1 .. Len(t) + 1 /\ Len(ents) = Len(t) + 1
  BY <1>1
<1>3. ASSUME NEW i \in 1 .. Len(ents)
      PROVE  ents[i] = IF i < pos THEN t[i] ELSE IF i = pos THEN ents[pos] ELSE t[i - 1]
  <2>1. CASE i < pos
    <3>1. i \in 1 .. Len(ents) - 1
      BY <1>1, <2>1
    <3> QED
      BY <1>1, <2>1, <3>1
  <2>2. CASE i > pos
    <3>1. i - 1 \in 1 .. Len(ents) - 1 /\ ~ (i - 1 < pos) /\ i - 1 + 1 = i
          /\ ~ (i < pos) /\ i # pos
      BY <1>1, <2>2
    <3> QED
      BY <1>1, <3>1
  <2>3. CASE i = pos
    BY <1>1, <2>3
  <2> QED
    BY <1>1, <2>1, <2>2, <2>3
<1> QED
  BY <1>2, <1>3 DEF OneMore, t

\* s is l followed by r.
Parts(s, l, r) ==
  /\ Len(s) = Len(l) + Len(r)
  /\ \A i \in 1 .. Len(l) : l[i] = s[i]
  /\ \A i \in 1 .. Len(r) : r[i] = s[Len(l) + i]

\* A sequence cut in two.
LEMMA CutParts ==
  ASSUME NEW S, NEW s \in Seq(S), NEW n \in 0 .. Len(s)
  PROVE  /\ Parts(s, SubSeq(s, 1, n), SubSeq(s, n + 1, Len(s)))
         /\ SubSeq(s, 1, n) \in Seq(S) /\ SubSeq(s, n + 1, Len(s)) \in Seq(S)
         /\ Len(SubSeq(s, 1, n)) = n
<1> DEFINE l == SubSeq(s, 1, n)
           r == SubSeq(s, n + 1, Len(s))
<1>0. Len(s) \in Nat /\ n \in Nat /\ n <= Len(s)
  BY SeqFacts
<1>1. l \in Seq(S) /\ Len(l) = n /\ \A i \in 1 .. n : l[i] = s[i]
  <2>1. 1 \in Nat \ {0} /\ \A i \in 1 .. n : 1 + i - 1 = i
    BY <1>0
  <2> QED
    BY <1>0, <2>1, SubSeqFacts
<1>2. /\ r \in Seq(S) /\ Len(r) = Len(s) - n
      /\ \A i \in 1 .. Len(s) - n : r[i] = s[n + i]
  <2>1. /\ n + 1 \in Nat \ {0} /\ Len(s) \in 0 .. Len(s)
        /\ \A i \in 1 .. Len(s) - n : n + 1 + i - 1 = n + i
    BY <1>0
  <2>2. /\ r \in Seq(S) /\ Len(r) = IF n + 1 <= Len(s) THEN Len(s) - (n + 1) + 1 ELSE 0
        /\ \A i \in 1 .. Len(r) : r[i] = s[n + 1 + i - 1]
    BY <2>1, SubSeqFacts
  <2> HIDE DEF r
  <2>3. Len(r) = Len(s) - n
    BY <1>0, <2>2
  <2> QED
    BY <2>1, <2>2, <2>3
<1> HIDE DEF l, r
<1>3. Parts(s, l, r)
  <2>1. Len(s) = Len(l) + Len(r)
    BY <1>0, <1>1, <1>2
  <2> QED
    BY <1>1, <1>2, <2>1 DEF Parts
<1> QED
  BY <1>1, <1>2, <1>3 DEF l, r

\* Both halves together are the page's entries and the new one, cut where
\* psplit_loop stops.
LEMMA HalvesParts ==
  ASSUME NEW S, NEW ents \in Seq(S), NEW e \in S, NEW leaf,
         NEW pos \in 1 .. Len(ents) + 1, NEW h \in Halves(leaf, ents, pos, e)
  PROVE  /\ Parts(InsertAt(ents, pos, e), h.left, h.right)
         /\ h.left \in Seq(S) /\ h.right \in Seq(S)
         /\ Len(h.left) \in 0 .. Len(ents) /\ h.right # <<>>
         /\ SplitsAt(leaf, ents, pos, e, Len(h.left))
<1> DEFINE all == InsertAt(ents, pos, e)
<1>1. all \in Seq(S) /\ Len(all) = Len(ents) + 1 /\ Len(ents) \in Nat
  BY InsertAtFacts, SeqFacts
<1>2. PICK n \in 0 .. Len(ents) :
        /\ SplitsAt(leaf, ents, pos, e, n)
        /\ h = [left |-> SubSeq(all, 1, n), right |-> SubSeq(all, n + 1, Len(all))]
  BY DEF Halves
<1> HIDE DEF all
<1>3. h.left = SubSeq(all, 1, n) /\ h.right = SubSeq(all, n + 1, Len(all))
  BY <1>2
<1>4. n \in 0 .. Len(all)
  BY <1>1
<1>5. /\ Parts(all, h.left, h.right)
      /\ h.left \in Seq(S) /\ h.right \in Seq(S) /\ Len(h.left) = n
  BY <1>1, <1>3, <1>4, CutParts
<1>6. h.right # <<>>
  <2> DEFINE r == h.right
             l == h.left
  <2>1. Len(all) = Len(l) + Len(r) /\ Len(l) = n /\ r \in Seq(S)
    BY <1>5 DEF Parts
  <2> HIDE DEF l, r
  <2>2. Len(r) # 0
    BY <1>1, <2>1
  <2>3. r # <<>>
    BY <2>2
  <2> QED
    BY <2>3 DEF r
<1> QED
  BY <1>2, <1>5, <1>6 DEF all

\* A sequence cut in two costs what its parts cost.
LEMMA CostParts ==
  ASSUME NEW leaf, NEW s, Sized(leaf, s), NEW l, Sized(leaf, l), NEW r, Sized(leaf, r),
         Parts(s, l, r)
  PROVE  /\ Cost(leaf, l) = PrefixCost(leaf, s)[Len(l)]
         /\ Cost(leaf, s) = PrefixCost(leaf, s)[Len(l)] + Cost(leaf, r)
<1> DEFINE n == Len(l)
<1>1. /\ n \in Nat /\ Len(r) \in Nat /\ Len(s) \in Nat /\ Len(s) = n + Len(r)
      /\ n \in 0 .. Len(s) /\ n <= Len(l) /\ n \in 0 .. n
  BY DEF Sized, Parts
<1>2. /\ \A i \in 1 .. n : l[i] = s[i]
      /\ \A i \in 1 .. Len(r) : r[i] = s[n + i]
  BY DEF Parts
<1>3. Cost(leaf, l) = PrefixCost(leaf, l)[n]
  BY DEF Cost
<1> HIDE DEF n
<1>4. PrefixCost(leaf, l)[n] = PrefixCost(leaf, s)[n]
  BY <1>1, <1>2, CostSame
<1>5. Cost(leaf, s) = PrefixCost(leaf, s)[n] + Cost(leaf, r)
  BY <1>1, <1>2, CostTail
<1> QED
  BY <1>3, <1>4, <1>5 DEF n

\* The halves divide what the page and the new entry cost.  The left half is
\* within the page whenever the page was before; and when the page had no room
\* for the entry, a right half that fits leaves something to the left one.
LEMMA HalvesCost ==
  ASSUME NEW leaf, NEW S, NEW ents \in Seq(S), NEW e \in S,
         \A x \in S : EntryBytes(leaf, x) \in Nat,
         NEW pos \in 1 .. Len(ents) + 1, NEW h \in Halves(leaf, ents, pos, e)
  PROVE  /\ Fits(leaf, ents) => Fits(leaf, h.left)
         /\ ~ HasRoom(leaf, ents, e) /\ Fits(leaf, h.right) => h.left # <<>>
<1> DEFINE all == InsertAt(ents, pos, e)
           pre == PrefixCost(leaf, all)
           skip == pos - 1
           top == Len(ents)
           n == Len(h.left)
<1>0. top \in Nat /\ pos \in 1 .. top + 1
  BY SeqFacts
<1>1. all \in Seq(S) /\ Len(all) = top + 1
  BY InsertAtFacts
<1>2. OneMore(all, ents, pos, e)
  BY InsertOneMore
<1>3. /\ Parts(all, h.left, h.right)
      /\ h.left \in Seq(S) /\ h.right \in Seq(S)
      /\ n \in 0 .. top
      /\ SplitsAt(leaf, ents, pos, e, n)
  BY HalvesParts
<1>4. /\ Len(all) = n + Len(h.right)
      /\ \A i \in 1 .. n : h.left[i] = all[i]
      /\ \A i \in 1 .. Len(h.right) : h.right[i] = all[n + i]
  BY <1>3 DEF Parts
<1>9. IsSplit(pre, skip, top, Usable, n)
  BY <1>3 DEF SplitsAt
<1>10. /\ Sized(leaf, ents) /\ Sized(leaf, all)
       /\ Sized(leaf, h.left) /\ Sized(leaf, h.right)
  <2> HIDE DEF all, n
  <2>1. \A s \in Seq(S) : Sized(leaf, s)
    BY DEF Sized
  <2> QED
    BY <1>1, <1>3, <2>1
<1> HIDE DEF all, n
<1>11. Cost(leaf, h.left) = pre[n] /\ Cost(leaf, all) = pre[n] + Cost(leaf, h.right)
  BY <1>3, <1>10, CostParts DEF n
<1>13. Cost(leaf, all) = Cost(leaf, ents) + EntryBytes(leaf, e) + LINP_SIZE
  BY <1>2, <1>10, CostOneMore
<1>14. \A k \in 0 .. pos - 1 : pre[k] = PrefixCost(leaf, ents)[k]
  BY <1>2, <1>10, CostOneMore
<1>15. Usable \in Nat /\ EntryBytes(leaf, e) \in Nat /\ Cost(leaf, ents) \in Nat
       /\ Cost(leaf, h.right) \in Nat /\ Cost(leaf, h.left) \in Nat
  BY <1>10, UsableFacts, CostNat
<1>16. ASSUME Fits(leaf, ents) PROVE Fits(leaf, h.left)
  <2>1. CASE n = 0
    BY <1>10, <1>15, <2>1, CostNat DEF Fits, n
  <2>2. CASE n # 0 /\ pos <= n
    <3>1. n - 1 \in 0 .. n - 1 /\ skip <= n - 1 /\ n - 1 + 1 = n
      BY <1>0, <1>3, <2>2
    <3>2. ~ SplitStops(pre, skip, top, Usable, n - 1)
      BY <1>9, <3>1 DEF IsSplit
    <3>3. ~ (pre[n] >= Usable)
      BY <3>1, <3>2 DEF SplitStops
    <3> QED
      BY <1>11, <1>15, <3>3 DEF Fits
  <2>3. CASE n # 0 /\ n < pos
    <3>1. n \in 0 .. pos - 1 /\ n \in 0 .. Len(ents) /\ Len(ents) \in n .. Len(ents)
      BY <1>0, <1>3, <2>3
    <3>2. pre[n] = PrefixCost(leaf, ents)[n]
      BY <1>14, <3>1
    <3>3. PrefixCost(leaf, ents)[n] <= Cost(leaf, ents)
      BY <1>10, <3>1, CostGrows DEF Cost
    <3>4. Cost(leaf, ents) <= Usable
      BY <1>16 DEF Fits
    <3> QED
      BY <1>11, <1>15, <3>2, <3>3, <3>4 DEF Fits
  <2> QED
    BY <1>0, <1>3, <2>1, <2>2, <2>3
<1>17. ASSUME ~ HasRoom(leaf, ents, e), Fits(leaf, h.right) PROVE h.left # <<>>
  <2> SUFFICES ASSUME h.left = <<>> PROVE FALSE
    OBVIOUS
  <2>1. Cost(leaf, h.left) = 0
    BY <1>10, CostNat
  <2>2. Cost(leaf, h.right) <= Usable /\ Cost(leaf, h.right) = Cost(leaf, ents) + EntryBytes(leaf, e) + 2
    BY <1>11, <1>13, <1>15, <1>17, <2>1 DEF Fits, LINP_SIZE
  <2>3. ~ (Usable - Cost(leaf, ents) >= EntryBytes(leaf, e) + 2)
    BY <1>17 DEF HasRoom, FreeSpace, LINP_SIZE
  <2> QED
    BY <1>15, <2>2, <2>3
<1> QED
  BY <1>16, <1>17

-----------------------------------------------------------------------------
(* No page is ever overfull.                                               *)

\* put's second bound: a root with the zero-key entry has room for k.
RootTakes(k) ==
  SepBytes(k) + align_entry(ENTRY_HEADER_SIZE) + 2 * LINP_SIZE <= Usable

\* A page that fits, and whose keys a new root could take.
PageFits(leaf, s) ==
  Fits(leaf, s) /\ \A i \in DOMAIN s : RootTakes(s[i].key)

\* Every page of the arena fits.
ArenaFits(ps) == \A p \in DOMAIN ps : PageFits(ps[p].leaf, ps[p].ents)

\* The pages fit, and so would a root of the separator that is on its way.
FitInv == ArenaFits(pages) /\ (pc = "up" => RootTakes(sep.key))

\* Sizes of separators, and of the shortest one.
LEMMA SepBytesFacts ==
  ASSUME NEW k \in Strings
  PROVE  /\ SepBytes(k) \in Nat /\ SepBytes(0) = 12 /\ SepBytes(k) >= 12
         /\ align_entry(ENTRY_HEADER_SIZE) = 12
<1>1. KeyLen[k] \in Nat /\ KeyLen[0] = 0
  BY StringsAssumption
<1> DEFINE n == KeyLen[k]
<1>2. n \in Nat
  BY <1>1
<1> HIDE DEF n
<1>3. ((9 + n + 3) \div 4) * 4 \in Nat /\ ((9 + n + 3) \div 4) * 4 >= 12
  BY <1>2
<1>4. ((9 + 0 + 3) \div 4) * 4 = 12 /\ ((9 + 3) \div 4) * 4 = 12
  OBVIOUS
<1> QED
  BY <1>1, <1>3, <1>4 DEF SepBytes, align_entry, ENTRY_HEADER_SIZE, n

\* What is in a page that fits fits any root.
LEMMA RootTakesZero ==
  ASSUME NEW k \in Strings, RootTakes(k)
  PROVE  RootTakes(0)
<1>1. 0 \in Strings
  BY StringsAssumption
<1> QED
  BY <1>1, SepBytesFacts, UsableFacts DEF RootTakes, LINP_SIZE

\* Keys of a page and of one more entry.
LEMMA TakesFrom ==
  ASSUME NEW s, NEW ents, NEW e, From(s, ents, e), RootTakes(e.key),
         \A i \in DOMAIN ents : RootTakes(ents[i].key)
  PROVE  \A i \in DOMAIN s : RootTakes(s[i].key)
  BY DEF From

\* An entry put into a page with room for it.
LEMMA InsertFits ==
  ASSUME NEW leaf, NEW S, NEW ents \in Seq(S), NEW e \in S,
         \A x \in S : EntryBytes(leaf, x) \in Nat,
         NEW pos \in 1 .. Len(ents) + 1,
         HasRoom(leaf, ents, e), RootTakes(e.key), PageFits(leaf, ents)
  PROVE  PageFits(leaf, InsertAt(ents, pos, e))
<1> DEFINE all == InsertAt(ents, pos, e)
<1>1. all \in Seq(S) /\ From(all, ents, e) /\ OneMore(all, ents, pos, e)
  BY InsertAtFacts, InsertFrom, InsertOneMore
<1> HIDE DEF all
<1>2. \A s \in Seq(S) : Sized(leaf, s)
  BY DEF Sized
<1>3. Cost(leaf, all) = Cost(leaf, ents) + EntryBytes(leaf, e) + LINP_SIZE
  BY <1>1, <1>2, CostOneMore
<1>4. Cost(leaf, ents) \in Nat /\ EntryBytes(leaf, e) \in Nat /\ Usable \in Nat
  BY <1>2, CostNat, UsableFacts
<1>5. Fits(leaf, all)
  BY <1>3, <1>4 DEF HasRoom, FreeSpace, Fits, LINP_SIZE
<1>6. \A i \in DOMAIN all : RootTakes(all[i].key)
  BY <1>1, TakesFrom DEF PageFits
<1> QED
  BY <1>5, <1>6 DEF PageFits, all

\* A page that an entry was taken from.
LEMMA RemoveFits ==
  ASSUME NEW leaf, NEW S, NEW ents \in Seq(S),
         \A x \in S : EntryBytes(leaf, x) \in Nat,
         NEW pos \in 1 .. Len(ents), PageFits(leaf, ents)
  PROVE  PageFits(leaf, RemoveAt(ents, pos))
<1> DEFINE s == RemoveAt(ents, pos)
           e == ents[pos]
<1>1. /\ s \in Seq(S) /\ OneMore(ents, s, pos, e) /\ e \in S
      /\ Len(s) = Len(ents) - 1
      /\ \A i \in 1 .. Len(ents) - 1 : s[i] = IF i < pos THEN ents[i] ELSE ents[i + 1]
  BY RemoveAtFacts, RemoveOneMore
<1>0. DOMAIN ents = 1 .. Len(ents) /\ Len(ents) \in Nat /\ DOMAIN s = 1 .. Len(ents) - 1
  <2> HIDE DEF s
  <2> QED
    BY <1>1, SeqFacts
<1> HIDE DEF s, e
<1>2. \A t \in Seq(S) : Sized(leaf, t)
  BY DEF Sized
<1>3. Cost(leaf, ents) = Cost(leaf, s) + EntryBytes(leaf, e) + LINP_SIZE
  BY <1>1, <1>2, CostOneMore
<1>4. Cost(leaf, s) \in Nat /\ EntryBytes(leaf, e) \in Nat /\ Usable \in Nat
  BY <1>1, <1>2, CostNat, UsableFacts
<1>5. Fits(leaf, s)
  BY <1>3, <1>4 DEF PageFits, Fits, LINP_SIZE
<1>6. ASSUME NEW i \in DOMAIN s PROVE RootTakes(s[i].key)
  <2>1. i \in 1 .. Len(ents) /\ i + 1 \in 1 .. Len(ents)
    BY <1>0
  <2>2. s[i] = ents[i] \/ s[i] = ents[i + 1]
    BY <1>0, <1>1
  <2> QED
    BY <1>0, <2>1, <2>2 DEF PageFits
<1> QED
  BY <1>5, <1>6 DEF PageFits, s

\* The halves of a page that is split.
LEMMA HalvesFit ==
  ASSUME NEW leaf, NEW S, NEW ents \in Seq(S), NEW e \in S,
         \A x \in S : EntryBytes(leaf, x) \in Nat,
         NEW pos \in 1 .. Len(ents) + 1, NEW h \in Halves(leaf, ents, pos, e),
         RootTakes(e.key), PageFits(leaf, ents), Fits(leaf, h.right)
  PROVE  PageFits(leaf, h.left) /\ PageFits(leaf, h.right)
<1>1. Fits(leaf, h.left)
  BY HalvesCost DEF PageFits
<1>2. From(h.left, ents, e) /\ From(h.right, ents, e)
  BY HalvesFrom
<1>3. /\ \A i \in DOMAIN h.left : RootTakes(h.left[i].key)
      /\ \A i \in DOMAIN h.right : RootTakes(h.right[i].key)
  BY <1>2, TakesFrom DEF PageFits
<1> QED
  BY <1>1, <1>3 DEF PageFits

\* What one entry costs.
LEMMA CostOne ==
  ASSUME NEW leaf, NEW s, Sized(leaf, s), Len(s) = 1
  PROVE  Cost(leaf, s) = EntryBytes(leaf, s[1]) + LINP_SIZE
<1> DEFINE pre == PrefixCost(leaf, s)
<1>0. pre[0] = 0
  BY CostFacts
<1>1. \A i \in 1 .. Len(s) : pre[i] = pre[i - 1] + EntryBytes(leaf, s[i]) + LINP_SIZE
  BY CostFacts
<1>2. Cost(leaf, s) = pre[1]
  BY DEF Cost
<1>3. EntryBytes(leaf, s[1]) \in Nat
  BY DEF Sized
<1> HIDE DEF pre
<1>4. pre[1] = pre[1 - 1] + EntryBytes(leaf, s[1]) + LINP_SIZE
  BY <1>1
<1> QED
  BY <1>0, <1>2, <1>3, <1>4 DEF LINP_SIZE

\* The same for two entries.
LEMMA CostTwo ==
  ASSUME NEW leaf, NEW s, Sized(leaf, s), Len(s) = 2
  PROVE  Cost(leaf, s)
           = EntryBytes(leaf, s[1]) + LINP_SIZE + (EntryBytes(leaf, s[2]) + LINP_SIZE)
<1> DEFINE pre == PrefixCost(leaf, s)
<1>1. /\ pre[0] = 0
      /\ \A i \in 1 .. Len(s) : pre[i] = pre[i - 1] + EntryBytes(leaf, s[i]) + LINP_SIZE
  BY CostFacts
<1>2. Cost(leaf, s) = pre[2]
  BY DEF Cost
<1>3. EntryBytes(leaf, s[1]) \in Nat /\ EntryBytes(leaf, s[2]) \in Nat
  BY DEF Sized
<1> HIDE DEF pre
<1>4. pre[1] = pre[1 - 1] + EntryBytes(leaf, s[1]) + LINP_SIZE
  BY <1>1
<1>5. pre[2] = pre[2 - 1] + EntryBytes(leaf, s[2]) + LINP_SIZE
  BY <1>1
<1> QED
  BY <1>1, <1>2, <1>3, <1>4, <1>5 DEF LINP_SIZE

\* A page with one entry.
LEMMA OneFits ==
  ASSUME NEW leaf, NEW e, EntryBytes(leaf, e) \in Nat,
         EntryBytes(leaf, e) + LINP_SIZE <= Usable, RootTakes(e.key)
  PROVE  PageFits(leaf, <<e>>)
<1> DEFINE s == <<e>>
<1>1. Len(s) = 1 /\ s[1] = e /\ \A i \in DOMAIN s : s[i] = e
  OBVIOUS
<1> HIDE DEF s
<1>2. Sized(leaf, s)
  <2>1. \A i \in 1 .. 1 : i = 1
    OBVIOUS
  <2> QED
    BY <1>1, <2>1 DEF Sized
<1>3. Cost(leaf, s) = EntryBytes(leaf, e) + LINP_SIZE
  BY <1>1, <1>2, CostOne
<1> QED
  BY <1>1, <1>3 DEF PageFits, Fits, s

\* A root with its two first entries.
LEMMA TopFits ==
  ASSUME NEW leaf, leaf = FALSE, NEW k \in Strings, RootTakes(k), NEW s,
         Len(s) = 2, s[1].key = 0, s[2].key = k, DOMAIN s = 1 .. 2
  PROVE  PageFits(leaf, s)
<1>1. EntryBytes(leaf, s[1]) = SepBytes(0) /\ EntryBytes(leaf, s[2]) = SepBytes(k)
  BY DEF EntryBytes
<1>2. /\ SepBytes(0) = 12 /\ SepBytes(k) \in Nat /\ align_entry(ENTRY_HEADER_SIZE) = 12
      /\ RootTakes(0)
  BY SepBytesFacts, RootTakesZero
<1>3. \A i \in 1 .. 2 : i = 1 \/ i = 2
  OBVIOUS
<1>4. Sized(leaf, s)
  BY <1>1, <1>2, <1>3 DEF Sized
<1>5. Cost(leaf, s) = SepBytes(0) + LINP_SIZE + (SepBytes(k) + LINP_SIZE)
  BY <1>1, <1>4, CostTwo
<1>6. Fits(leaf, s)
  BY <1>2, <1>5, UsableFacts DEF Fits, RootTakes, LINP_SIZE
<1>7. \A i \in DOMAIN s : RootTakes(s[i].key)
  BY <1>2, <1>3
<1> QED
  BY <1>6, <1>7 DEF PageFits

\* new is ps with entries s in page p.
Changed(ps, new, p, s) ==
  /\ new \in Seq(AnyPage)
  /\ DOMAIN new = DOMAIN ps
  /\ \A q \in DOMAIN ps :
       /\ new[q].leaf = ps[q].leaf
       /\ new[q].ents = IF q = p THEN s ELSE ps[q].ents

\* The page number the next page pushed onto ps gets.
Fresh(ps) == Len(ps) + 1

\* new is ps with l in page p and r in a new page of the same type.
Divided(ps, new, p, l, r) ==
  /\ new \in Seq(AnyPage)
  /\ Fresh(ps) \notin DOMAIN ps
  /\ Fresh(ps) \in Nat
  /\ DOMAIN new = DOMAIN ps \cup {Fresh(ps)}
  /\ \A q \in DOMAIN ps :
       /\ new[q].leaf = ps[q].leaf
       /\ new[q].ents = IF q = p THEN l ELSE ps[q].ents
  /\ new[Fresh(ps)].leaf = ps[p].leaf
  /\ new[Fresh(ps)].ents = r

\* new is ps with l and r in new pages, and a root that refers to them.
Grown(ps, new, l, r) ==
  /\ new \in Seq(AnyPage)
  /\ Fresh(ps) \notin DOMAIN ps /\ Fresh(ps) + 1 \notin DOMAIN ps
  /\ Fresh(ps) \in Nat /\ Fresh(ps) + 1 \in Nat /\ Fresh(ps) # Fresh(ps) + 1
  /\ DOMAIN new = DOMAIN ps \cup {Fresh(ps), Fresh(ps) + 1}
  /\ \A q \in DOMAIN ps \ {P_ROOT} :
       new[q].leaf = ps[q].leaf /\ new[q].ents = ps[q].ents
  /\ new[P_ROOT].leaf = FALSE
  /\ DOMAIN new[P_ROOT].ents = 1 .. 2 /\ Len(new[P_ROOT].ents) = 2
  /\ new[P_ROOT].ents[1].key = 0 /\ new[P_ROOT].ents[1].child = Fresh(ps)
  /\ new[P_ROOT].ents[2].key = r[1].key /\ new[P_ROOT].ents[2].child = Fresh(ps) + 1
  /\ new[Fresh(ps)].leaf = ps[P_ROOT].leaf
  /\ new[Fresh(ps)].ents = l
  /\ new[Fresh(ps) + 1].leaf = ps[P_ROOT].leaf
  /\ new[Fresh(ps) + 1].ents = r

\* Replacing the entries of a page, told page by page.
LEMMA ViewSetEnts ==
  ASSUME NEW ps \in Seq(AnyPage), NEW p \in DOMAIN ps,
         NEW s \in Seq(EntryOf(ps[p].leaf))
  PROVE  Changed(ps, [ps EXCEPT ![p].ents = s], p, s)
<1> DEFINE new == [ps EXCEPT ![p].ents = s]
<1>1. new \in Seq(AnyPage)
  BY SetEntsFacts
<1>2. Len(new) = Len(ps)
  BY SetEntsFacts
<1>3. \A q \in 1 .. Len(ps) : new[q].leaf = ps[q].leaf
  BY SetEntsFacts
<1>4. \A q \in 1 .. Len(ps) : new[q].ents = IF q = p THEN s ELSE ps[q].ents
  BY SetEntsFacts
<1> HIDE DEF new
<1>5. DOMAIN new = 1 .. Len(ps) /\ DOMAIN ps = 1 .. Len(ps)
  BY <1>1, <1>2, SeqFacts
<1>6. Changed(ps, new, p, s)
  BY <1>1, <1>3, <1>4, <1>5 DEF Changed
<1> QED
  BY <1>6 DEF new

\* psplit, told page by page.
LEMMA ViewSplitPage ==
  ASSUME pages \in Seq(AnyPage), NEW p \in DOMAIN pages, NEW h,
         h.left \in Seq(EntryOf(pages[p].leaf)),
         h.right \in Seq(EntryOf(pages[p].leaf))
  PROVE  Divided(pages, SplitPage(p, h), p, h.left, h.right)
<1> DEFINE new == SplitPage(p, h)
           r == Len(pages) + 1
<1>1. new \in Seq(AnyPage)
  BY SplitPageFacts
<1>2. Len(new) = r
  BY SplitPageFacts
<1>3. \A q \in 1 .. Len(pages) : new[q].leaf = pages[q].leaf
  BY SplitPageFacts
<1>4. \A q \in 1 .. Len(pages) : new[q].ents = IF q = p THEN h.left ELSE pages[q].ents
  BY SplitPageFacts
<1>5. new[r].leaf = pages[p].leaf /\ new[r].ents = h.right
  BY SplitPageFacts
<1> HIDE DEF new
<1>6. /\ DOMAIN new = 1 .. r /\ DOMAIN pages = 1 .. Len(pages) /\ Len(pages) \in Nat
  BY <1>1, <1>2, SeqFacts
<1>7. r \in Nat /\ r \notin DOMAIN pages /\ DOMAIN new = DOMAIN pages \cup {r}
  BY <1>6
<1>8. r = Fresh(pages)
  BY DEF Fresh
<1> HIDE DEF r
<1>9. Divided(pages, new, p, h.left, h.right)
  BY <1>1, <1>3, <1>4, <1>5, <1>6, <1>7, <1>8 DEF Divided
<1> QED
  BY <1>9 DEF new

\* The append path, told page by page: the page keeps its entries.
LEMMA ViewAppendPage ==
  ASSUME pages \in Seq(AnyPage), NEW p \in DOMAIN pages,
         NEW e \in EntryOf(pages[p].leaf)
  PROVE  Divided(pages, AppendPage(p, e), p, pages[p].ents, <<e>>)
<1> DEFINE new == AppendPage(p, e)
           r == Len(pages) + 1
<1>1. new \in Seq(AnyPage)
  BY AppendPageFacts
<1>2. Len(new) = r
  BY AppendPageFacts
<1>3. \A q \in 1 .. Len(pages) : new[q].leaf = pages[q].leaf
  BY AppendPageFacts
<1>4. \A q \in 1 .. Len(pages) : new[q].ents = pages[q].ents
  BY AppendPageFacts
<1>5. new[r].leaf = pages[p].leaf /\ new[r].ents = <<e>>
  BY AppendPageFacts
<1> HIDE DEF new
<1>6. /\ DOMAIN new = 1 .. r /\ DOMAIN pages = 1 .. Len(pages) /\ Len(pages) \in Nat
  BY <1>1, <1>2, SeqFacts
<1>7. r \in Nat /\ r \notin DOMAIN pages /\ DOMAIN new = DOMAIN pages \cup {r}
  BY <1>6
<1>8. r = Fresh(pages)
  BY DEF Fresh
<1> DEFINE one == <<e>>
<1> HIDE DEF r, one
<1>9. Divided(pages, new, p, pages[p].ents, one)
  BY <1>1, <1>3, <1>4, <1>5, <1>6, <1>7, <1>8 DEF Divided, one
<1> QED
  BY <1>9 DEF new, one

\* A root that splits, told page by page.
LEMMA ViewGrowRoot ==
  ASSUME pages \in Seq(AnyPage), P_ROOT \in DOMAIN pages, NEW h,
         h.left \in Seq(EntryOf(pages[P_ROOT].leaf)),
         h.right \in Seq(EntryOf(pages[P_ROOT].leaf)),
         h.right[1].key \in Strings
  PROVE  Grown(pages, GrowRoot(h), h.left, h.right)
<1> DEFINE new == GrowRoot(h)
           l == Len(pages) + 1
           r == Len(pages) + 2
           a == [key |-> 0, child |-> l]
           b == [key |-> h.right[1].key, child |-> r]
<1>1. new \in Seq(AnyPage)
  BY GrowRootFacts
<1>2. Len(new) = r
  BY GrowRootFacts
<1>3. \A q \in 1 .. Len(pages) : new[q].leaf = (q # P_ROOT /\ pages[q].leaf)
  BY GrowRootFacts
<1>4. \A q \in 1 .. Len(pages) : q # P_ROOT => new[q].ents = pages[q].ents
  BY GrowRootFacts
<1>5. new[l].leaf = pages[P_ROOT].leaf /\ new[l].ents = h.left
  BY GrowRootFacts
<1>6. new[r].leaf = pages[P_ROOT].leaf /\ new[r].ents = h.right
  BY GrowRootFacts
<1>7. new[P_ROOT].ents = <<a, b>>
  BY GrowRootFacts
<1> HIDE DEF new
<1>8. /\ DOMAIN new = 1 .. r /\ DOMAIN pages = 1 .. Len(pages) /\ Len(pages) \in Nat
      /\ \A q \in DOMAIN pages : pages[q].leaf \in BOOLEAN
  BY <1>1, <1>2, SeqFacts, EntsFacts
<1>9. /\ l \in Nat /\ r \in Nat /\ l # r /\ l \notin DOMAIN pages /\ r \notin DOMAIN pages
      /\ DOMAIN new = DOMAIN pages \cup {l, r}
  <2>1. \A n \in Nat : 1 .. n + 2 = (1 .. n) \cup {n + 1, n + 2}
    OBVIOUS
  <2>2. l \in Nat /\ r \in Nat /\ l # r /\ l \notin DOMAIN pages /\ r \notin DOMAIN pages
    BY <1>8
  <2> QED
    BY <1>8, <2>1, <2>2
<1>10. l = Fresh(pages) /\ r = Fresh(pages) + 1
  BY <1>8 DEF Fresh
<1>11. /\ a.key = 0 /\ a.child = l /\ b.key = h.right[1].key /\ b.child = r
  OBVIOUS
<1> HIDE DEF a, b, l, r
<1>12. /\ DOMAIN new[P_ROOT].ents = 1 .. 2 /\ Len(new[P_ROOT].ents) = 2
       /\ new[P_ROOT].ents[1] = a /\ new[P_ROOT].ents[2] = b
  BY <1>7
<1>13. /\ new[P_ROOT].leaf = FALSE
       /\ \A q \in DOMAIN pages \ {P_ROOT} :
            new[q].leaf = pages[q].leaf /\ new[q].ents = pages[q].ents
  BY <1>3, <1>4, <1>8
<1>14. Grown(pages, new, h.left, h.right)
  BY <1>1, <1>5, <1>6, <1>9, <1>10, <1>11, <1>12, <1>13 DEF Grown
<1> QED
  BY <1>14 DEF new

\* What is known of the page a call has reached.
LEMMA ArenaFacts ==
  ASSUME IInv
  PROVE  /\ pages \in Seq(AnyPage) /\ P_ROOT \in DOMAIN pages
         /\ pc \in {"descend", "up"} => cur \in DOMAIN pages
  BY TypeFacts DEF IInv, CallInv, LeadsTo

\* Where a call has arrived at a leaf.
LEMMA LeafView ==
  ASSUME IInv, NEW op, AtLeaf(op)
  PROVE  /\ pages \in Seq(AnyPage) /\ P_ROOT \in DOMAIN pages
         /\ cur \in DOMAIN pages /\ pages[cur].leaf = TRUE
         /\ Ents = pages[cur].ents /\ Ents \in Seq(LeafEntry)
         /\ EntryOf(pages[cur].leaf) = LeafEntry
<1>1. PICK lv : CallInv(lv)
  BY DEF IInv
<1>2. TypeOK
  BY DEF IInv
<1>3. cur \in DOMAIN pages /\ pages[cur].leaf = TRUE /\ Ents \in Seq(LeafEntry)
  BY <1>1, <1>2, LeafFacts
<1> QED
  BY <1>2, <1>3, TypeFacts DEF Ents, EntryOf

\* The entry a put is to store.
LEMMA PutView ==
  ASSUME IInv, AtLeaf("put")
  PROVE  /\ NewLeafEntry \in LeafEntry /\ NewLeafEntry.key = job.key
         /\ job.key \in Strings /\ ~ TooLarge(job.key, job.val)
         /\ EntryBytes(TRUE, NewLeafEntry) + LINP_SIZE <= Usable
         /\ RootTakes(NewLeafEntry.key)
<1>1. TypeOK /\ \E lv : CallInv(lv)
  BY DEF IInv
<1>2. ~ TooLarge(job.key, job.val)
  BY <1>1 DEF CallInv, AtLeaf
<1>3. job.key \in Strings /\ job.val \in Values /\ NewLeafEntry \in LeafEntry
  BY <1>1, NewLeafEntryFacts
<1>4. NewLeafEntry.key = job.key /\ NewLeafEntry.val = job.val
  BY DEF NewLeafEntry
<1>5. LeafBytes(job.key, job.val) \in Nat /\ SepBytes(job.key) \in Nat
      /\ align_entry(ENTRY_HEADER_SIZE) \in Nat
  <2>1. NewLeafEntry \in EntryOf(TRUE) /\ TRUE \in BOOLEAN
    BY <1>3 DEF EntryOf
  <2>2. EntryBytes(TRUE, NewLeafEntry) \in Nat
    BY <2>1, SizeFacts
  <2>3. EntryBytes(TRUE, NewLeafEntry) = LeafBytes(job.key, job.val)
    BY <1>4 DEF EntryBytes
  <2>4. SepBytes(job.key) \in Nat /\ align_entry(ENTRY_HEADER_SIZE) = 12
    BY <1>3, SepBytesFacts
  <2>5. LeafBytes(job.key, job.val) \in Nat
    BY <2>2, <2>3, Zenon
  <2> QED
    BY <2>4, <2>5
<1>6. LeafBytes(job.key, job.val) + LINP_SIZE <= Usable
  BY <1>2, <1>5, UsableFacts DEF TooLarge, LINP_SIZE
<1>7. RootTakes(job.key)
  BY <1>2, <1>5, UsableFacts DEF TooLarge, LINP_SIZE, RootTakes
<1> QED
  BY <1>2, <1>3, <1>4, <1>6, <1>7 DEF EntryBytes

\* A deletion takes one entry out of the leaf.
LEMMA DelView ==
  ASSUME IInv, DelHit
  PROVE  \E i \in 1 .. Len(Ents) :
           /\ Ents[i].key = job.key
           /\ RemoveAt(Ents, i) \in Seq(LeafEntry)
           /\ Changed(pages, pages', cur, RemoveAt(Ents, i))
<1>1. AtLeaf("del")
  BY DEF DelHit
<1>2. PICK i \in DOMAIN Ents :
        /\ Ents[i].key = job.key
        /\ pages' = [pages EXCEPT ![cur].ents = RemoveAt(@, i)]
  BY DEF DelHit
<1>3. /\ pages \in Seq(AnyPage) /\ cur \in DOMAIN pages
      /\ Ents = pages[cur].ents /\ Ents \in Seq(LeafEntry)
      /\ EntryOf(pages[cur].leaf) = LeafEntry
  BY <1>1, LeafView
<1>4. i \in 1 .. Len(Ents)
  BY <1>3, SeqFacts
<1> DEFINE s == RemoveAt(Ents, i)
<1>5. s \in Seq(LeafEntry)
  BY <1>3, <1>4, RemoveAtFacts
<1>6. pages' = [pages EXCEPT ![cur].ents = s]
  BY <1>2, <1>3
<1> HIDE DEF s
<1>7. s \in Seq(EntryOf(pages[cur].leaf))
  BY <1>3, <1>5
<1>8. Changed(pages, pages', cur, s)
  BY <1>3, <1>6, <1>7, ViewSetEnts
<1> QED
  BY <1>2, <1>4, <1>5, <1>8 DEF s

\* A put with room for its entry inserts it.
LEMMA InsertView ==
  ASSUME IInv, InsertLeafEntry
  PROVE  \E pos \in 1 .. Len(Ents) + 1 :
           /\ IsLeafPos(Ents, job.key, pos)
           /\ InsertAt(Ents, pos, NewLeafEntry) \in Seq(LeafEntry)
           /\ Changed(pages, pages', cur, InsertAt(Ents, pos, NewLeafEntry))
<1>1. AtLeaf("put")
  BY DEF InsertLeafEntry
<1>2. PICK pos \in 1 .. Len(Ents) + 1 :
        /\ IsLeafPos(Ents, job.key, pos)
        /\ pages' = [pages EXCEPT ![cur].ents = InsertAt(@, pos, NewLeafEntry)]
  BY DEF InsertLeafEntry
<1>3. /\ pages \in Seq(AnyPage) /\ cur \in DOMAIN pages
      /\ Ents = pages[cur].ents /\ Ents \in Seq(LeafEntry)
      /\ EntryOf(pages[cur].leaf) = LeafEntry
  BY <1>1, LeafView
<1> DEFINE s == InsertAt(Ents, pos, NewLeafEntry)
<1>5. s \in Seq(LeafEntry)
  BY <1>1, <1>3, PutView, InsertAtFacts
<1>6. pages' = [pages EXCEPT ![cur].ents = s]
  BY <1>2, <1>3
<1> HIDE DEF s
<1>7. s \in Seq(EntryOf(pages[cur].leaf))
  BY <1>3, <1>5
<1>8. Changed(pages, pages', cur, s)
  BY <1>3, <1>6, <1>7, ViewSetEnts
<1> QED
  BY <1>2, <1>5, <1>8 DEF s

\* An entry at the end of a page is what bt_page's shortcut splits off.
LEMMA AppendParts ==
  ASSUME NEW S, NEW ents \in Seq(S), NEW e \in S, NEW pos, pos = Len(ents) + 1
  PROVE  Parts(InsertAt(ents, pos, e), ents, <<e>>)
<1> DEFINE t == <<e>>
           all == InsertAt(ents, pos, e)
<1>0. Len(ents) \in Nat /\ pos \in 1 .. Len(ents) + 1
  BY SeqFacts
<1>1. Len(t) = 1 /\ t[1] = e
  OBVIOUS
<1>6. OneMore(all, ents, pos, e)
  BY <1>0, InsertOneMore
<1> HIDE DEF t, all
<1>2. /\ Len(all) = Len(ents) + 1
      /\ \A i \in 1 .. Len(ents) + 1 :
           all[i] = IF i < pos THEN ents[i] ELSE IF i = pos THEN e ELSE ents[i - 1]
  BY <1>6 DEF OneMore
<1>3. Len(all) = Len(ents) + Len(t)
  BY <1>1, <1>2
<1>4. \A i \in 1 .. Len(ents) : ents[i] = all[i]
  BY <1>0, <1>2
<1>5. \A i \in 1 .. Len(t) : t[i] = all[Len(ents) + i]
  <2>1. \A i \in 1 .. 1 : i = 1
    OBVIOUS
  <2>2. all[Len(ents) + 1] = e
    BY <1>0, <1>2
  <2> QED
    BY <1>1, <2>1, <2>2
<1> QED
  BY <1>3, <1>4, <1>5 DEF Parts, t, all

\* Sizes of the entries of a leaf, of an internal page.
LEMMA EntrySizes ==
  /\ \A x \in LeafEntry : EntryBytes(TRUE, x) \in Nat
  /\ \A x \in SepEntry : EntryBytes(FALSE, x) \in Nat
<1>1. EntryOf(TRUE) = LeafEntry /\ EntryOf(FALSE) = SepEntry
  BY DEF EntryOf
<1>2. \A x \in EntryOf(TRUE) : EntryBytes(TRUE, x) \in Nat
  BY SizeFacts
<1>3. \A x \in EntryOf(FALSE) : EntryBytes(FALSE, x) \in Nat
  BY SizeFacts
<1> QED
  BY <1>1, <1>2, <1>3

\* l and r, neither of them empty, are what page p is split into when e comes
\* to place pos of its entries; and both fit if the page did.
Split(S, leaf, p, pos, e, l, r) ==
  /\ l \in Seq(S) /\ r \in Seq(S) /\ l # <<>> /\ r # <<>>
  /\ Parts(InsertAt(pages[p].ents, pos, e), l, r)
  /\ PageFits(leaf, pages[p].ents) => PageFits(leaf, l) /\ PageFits(leaf, r)

\* The outcome of psplit_loop is such a split.
LEMMA HalvesSplit ==
  ASSUME NEW leaf, NEW S, NEW p, pages[p].ents \in Seq(S), NEW e \in S,
         \A x \in S : EntryBytes(leaf, x) \in Nat,
         NEW pos \in 1 .. Len(pages[p].ents) + 1,
         NEW h \in Halves(leaf, pages[p].ents, pos, e),
         RootTakes(e.key), Fits(leaf, h.right), ~ HasRoom(leaf, pages[p].ents, e)
  PROVE  Split(S, leaf, p, pos, e, h.left, h.right)
<1> DEFINE ents == pages[p].ents
<1>0. ents \in Seq(S) /\ pos \in 1 .. Len(ents) + 1 /\ h \in Halves(leaf, ents, pos, e)
      /\ ~ HasRoom(leaf, ents, e)
  OBVIOUS
<1> HIDE DEF ents
<1>1. /\ h.left \in Seq(S) /\ h.right \in Seq(S)
      /\ Parts(InsertAt(ents, pos, e), h.left, h.right)
      /\ h.right # <<>>
  BY <1>0, HalvesParts
<1>3. h.left # <<>>
  BY <1>0, HalvesCost
<1>4. PageFits(leaf, ents) => PageFits(leaf, h.left) /\ PageFits(leaf, h.right)
  BY <1>0, HalvesFit
<1> QED
  BY <1>1, <1>3, <1>4 DEF Split, ents

\* So is what bt_page's shortcut makes of a page.
LEMMA AppendSplit ==
  ASSUME NEW leaf, NEW S, NEW p, pages[p].ents \in Seq(S), NEW e \in S,
         \A x \in S : EntryBytes(leaf, x) \in Nat,
         NEW pos, pos = Len(pages[p].ents) + 1, pages[p].ents # <<>>,
         RootTakes(e.key), EntryBytes(leaf, e) + LINP_SIZE <= Usable
  PROVE  Split(S, leaf, p, pos, e, pages[p].ents, <<e>>)
<1> DEFINE ents == pages[p].ents
           one == <<e>>
<1>1. one \in Seq(S) /\ one # <<>>
  OBVIOUS
<1>2. PageFits(leaf, one)
  BY OneFits
<1>3. Parts(InsertAt(ents, pos, e), ents, one)
  BY AppendParts
<1> HIDE DEF one
<1> QED
  BY <1>1, <1>2, <1>3 DEF Split, one

\* A leaf below the root that is split, by either of the two ways.
LEMMA LeafSplitView ==
  ASSUME IInv, NEW pos, SplitLeafSortedOpt(pos) \/ SplitLeafFull(pos)
  PROVE  /\ AtLeaf("put") /\ IsLeafPos(Ents, job.key, pos) /\ cur # P_ROOT
         /\ pos \in 1 .. Len(Ents) + 1
         /\ pc' = "up" /\ job' = job /\ cur' = cur /\ path' = path
         /\ \E l, r :
              /\ Split(LeafEntry, TRUE, cur, pos, NewLeafEntry, l, r)
              /\ Divided(pages, pages', cur, l, r)
              /\ sep' = [src |-> "leaf", key |-> r[1].key, child |-> Fresh(pages),
                         last |-> Last(l).key]
<1>1. /\ LeafFull(pos) /\ cur # P_ROOT
      /\ pc' = "up" /\ job' = job /\ cur' = cur /\ path' = path
  BY DEF SplitLeafSortedOpt, SplitLeafFull
<1>2. AtLeaf("put") /\ IsLeafPos(Ents, job.key, pos) /\ ~ HasRoom(TRUE, Ents, NewLeafEntry)
  BY <1>1 DEF LeafFull
<1>3. /\ pages \in Seq(AnyPage) /\ cur \in DOMAIN pages
      /\ Ents = pages[cur].ents /\ Ents \in Seq(LeafEntry)
      /\ EntryOf(pages[cur].leaf) = LeafEntry
  BY <1>2, LeafView
<1>4. /\ NewLeafEntry \in LeafEntry /\ RootTakes(NewLeafEntry.key)
      /\ EntryBytes(TRUE, NewLeafEntry) + LINP_SIZE <= Usable
      /\ NewLeafEntry.key = job.key
  BY <1>2, PutView
<1>5. pos \in 1 .. Len(Ents) + 1 /\ Ents # <<>>
  BY <1>1, LeafFullFacts DEF IInv
<1>6. NextFreePgno = Fresh(pages)
  BY DEF NextFreePgno, Fresh
<1>7. CASE SplitLeafSortedOpt(pos)
  <2>1. pos = Len(pages[cur].ents) + 1
    BY <1>7 DEF SplitLeafSortedOpt, IsSortedAppend
  <2>2. Split(LeafEntry, TRUE, cur, pos, NewLeafEntry, Ents, <<NewLeafEntry>>)
    BY <1>3, <1>4, <1>5, <2>1, EntrySizes, AppendSplit
  <2>3. Divided(pages, pages', cur, Ents, <<NewLeafEntry>>)
    <3>1. Divided(pages, AppendPage(cur, NewLeafEntry), cur, Ents, <<NewLeafEntry>>)
      BY <1>3, <1>4, ViewAppendPage
    <3> QED
      BY <1>7, <3>1 DEF SplitLeafSortedOpt
  <2>4. sep' = [src |-> "leaf", key |-> <<NewLeafEntry>>[1].key, child |-> Fresh(pages),
                last |-> Last(Ents).key]
    BY <1>4, <1>6, <1>7 DEF SplitLeafSortedOpt
  <2> QED
    BY <1>1, <1>2, <1>5, <2>2, <2>3, <2>4
<1>8. CASE SplitLeafFull(pos)
  <2>1. PICK h \in LeafHalves(pos) :
          /\ Fits(TRUE, h.right)
          /\ pages' = SplitPage(cur, h)
          /\ sep' = [src |-> "leaf", key |-> h.right[1].key,
                     child |-> NextFreePgno, last |-> Last(h.left).key]
    BY <1>8 DEF SplitLeafFull
  <2>2. h \in Halves(TRUE, pages[cur].ents, pos, NewLeafEntry)
    BY <1>3 DEF LeafHalves
  <2>3. Split(LeafEntry, TRUE, cur, pos, NewLeafEntry, h.left, h.right)
    BY <1>2, <1>3, <1>4, <1>5, <2>1, <2>2, EntrySizes, HalvesSplit
  <2>4. h.left \in Seq(LeafEntry) /\ h.right \in Seq(LeafEntry)
    BY <2>3 DEF Split
  <2>5. Divided(pages, pages', cur, h.left, h.right)
    BY <1>3, <2>1, <2>4, ViewSplitPage
  <2> QED
    BY <1>1, <1>2, <1>5, <1>6, <2>1, <2>3, <2>5
<1> QED
  BY <1>7, <1>8

\* The separator on its way up: what it becomes takes no more than it would
\* whole.
LEMMA SepView ==
  ASSUME sep \in LeafSep \cup InternalSep, RootTakes(sep.key), NEW prev, NEW pos
  PROVE  RootTakes(EncodedKey(sep, prev, pos))
<1>1. sep.key \in Strings
  BY DEF LeafSep, InternalSep
<1> DEFINE k == EncodedKey(sep, prev, pos)
<1>2. \/ k = sep.key
      \/ sep.src = "leaf" /\ k = Pfx[sep.last][sep.key] /\ SepBytes(k) < SepBytes(sep.key)
  BY DEF EncodedKey
<1>3. CASE k = sep.key
  BY <1>3
<1>4. CASE sep.src = "leaf" /\ k = Pfx[sep.last][sep.key] /\ SepBytes(k) < SepBytes(sep.key)
  <2>1. sep.last \in Strings
    BY <1>4 DEF LeafSep, InternalSep
  <2>2. k \in Strings
    BY <1>1, <1>4, <2>1, PfxAssumption
  <2> HIDE DEF k
  <2>3. SepBytes(k) < SepBytes(sep.key)
    BY <1>4
  <2>4. SepBytes(k) \in Nat /\ SepBytes(sep.key) \in Nat
        /\ align_entry(ENTRY_HEADER_SIZE) = 12
    BY <1>1, <2>2, SepBytesFacts
  <2> QED
    BY <2>3, <2>4, UsableFacts DEF RootTakes, LINP_SIZE, k
<1> QED
  BY <1>2, <1>3, <1>4

\* The page a separator goes to, and what it becomes there.
LEMMA ParentView ==
  ASSUME IInv, GoingUp
  PROVE  /\ pages \in Seq(AnyPage) /\ P_ROOT \in DOMAIN pages
         /\ Parent \in DOMAIN pages /\ pages[Parent].leaf = FALSE
         /\ ParentEnts = pages[Parent].ents /\ ParentEnts \in Seq(SepEntry)
         /\ EntryOf(pages[Parent].leaf) = SepEntry
         /\ SepSlot \in 1 .. Len(ParentEnts) + 1
         /\ SepSlot - 1 \in DOMAIN ParentEnts /\ ParentEnts # <<>>
         /\ ParentEnts[SepSlot - 1].child = cur
         /\ NewSepEntry \in SepEntry /\ NewSepEntry.child = sep.child
         /\ NewSepEntry.key = EncodedKey(sep, pages[Parent].prev, SepSlot)
         /\ sep \in LeafSep \cup InternalSep
         /\ RootTakes(sep.key) => RootTakes(NewSepEntry.key)
<1>1. PICK lv : Leveled(pages, lv) /\ CallInv(lv)
  BY DEF IInv
<1>2. TypeOK
  BY DEF IInv
<1>3. /\ Parent \in DOMAIN pages
      /\ pages[Parent].leaf = FALSE
      /\ ParentEnts = pages[Parent].ents
      /\ ParentEnts \in Seq(SepEntry)
      /\ EntryOf(pages[Parent].leaf) = SepEntry
      /\ SepSlot \in 1 .. Len(ParentEnts) + 1
      /\ NewSepEntry \in SepEntry
  BY <1>1, <1>2, ParentFacts
<1>4. LeadsTo(pages, lv, path, cur) /\ path # <<>> /\ sep # NoSep
  BY <1>1 DEF GoingUp, CallInv
<1>5. /\ Last(path).slot \in DOMAIN ParentEnts
      /\ ParentEnts[Last(path).slot].child = cur
  <2>1. path \in Seq(Hop)
    BY <1>2, TypeFacts
  <2>3. Len(path) \in Nat \ {0} /\ Last(path) = path[Len(path)]
    BY <1>4, <2>1, FrontLastFacts
  <2>2. Len(path) \in DOMAIN path /\ Last(path) = path[Len(path)]
    BY <2>1, <2>3, SeqFacts
  <2> QED
    BY <1>3, <1>4, <2>2 DEF LeadsTo, Parent
<1>6. SepSlot - 1 = Last(path).slot
  <2>1. Last(path).slot \in Nat
    BY <1>3, <1>5, SeqFacts
  <2> QED
    BY <2>1 DEF SepSlot
<1>7. ParentEnts # <<>>
  BY <1>5
<1>8. sep \in LeafSep \cup InternalSep
  BY <1>2, <1>4 DEF TypeOK
<1>9. /\ NewSepEntry.child = sep.child
      /\ NewSepEntry.key = EncodedKey(sep, pages[Parent].prev, SepSlot)
  BY DEF NewSepEntry
<1> QED
  BY <1>2, <1>3, <1>5, <1>6, <1>7, <1>8, <1>9, TypeFacts, SepView

\* What a separator that a root could take takes of a page.
LEMMA SepTakes ==
  ASSUME NEW e \in SepEntry, RootTakes(e.key)
  PROVE  EntryBytes(FALSE, e) + LINP_SIZE <= Usable
<1>1. e.key \in Strings
  BY DEF SepEntry
<1>2. SepBytes(e.key) \in Nat /\ align_entry(ENTRY_HEADER_SIZE) = 12
  BY <1>1, SepBytesFacts
<1>3. SepBytes(e.key) + LINP_SIZE <= Usable
  BY <1>2, UsableFacts DEF RootTakes, LINP_SIZE
<1> QED
  BY <1>3 DEF EntryBytes

\* A separator placed in a page with room for it.
LEMMA PlaceView ==
  ASSUME IInv, InsertInternalInPlace
  PROVE  /\ InsertAt(ParentEnts, SepSlot, NewSepEntry) \in Seq(SepEntry)
         /\ Changed(pages, pages', Parent, InsertAt(ParentEnts, SepSlot, NewSepEntry))
<1>1. GoingUp
  BY DEF InsertInternalInPlace
<1>2. /\ pages \in Seq(AnyPage) /\ Parent \in DOMAIN pages
      /\ ParentEnts = pages[Parent].ents /\ ParentEnts \in Seq(SepEntry)
      /\ EntryOf(pages[Parent].leaf) = SepEntry
      /\ SepSlot \in 1 .. Len(ParentEnts) + 1 /\ NewSepEntry \in SepEntry
  BY <1>1, ParentView
<1> DEFINE s == InsertAt(ParentEnts, SepSlot, NewSepEntry)
<1>3. s \in Seq(SepEntry)
  BY <1>2, InsertAtFacts
<1>4. pages' = [pages EXCEPT ![Parent].ents = s]
  BY <1>2 DEF InsertInternalInPlace
<1> DEFINE p == Parent
<1> HIDE DEF s, p
<1>5. /\ pages \in Seq(AnyPage) /\ p \in DOMAIN pages
      /\ s \in Seq(EntryOf(pages[p].leaf)) /\ pages' = [pages EXCEPT ![p].ents = s]
  BY <1>2, <1>3, <1>4 DEF p
<1>6. Changed(pages, pages', p, s)
  BY <1>5, ViewSetEnts
<1> QED
  BY <1>3, <1>6 DEF s, p

\* An internal page below the root that is split, by either of the two ways.
LEMMA ParentSplitView ==
  ASSUME IInv, SplitInternalSortedOpt \/ SplitInternalPage, RootTakes(sep.key)
  PROVE  /\ GoingUp /\ Parent # P_ROOT
         /\ \E l, r : /\ Split(SepEntry, FALSE, Parent, SepSlot, NewSepEntry, l, r)
                     /\ Divided(pages, pages', Parent, l, r)
                     /\ Ascend(r[1].key)
<1>1. GoingUp /\ Parent # P_ROOT /\ ~ HasRoom(FALSE, ParentEnts, NewSepEntry)
  BY DEF SplitInternalSortedOpt, SplitInternalPage, ParentFull
<1>2. /\ pages \in Seq(AnyPage) /\ Parent \in DOMAIN pages
      /\ ParentEnts = pages[Parent].ents /\ ParentEnts \in Seq(SepEntry)
      /\ EntryOf(pages[Parent].leaf) = SepEntry
      /\ SepSlot \in 1 .. Len(ParentEnts) + 1 /\ NewSepEntry \in SepEntry
      /\ ParentEnts # <<>> /\ RootTakes(NewSepEntry.key)
  BY <1>1, ParentView
<1>3. CASE SplitInternalSortedOpt
  <2> DEFINE e == NewSepEntry
             pos == SepSlot
             p == Parent
             ents == ParentEnts
  <2>1. /\ pos = Len(pages[p].ents) + 1 /\ pages' = AppendPage(p, e) /\ Ascend(e.key)
    BY <1>3 DEF SplitInternalSortedOpt, IsSortedAppend
  <2>2. EntryBytes(FALSE, e) + LINP_SIZE <= Usable
    BY <1>2, SepTakes
  <2>3. /\ pages \in Seq(AnyPage) /\ p \in DOMAIN pages
        /\ ents = pages[p].ents /\ ents \in Seq(SepEntry) /\ ents # <<>>
        /\ e \in SepEntry /\ e \in EntryOf(pages[p].leaf) /\ RootTakes(e.key)
        /\ \A x \in SepEntry : EntryBytes(FALSE, x) \in Nat
    BY <1>2, EntrySizes
  <2>5. p = Parent /\ e = NewSepEntry /\ pos = SepSlot
    OBVIOUS
  <2> HIDE DEF e, pos, p, ents
  <2>6. Split(SepEntry, FALSE, p, pos, e, ents, <<e>>)
    BY <2>1, <2>2, <2>3, AppendSplit
  <2>7. Divided(pages, pages', p, ents, <<e>>)
    BY <2>1, <2>3, ViewAppendPage
  <2>8. Ascend(<<e>>[1].key)
    BY <2>1
  <2> QED
    BY <1>1, <2>5, <2>6, <2>7, <2>8
<1>4. CASE SplitInternalPage
  <2>1. PICK h \in ParentHalves :
          Fits(FALSE, h.right) /\ pages' = SplitPage(Parent, h) /\ Ascend(h.right[1].key)
    BY <1>4 DEF SplitInternalPage
  <2> DEFINE e == NewSepEntry
             pos == SepSlot
             p == Parent
             ents == ParentEnts
  <2>2. /\ h \in Halves(FALSE, pages[p].ents, pos, e)
        /\ pos \in 1 .. Len(pages[p].ents) + 1
        /\ ~ HasRoom(FALSE, pages[p].ents, e)
    BY <1>1, <1>2 DEF ParentHalves
  <2>3. /\ pages \in Seq(AnyPage) /\ p \in DOMAIN pages
        /\ pages[p].ents \in Seq(SepEntry)
        /\ EntryOf(pages[p].leaf) = SepEntry
        /\ e \in SepEntry /\ RootTakes(e.key)
        /\ \A x \in SepEntry : EntryBytes(FALSE, x) \in Nat
    BY <1>2, EntrySizes
  <2>4. pages' = SplitPage(p, h) /\ Ascend(h.right[1].key)
    BY <2>1
  <2>5. p = Parent /\ e = NewSepEntry /\ pos = SepSlot
    OBVIOUS
  <2> HIDE DEF e, pos, p, ents
  <2>6. Split(SepEntry, FALSE, p, pos, e, h.left, h.right)
    BY <2>1, <2>2, <2>3, HalvesSplit
  <2>7. h.left \in Seq(EntryOf(pages[p].leaf)) /\ h.right \in Seq(EntryOf(pages[p].leaf))
    BY <2>3, <2>6 DEF Split
  <2>8. Divided(pages, pages', p, h.left, h.right)
    BY <2>3, <2>4, <2>7, ViewSplitPage
  <2> QED
    BY <1>1, <2>4, <2>5, <2>6, <2>8
<1> QED
  BY <1>3, <1>4

\* A root that is split, leaf or internal page.
LEMMA RootSplitView ==
  ASSUME IInv, NEW leaf, NEW S, S = EntryOf(pages[P_ROOT].leaf),
         \A x \in S : EntryBytes(leaf, x) \in Nat,
         NEW e \in S, RootTakes(e.key), ~ HasRoom(leaf, pages[P_ROOT].ents, e),
         NEW pos \in 1 .. Len(pages[P_ROOT].ents) + 1,
         NEW h \in Halves(leaf, pages[P_ROOT].ents, pos, e),
         Fits(leaf, h.right), pages' = GrowRoot(h)
  PROVE  \E l, r : /\ Split(S, leaf, P_ROOT, pos, e, l, r)
                  /\ Grown(pages, pages', l, r)
<1>1. pages \in Seq(AnyPage) /\ P_ROOT \in DOMAIN pages
  BY ArenaFacts
<1>2. pages[P_ROOT].ents \in Seq(S)
  BY <1>1, EntsFacts
<1>3. Split(S, leaf, P_ROOT, pos, e, h.left, h.right)
  BY <1>2, HalvesSplit
<1>4. h.left \in Seq(S) /\ h.right \in Seq(S) /\ h.right # <<>>
  BY <1>3 DEF Split
<1>5. h.right[1].key \in Strings
  <2>1. h.right[1] \in S
    BY <1>4
  <2> QED
    BY <2>1, KeyOfEntry
<1>6. Grown(pages, pages', h.left, h.right)
  BY <1>1, <1>4, <1>5, ViewGrowRoot
<1> QED
  BY <1>3, <1>6

\* The arena fits after each of its changes.
LEMMA ChangedFits ==
  ASSUME NEW ps, ArenaFits(ps), NEW new, NEW p, NEW s, Changed(ps, new, p, s),
         p \in DOMAIN ps => PageFits(ps[p].leaf, s)
  PROVE  ArenaFits(new)
  BY DEF ArenaFits, Changed

\* When both halves fit, so does every page.
LEMMA DividedFits ==
  ASSUME NEW ps, ArenaFits(ps), NEW new, NEW p \in DOMAIN ps, NEW l, NEW r,
         Divided(ps, new, p, l, r),
         PageFits(ps[p].leaf, l), PageFits(ps[p].leaf, r)
  PROVE  ArenaFits(new)
  BY DEF ArenaFits, Divided

\* When both halves fit, so does every page, the new root among them.
LEMMA GrownFits ==
  ASSUME NEW ps, ArenaFits(ps), NEW new, NEW l, NEW r, P_ROOT \in DOMAIN ps,
         Grown(ps, new, l, r), r # <<>>, r \in Seq(EntryOf(ps[P_ROOT].leaf)),
         PageFits(ps[P_ROOT].leaf, l), PageFits(ps[P_ROOT].leaf, r)
  PROVE  ArenaFits(new)
<1>1. 1 \in DOMAIN r /\ r[1].key \in Strings
  <2> DEFINE S == EntryOf(ps[P_ROOT].leaf)
  <2>1. \A x \in S : x.key \in Strings
    BY KeyOfEntry
  <2> HIDE DEF S
  <2>2. r \in Seq(S) /\ r # <<>>
    BY DEF S
  <2>3. 1 \in DOMAIN r /\ r[1] \in S
    BY <2>2
  <2> QED
    BY <2>1, <2>3
<1>2. RootTakes(r[1].key)
  BY <1>1 DEF PageFits
<1>3. PageFits(new[P_ROOT].leaf, new[P_ROOT].ents)
  <2> DEFINE s == new[P_ROOT].ents
             k == r[1].key
  <2>1. /\ Len(s) = 2 /\ DOMAIN s = 1 .. 2 /\ s[1].key = 0 /\ s[2].key = k
        /\ new[P_ROOT].leaf = FALSE /\ k \in Strings /\ RootTakes(k)
    BY <1>1, <1>2 DEF Grown
  <2> HIDE DEF s, k
  <2>2. PageFits(new[P_ROOT].leaf, s)
    BY <2>1, TopFits
  <2> QED
    BY <2>2 DEF s
<1>4. \A q \in DOMAIN new :
        \/ q = P_ROOT \/ q = Fresh(ps) \/ q = Fresh(ps) + 1
        \/ q \in DOMAIN ps \ {P_ROOT}
  BY DEF Grown
<1> QED
  BY <1>3, <1>4 DEF ArenaFits, Grown

\* A call that ends, or goes on, with an arena that fits.
LEMMA EndsFit ==
  ASSUME NEW r, Return(r), ArenaFits(pages')
  PROVE  FitInv'
  BY DEF Return, FitInv

\* The keys of the right part of a split fit a root.
LEMMA RightTakes ==
  ASSUME NEW S, NEW leaf, NEW p, NEW pos, NEW e, NEW l, NEW r,
         Split(S, leaf, p, pos, e, l, r), PageFits(leaf, pages[p].ents)
  PROVE  PageFits(leaf, l) /\ PageFits(leaf, r) /\ RootTakes(r[1].key)
<1>1. PageFits(leaf, l) /\ PageFits(leaf, r) /\ r \in Seq(S) /\ r # <<>>
  BY DEF Split
<1>2. 1 \in DOMAIN r
  BY <1>1
<1> QED
  BY <1>1, <1>2 DEF PageFits

\* An insertion into a leaf.
LEMMA InsertLeafFits ==
  ASSUME IInv, FitInv, InsertLeafEntry
  PROVE  FitInv'
<1>1. AtLeaf("put") /\ HasRoom(TRUE, Ents, NewLeafEntry) /\ Return("true")
  BY DEF InsertLeafEntry
<1>2. PICK pos \in 1 .. Len(Ents) + 1 :
        Changed(pages, pages', cur, InsertAt(Ents, pos, NewLeafEntry))
  BY InsertView
<1>3. /\ cur \in DOMAIN pages /\ pages[cur].leaf = TRUE
      /\ Ents = pages[cur].ents /\ Ents \in Seq(LeafEntry)
  BY <1>1, LeafView
<1>4. NewLeafEntry \in LeafEntry /\ RootTakes(NewLeafEntry.key)
  BY <1>1, PutView
<1>5. PageFits(TRUE, Ents)
  BY <1>3 DEF FitInv, ArenaFits
<1>6. PageFits(TRUE, InsertAt(Ents, pos, NewLeafEntry))
  BY <1>1, <1>3, <1>4, <1>5, EntrySizes, InsertFits
<1>7. ArenaFits(pages')
  BY <1>2, <1>3, <1>6, ChangedFits DEF FitInv
<1> QED
  BY <1>1, <1>7, EndsFit

\* A deletion.
LEMMA DelHitFits ==
  ASSUME IInv, FitInv, DelHit
  PROVE  FitInv'
<1>1. AtLeaf("del") /\ Return("true")
  BY DEF DelHit
<1>2. PICK i \in 1 .. Len(Ents) : Changed(pages, pages', cur, RemoveAt(Ents, i))
  BY DelView
<1>3. /\ cur \in DOMAIN pages /\ pages[cur].leaf = TRUE
      /\ Ents = pages[cur].ents /\ Ents \in Seq(LeafEntry)
  BY <1>1, LeafView
<1>4. PageFits(TRUE, Ents)
  BY <1>3 DEF FitInv, ArenaFits
<1>5. PageFits(TRUE, RemoveAt(Ents, i))
  BY <1>3, <1>4, EntrySizes, RemoveFits
<1>6. ArenaFits(pages')
  BY <1>2, <1>3, <1>5, ChangedFits DEF FitInv
<1> QED
  BY <1>1, <1>6, EndsFit

\* A leaf below the root that is split.
LEMMA LeafSplitFits ==
  ASSUME IInv, FitInv, NEW pos, SplitLeafSortedOpt(pos) \/ SplitLeafFull(pos)
  PROVE  FitInv'
<1>1. AtLeaf("put")
  BY LeafSplitView
<1>2. PICK l, r :
        /\ Split(LeafEntry, TRUE, cur, pos, NewLeafEntry, l, r)
        /\ Divided(pages, pages', cur, l, r)
        /\ sep' = [src |-> "leaf", key |-> r[1].key, child |-> Fresh(pages),
                   last |-> Last(l).key]
  BY LeafSplitView
<1>3. /\ cur \in DOMAIN pages /\ pages[cur].leaf = TRUE
      /\ Ents = pages[cur].ents /\ Ents \in Seq(LeafEntry)
  BY <1>1, LeafView
<1>4. PageFits(TRUE, pages[cur].ents)
  BY <1>3 DEF FitInv, ArenaFits
<1>5. PageFits(TRUE, l) /\ PageFits(TRUE, r) /\ RootTakes(r[1].key)
  BY <1>2, <1>4, RightTakes
<1>6. ArenaFits(pages')
  BY <1>2, <1>3, <1>5, DividedFits DEF FitInv
<1>7. RootTakes(sep'.key)
  BY <1>2, <1>5
<1> QED
  BY <1>6, <1>7 DEF FitInv

\* A root that is split.
LEMMA RootSplitFits ==
  ASSUME IInv, FitInv, NEW leaf, leaf = pages[P_ROOT].leaf, NEW pos, NEW e, NEW l, NEW r,
         Split(EntryOf(leaf), leaf, P_ROOT, pos, e, l, r), Grown(pages, pages', l, r),
         Return("true")
  PROVE  FitInv'
<1>1. P_ROOT \in DOMAIN pages
  BY ArenaFacts
<1>2. PageFits(leaf, pages[P_ROOT].ents)
  BY <1>1 DEF FitInv, ArenaFits
<1>3. PageFits(leaf, l) /\ PageFits(leaf, r)
  BY <1>2, RightTakes
<1>4. r # <<>> /\ r \in Seq(EntryOf(pages[P_ROOT].leaf))
  BY DEF Split
<1>5. ArenaFits(pages')
  BY <1>1, <1>3, <1>4, GrownFits DEF FitInv
<1> QED
  BY <1>5, EndsFit

\* A separator placed in a page with room for it.
LEMMA PlaceFits ==
  ASSUME IInv, FitInv, InsertInternalInPlace
  PROVE  FitInv'
<1>1. GoingUp /\ HasRoom(FALSE, ParentEnts, NewSepEntry) /\ Return("true")
  BY DEF InsertInternalInPlace
<1>2. /\ Parent \in DOMAIN pages /\ pages[Parent].leaf = FALSE
      /\ ParentEnts = pages[Parent].ents /\ ParentEnts \in Seq(SepEntry)
      /\ SepSlot \in 1 .. Len(ParentEnts) + 1 /\ NewSepEntry \in SepEntry
      /\ RootTakes(NewSepEntry.key)
  BY <1>1, ParentView DEF FitInv, GoingUp
<1>3. PageFits(FALSE, ParentEnts)
  BY <1>2 DEF FitInv, ArenaFits
<1>4. PageFits(FALSE, InsertAt(ParentEnts, SepSlot, NewSepEntry))
  <2> DEFINE e == NewSepEntry
             pos == SepSlot
             ents == ParentEnts
  <2>1. /\ ents \in Seq(SepEntry) /\ pos \in 1 .. Len(ents) + 1 /\ e \in SepEntry
        /\ RootTakes(e.key) /\ HasRoom(FALSE, ents, e) /\ PageFits(FALSE, ents)
    BY <1>1, <1>2, <1>3
  <2> HIDE DEF e, pos, ents
  <2>2. PageFits(FALSE, InsertAt(ents, pos, e))
    BY <2>1, EntrySizes, InsertFits
  <2> QED
    BY <2>2 DEF e, pos, ents
<1>5. Changed(pages, pages', Parent, InsertAt(ParentEnts, SepSlot, NewSepEntry))
  BY PlaceView
<1>6. ArenaFits(pages')
  BY <1>2, <1>4, <1>5, ChangedFits DEF FitInv
<1> QED
  BY <1>1, <1>6, EndsFit

\* An internal page below the root that is split.
LEMMA ParentSplitFits ==
  ASSUME IInv, FitInv, SplitInternalSortedOpt \/ SplitInternalPage
  PROVE  FitInv'
<1>1. GoingUp
  BY DEF SplitInternalSortedOpt, SplitInternalPage, ParentFull
<1>2. RootTakes(sep.key)
  BY <1>1 DEF FitInv, GoingUp
<1>3. PICK l, r : /\ Split(SepEntry, FALSE, Parent, SepSlot, NewSepEntry, l, r)
                  /\ Divided(pages, pages', Parent, l, r)
                  /\ Ascend(r[1].key)
  BY <1>2, ParentSplitView
<1>4. Parent \in DOMAIN pages /\ pages[Parent].leaf = FALSE
  BY <1>1, ParentView
<1>5. PageFits(FALSE, pages[Parent].ents)
  BY <1>4 DEF FitInv, ArenaFits
<1>6. PageFits(FALSE, l) /\ PageFits(FALSE, r) /\ RootTakes(r[1].key)
  BY <1>3, <1>5, RightTakes
<1>7. ArenaFits(pages')
  BY <1>3, <1>4, <1>6, DividedFits DEF FitInv
<1>8. sep'.key = r[1].key
  BY <1>3 DEF Ascend
<1> QED
  BY <1>6, <1>7, <1>8 DEF FitInv

\* The root leaf that is split, and the internal root.
LEMMA RootLeafView ==
  ASSUME IInv, NEW pos, SplitRootLeaf(pos)
  PROVE  /\ AtLeaf("put") /\ cur = P_ROOT /\ Return("true")
         /\ IsLeafPos(Ents, job.key, pos) /\ pos \in 1 .. Len(Ents) + 1
         /\ \E l, r : /\ Split(LeafEntry, TRUE, P_ROOT, pos, NewLeafEntry, l, r)
                     /\ Grown(pages, pages', l, r)
<1>1. /\ LeafFull(pos) /\ AtLeaf("put") /\ cur = P_ROOT /\ Return("true")
      /\ IsLeafPos(Ents, job.key, pos) /\ ~ HasRoom(TRUE, Ents, NewLeafEntry)
  BY DEF SplitRootLeaf, LeafFull
<1>2. PICK h \in LeafHalves(pos) : Fits(TRUE, h.right) /\ pages' = GrowRoot(h)
  BY DEF SplitRootLeaf
<1>3. /\ Ents = pages[P_ROOT].ents /\ EntryOf(pages[P_ROOT].leaf) = LeafEntry
  BY <1>1, LeafView
<1>4. pos \in 1 .. Len(Ents) + 1
  BY <1>1 DEF IsLeafPos
<1>5. NewLeafEntry \in LeafEntry /\ RootTakes(NewLeafEntry.key)
  BY <1>1, PutView
<1>6. h \in Halves(TRUE, pages[P_ROOT].ents, pos, NewLeafEntry)
  BY <1>2, <1>3 DEF LeafHalves
<1>7. \E l, r : /\ Split(LeafEntry, TRUE, P_ROOT, pos, NewLeafEntry, l, r)
                /\ Grown(pages, pages', l, r)
  BY <1>1, <1>2, <1>3, <1>4, <1>5, <1>6, EntrySizes, RootSplitView
<1> QED
  BY <1>1, <1>4, <1>7

\* The step that splits an internal root, told page by page.
LEMMA RootInternalView ==
  ASSUME IInv, SplitRootInternal, RootTakes(sep.key)
  PROVE  /\ GoingUp /\ Parent = P_ROOT /\ Return("true")
         /\ \E l, r : /\ Split(SepEntry, FALSE, P_ROOT, SepSlot, NewSepEntry, l, r)
                     /\ Grown(pages, pages', l, r)
<1>1. GoingUp /\ Parent = P_ROOT /\ Return("true") /\ ~ HasRoom(FALSE, ParentEnts, NewSepEntry)
  BY DEF SplitRootInternal, ParentFull
<1>2. PICK h \in ParentHalves : Fits(FALSE, h.right) /\ pages' = GrowRoot(h)
  BY DEF SplitRootInternal
<1>3. /\ ParentEnts = pages[P_ROOT].ents /\ EntryOf(pages[P_ROOT].leaf) = SepEntry
      /\ SepSlot \in 1 .. Len(ParentEnts) + 1 /\ NewSepEntry \in SepEntry
      /\ RootTakes(NewSepEntry.key)
  BY <1>1, ParentView
<1> DEFINE e == NewSepEntry
           pos == SepSlot
           ents == ParentEnts
<1>4. /\ h \in Halves(FALSE, ents, pos, e) /\ ents = pages[P_ROOT].ents
      /\ e \in SepEntry /\ RootTakes(e.key) /\ ~ HasRoom(FALSE, ents, e)
      /\ pos \in 1 .. Len(ents) + 1
  BY <1>1, <1>2, <1>3 DEF ParentHalves
<1>5. e = NewSepEntry /\ pos = SepSlot
  OBVIOUS
<1> HIDE DEF e, pos, ents
<1>6. \E l, r : /\ Split(SepEntry, FALSE, P_ROOT, pos, e, l, r)
                /\ Grown(pages, pages', l, r)
  BY <1>2, <1>3, <1>4, EntrySizes, RootSplitView
<1> QED
  BY <1>1, <1>5, <1>6

\* A page without entries fits.
LEMMA EmptyFits ==
  ASSUME NEW leaf, NEW s, Sized(leaf, s), Len(s) = 0, DOMAIN s = {}
  PROVE  PageFits(leaf, s)
<1>1. Cost(leaf, s) = 0
  BY CostNat
<1> QED
  BY <1>1, UsableFacts DEF PageFits, Fits

\* Nothing is stored in the beginning.
LEMMA InitFits == Init => FitInv
<1> SUFFICES ASSUME Init PROVE FitInv
  OBVIOUS
<1>1. pages = <<Page(TRUE, P_INVALID, P_INVALID, <<>>)>> /\ pc = "idle"
  BY DEF Init
<1>2. DOMAIN pages = {1} /\ pages[1].ents = <<>>
  BY <1>1 DEF Page
<1> DEFINE leaf == pages[1].leaf
           s == pages[1].ents
<1>3. Len(s) = 0 /\ DOMAIN s = {}
  BY <1>2
<1> HIDE DEF leaf, s
<1>4. Sized(leaf, s)
  BY <1>3 DEF Sized
<1>5. PageFits(leaf, s)
  BY <1>3, <1>4, EmptyFits
<1> QED
  BY <1>1, <1>2, <1>5 DEF FitInv, ArenaFits, leaf, s

\* Every step keeps every page within its bounds.
LEMMA NextFits == IInv /\ FitInv /\ [Next]_vars => FitInv'
<1> SUFFICES ASSUME IInv, FitInv, [Next]_vars PROVE FitInv'
  OBVIOUS
<1>1. CASE UNCHANGED vars
  BY <1>1 DEF vars, FitInv
<1>2. ASSUME UNCHANGED pages, pc' # "up"
      PROVE  FitInv'
  BY <1>2 DEF FitInv
<1>3. ASSUME NEW r, Return(r), UNCHANGED pages
      PROVE  FitInv'
  BY <1>3, EndsFit DEF FitInv
<1>4. CASE Call
  <2>1. ASSUME NEW k \in Keys, NEW v \in Values, RejectPut(k, v) PROVE FitInv'
    BY <2>1, <1>3 DEF RejectPut
  <2>2. ASSUME NEW k \in Keys, NEW v \in Values, CallPut(k, v) PROVE FitInv'
    BY <2>2, <1>2 DEF CallPut, Start
  <2>3. ASSUME NEW k \in Keys, CallDel(k) PROVE FitInv'
    BY <2>3, <1>2 DEF CallDel, Start
  <2> QED
    BY <1>4, <2>1, <2>2, <2>3 DEF Call
<1>5. CASE Descend
  BY <1>5, <1>2 DEF Descend
<1>6. CASE DelHit
  BY <1>6, DelHitFits
<1>7. CASE DelMiss
  BY <1>7, <1>3 DEF DelMiss
<1>8. CASE PutDuplicate
  BY <1>8, <1>3 DEF PutDuplicate
<1>9. CASE InsertLeafEntry
  BY <1>9, InsertLeafFits
<1>10. ASSUME NEW pos \in 1 .. Len(Ents) + 1, SplitRootLeaf(pos) PROVE FitInv'
  <2>1. PICK l, r : /\ Split(LeafEntry, TRUE, P_ROOT, pos, NewLeafEntry, l, r)
                    /\ Grown(pages, pages', l, r)
    BY <1>10, RootLeafView
  <2>2. AtLeaf("put") /\ cur = P_ROOT /\ Return("true")
    BY <1>10, RootLeafView
  <2>3. pages[P_ROOT].leaf = TRUE /\ EntryOf(TRUE) = LeafEntry
    BY <2>2, LeafView
  <2> QED
    BY <2>1, <2>2, <2>3, RootSplitFits
<1>11. ASSUME NEW pos \in 1 .. Len(Ents) + 1, SplitLeafSortedOpt(pos) PROVE FitInv'
  BY <1>11, LeafSplitFits
<1>12. ASSUME NEW pos \in 1 .. Len(Ents) + 1, SplitLeafFull(pos) PROVE FitInv'
  BY <1>12, LeafSplitFits
<1>13. ASSUME NEW pos \in 1 .. Len(Ents) + 1, SplitLeafUnfit(pos) PROVE FitInv'
  BY <1>13, <1>3 DEF SplitLeafUnfit
<1>14. CASE InsertInternalInPlace
  BY <1>14, PlaceFits
<1>15. CASE SplitRootInternal
  <2>1. GoingUp /\ Parent = P_ROOT
    BY <1>15 DEF SplitRootInternal, ParentFull
  <2>2. RootTakes(sep.key)
    BY <2>1 DEF GoingUp, FitInv
  <2>3. PICK l, r : /\ Split(SepEntry, FALSE, P_ROOT, SepSlot, NewSepEntry, l, r)
                    /\ Grown(pages, pages', l, r)
    BY <1>15, <2>2, RootInternalView
  <2>4. pages[P_ROOT].leaf = FALSE /\ EntryOf(FALSE) = SepEntry /\ Return("true")
    BY <1>15, <2>1, ParentView DEF SplitRootInternal
  <2> QED
    BY <2>3, <2>4, RootSplitFits
<1>16. CASE SplitInternalSortedOpt
  BY <1>16, ParentSplitFits
<1>17. CASE SplitInternalPage
  BY <1>17, ParentSplitFits
<1>18. CASE SplitInternalUnfit
  BY <1>18, <1>3 DEF SplitInternalUnfit
<1> QED
  BY <1>1, <1>4, <1>5, <1>6, <1>7, <1>8, <1>9, <1>10, <1>11, <1>12, <1>13, <1>14,
     <1>15, <1>16, <1>17, <1>18 DEF Next, Step

\* The pages fit in every state.
LEMMA FitHolds == Spec => [](IInv /\ FitInv)
<1>1. Init => IInv /\ FitInv
  BY InitEstablishes, InitFits
<1>2. (IInv /\ FitInv) /\ [Next]_vars => (IInv /\ FitInv)'
  BY NextPreserves, NextFits
<1> QED
  BY <1>1, <1>2, PTL DEF Spec

\* No page ever holds more than fits between its header and its end.
THEOREM PagesFitCorrect == Spec => []PagesFit
<1>1. IInv /\ FitInv => PagesFit
  <2> SUFFICES ASSUME IInv, FitInv, NEW p \in DOMAIN pages
               PROVE  FreeSpace(pages[p].leaf, pages[p].ents) >= 0
    BY DEF PagesFit
  <2> DEFINE leaf == pages[p].leaf
             ents == pages[p].ents
  <2>1. Fits(leaf, ents)
    BY DEF FitInv, ArenaFits, PageFits
  <2>2. leaf \in BOOLEAN /\ ents \in Seq(EntryOf(leaf))
    BY ArenaFacts, EntsFacts
  <2> HIDE DEF leaf, ents
  <2>3. Cost(leaf, ents) \in Nat
    BY <2>2, SizedFacts, CostNat
  <2>4. FreeSpace(leaf, ents) >= 0
    BY <2>1, <2>3, UsableFacts DEF Fits, FreeSpace
  <2> QED
    BY <2>4 DEF leaf, ents
<1> QED
  BY <1>1, FitHolds, PTL
=============================================================================
