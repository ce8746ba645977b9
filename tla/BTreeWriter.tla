---------------------------- MODULE BTreeWriter ----------------------------
(***************************************************************************)
(* The writer's tree: the page arena and the calls put and del that change *)
(* it, one action per step of the descent, of a leaf's change and of a     *)
(* separator's way up the spine.                                           *)
(*                                                                         *)
(* A call runs to its end before the next one starts; between its first    *)
(* and its last step the arena goes through states no caller sees, and     *)
(* that is where the tree can be left inconsistent: the leaf is split      *)
(* before anyone knows whether its separator has a place to go.            *)
(***************************************************************************)
EXTENDS Entries, FiniteSets

CONSTANT
  MaxPages   (* bound: no put starts once the arena holds this many pages  *)

VARIABLES
  pages,   (* the arena; page 0, the meta page, is left out: its content   *)
           (* is fixed, so pages[p] is page p                              *)
  pc,      (* "idle", "descend", "up" or "panicked"                        *)
  job,     (* the call under way                                           *)
  cur,     (* descend: the page reached; up: the page split last           *)
  path,    (* Spine.path: the internal pages and slots passed on the way   *)
  sep,     (* the Separator to be placed in the last page of path          *)
  ret      (* what the last finished call reported                         *)

vars == <<pages, pc, job, cur, path, sep, ret>>

P_ROOT == 1
P_INVALID == 0

LeafEntry == [key : Strings, val : Values]
SepEntry == [key : Strings, child : Nat]

LeafPage == [leaf : {TRUE}, prev : Nat, next : Nat, ents : Seq(LeafEntry)]
InternalPage == [leaf : {FALSE}, prev : Nat, next : Nat, ents : Seq(SepEntry)]

Page(leaf, prev, next, ents) ==
  [leaf |-> leaf, prev |-> prev, next |-> next, ents |-> ents]

NoJob == [op |-> "none"]
PutJob == [op : {"put"}, key : Keys, val : Values]
DelJob == [op : {"del"}, key : Keys]

NoSep == [src |-> "none"]
LeafSep == [src : {"leaf"}, key : Strings, child : Nat, last : Strings]
InternalSep == [src : {"internal"}, key : Strings, child : Nat]

Init ==
  /\ pages = <<Page(TRUE, P_INVALID, P_INVALID, <<>>)>>
  /\ pc = "idle"
  /\ job = NoJob
  /\ cur = P_ROOT
  /\ path = <<>>
  /\ sep = NoSep
  /\ ret = "none"

-----------------------------------------------------------------------------
(* Calls and their ends.                                                   *)

\* A call ends with answer r.  A panic ends the writer with it: put takes
\* &mut self, and what unwinding leaves is not used again.
Return(r) ==
  /\ pc' = IF r = "panic" THEN "panicked" ELSE "idle"
  /\ ret' = r
  /\ job' = NoJob
  /\ cur' = P_ROOT
  /\ path' = <<>>
  /\ sep' = NoSep

Start(call) ==
  /\ pc = "idle"
  /\ pc' = "descend"
  /\ job' = call
  /\ UNCHANGED <<pages, cur, path, sep, ret>>

\* put's bounds check: an entry that could not live inline everywhere.
RejectPut(k, v) ==
  /\ pc = "idle"
  /\ TooLarge(k, v)
  /\ Return("EntryTooLarge")
  /\ UNCHANGED pages

CallPut(k, v) ==
  /\ Len(pages) < MaxPages
  /\ ~ TooLarge(k, v)
  /\ Start([op |-> "put", key |-> k, val |-> v])

CallDel(k) == Start([op |-> "del", key |-> k])

-----------------------------------------------------------------------------
(* The descent, and the calls that end in the leaf it reaches.             *)

Ents == pages[cur].ents

\* One turn of descend's loop.
Descend ==
  /\ pc = "descend"
  /\ ~ pages[cur].leaf
  /\ \E i \in DOMAIN Ents :
       /\ IsPick(Ents, job.key, i)
       /\ path' = Append(path, [pgno |-> cur, slot |-> i])
       /\ cur' = Ents[i].child
  /\ UNCHANGED <<pages, pc, job, sep, ret>>

AtLeaf(op) ==
  /\ pc = "descend"
  /\ pages[cur].leaf
  /\ job.op = op

DelHit ==
  /\ AtLeaf("del")
  /\ \E i \in DOMAIN Ents :
       /\ Ents[i].key = job.key
       /\ pages' = [pages EXCEPT ![cur].ents = RemoveAt(@, i)]
  /\ Return("true")

\* Mutated form of DelMiss: the search misses the last entry of the leaf.
DelMissLast ==
  /\ AtLeaf("del")
  /\ ~ \E i \in 1 .. Len(Ents) - 1 : Ents[i].key = job.key
  /\ Return("false")
  /\ UNCHANGED pages

DelMiss ==
  /\ AtLeaf("del")
  /\ ~ Holds(Ents, job.key)
  /\ Return("false")
  /\ UNCHANGED pages

PutDuplicate ==
  /\ AtLeaf("put")
  /\ Holds(Ents, job.key)
  /\ Return("false")
  /\ UNCHANGED pages

NewLeafEntry == [key |-> job.key, val |-> job.val]

InsertLeafEntry ==
  /\ AtLeaf("put")
  /\ HasRoom(TRUE, Ents, NewLeafEntry)
  /\ \E pos \in 1 .. Len(Ents) + 1 :
       /\ IsLeafPos(Ents, job.key, pos)
       /\ pages' = [pages EXCEPT ![cur].ents = InsertAt(@, pos, NewLeafEntry)]
  /\ Return("true")

-----------------------------------------------------------------------------
(* Splitting a page.                                                       *)

\* Mutated form of Halves: the first entry of the right half is lost.
HalvesLossy(leaf, ents, pos, e) ==
  LET all == InsertAt(ents, pos, e)
  IN  {[left |-> SubSeq(all, 1, n), right |-> SubSeq(all, n + 2, Len(all))] :
         n \in {m \in 0 .. Len(ents) : SplitsAt(leaf, ents, pos, e, m)}}

\* ents with e at slot pos, divided where psplit_loop divides it.
Halves(leaf, ents, pos, e) ==
  LET all == InsertAt(ents, pos, e)
  IN  {[left |-> SubSeq(all, 1, n), right |-> SubSeq(all, n + 1, Len(all))] :
         n \in {m \in 0 .. Len(ents) : SplitsAt(leaf, ents, pos, e, m)}}

\* What a put meets when the right half does not fit.  (The left half always
\* does.)  The entry is written all the same: when the entries alone exceed
\* the page, upper goes below zero, which panics; otherwise upper ends below
\* lower and the page is not parsed again.  Before a split leaf is parsed,
\* though, the last key of the left half is read, and when that half is
\* empty the index underflows: a panic, or in a release build an index that
\* is out of range.  (When upper ends within the first twelve bytes of the
\* page, the header's flags, lower and upper are overwritten with bytes of
\* the entry, and what parse makes of them depends on those bytes.  It is
\* taken to fail here too; the sizes in MCBTreeWriter keep clear of it.)
Unfit(leaf, h) ==
  IF Cost(leaf, h.right) - LINP_SIZE * Len(h.right) > Psize THEN {"panic"}
  ELSE IF leaf /\ cur # P_ROOT /\ h.left = <<>> THEN {"panic", "CorruptPage"}
  ELSE {"CorruptPage"}

\* The page numbers the next pages pushed onto the arena will get.
NextFreePgno == Len(pages) + 1

\* Mutated form of RelinkNext: the old right neighbour keeps its prev.
RelinkNextNot(ps, old, r) == ps

\* After p split into p and r, the page that followed p follows r.
RelinkNext(ps, old, r) ==
  IF old = P_INVALID THEN ps ELSE [ps EXCEPT ![old].prev = r]

\* Mutated form of SplitPage: the new page ends its level.
SplitPageEndsLevel(p, h) ==
  LET r == NextFreePgno
      split == [pages EXCEPT ![p] = Page(@.leaf, @.prev, r, h.left)]
  IN  Append(RelinkNext(split, pages[p].next, r),
             Page(pages[p].leaf, p, P_INVALID, h.right))

\* Page p keeps h.left; h.right goes to a new page that follows p.
SplitPage(p, h) ==
  LET r == NextFreePgno
      split == [pages EXCEPT ![p] = Page(@.leaf, @.prev, r, h.left)]
  IN  Append(RelinkNext(split, pages[p].next, r),
             Page(pages[p].leaf, p, pages[p].next, h.right))

\* bt_page's shortcut for the rightmost page of a level and an entry that
\* goes to its end: p stays as it is, the entry gets a page of its own.
AppendPage(p, e) ==
  LET r == NextFreePgno
  IN  Append([pages EXCEPT ![p].next = r],
             Page(pages[p].leaf, p, P_INVALID, <<e>>))

IsSortedAppend(p, pos) ==
  /\ pages[p].next = P_INVALID
  /\ pos = Len(pages[p].ents) + 1

\* Mutated form of GrowRoot: the root's type bit is not rewritten.
GrowRootSameType(h) ==
  LET l == NextFreePgno
      r == NextFreePgno + 1
      top == << [key |-> 0, child |-> l],
                [key |-> h.right[1].key, child |-> r] >>
  IN  [pages EXCEPT ![P_ROOT] = Page(@.leaf, @.prev, @.next, top)]
        \o << Page(pages[P_ROOT].leaf, P_INVALID, r, h.left),
              Page(pages[P_ROOT].leaf, l, P_INVALID, h.right) >>

\* convert_root_to_internal, and the two pages the root's entries go to.
GrowRoot(h) ==
  LET l == NextFreePgno
      r == NextFreePgno + 1
      top == << [key |-> 0, child |-> l],
                [key |-> h.right[1].key, child |-> r] >>
  IN  [pages EXCEPT ![P_ROOT] = Page(FALSE, @.prev, @.next, top)]
        \o << Page(pages[P_ROOT].leaf, P_INVALID, r, h.left),
              Page(pages[P_ROOT].leaf, l, P_INVALID, h.right) >>

-----------------------------------------------------------------------------
(* A put whose leaf is full.                                               *)

\* The leaf has no room for the new entry, whose place in it is pos.
LeafFull(pos) ==
  /\ AtLeaf("put")
  /\ ~ HasRoom(TRUE, Ents, NewLeafEntry)
  /\ IsLeafPos(Ents, job.key, pos)

LeafHalves(pos) == Halves(TRUE, Ents, pos, NewLeafEntry)

SplitRootLeaf(pos) ==
  /\ LeafFull(pos)
  /\ cur = P_ROOT
  /\ \E h \in LeafHalves(pos) :
       /\ Fits(TRUE, h.right)
       /\ pages' = GrowRoot(h)
  /\ Return("true")

SplitLeafSortedOpt(pos) ==
  /\ LeafFull(pos)
  /\ cur # P_ROOT
  /\ IsSortedAppend(cur, pos)
  /\ pages' = AppendPage(cur, NewLeafEntry)
  /\ sep' = [src |-> "leaf", key |-> job.key, child |-> NextFreePgno,
             last |-> Last(Ents).key]
  /\ pc' = "up"
  /\ UNCHANGED <<job, cur, path, ret>>

SplitLeafFull(pos) ==
  /\ LeafFull(pos)
  /\ cur # P_ROOT
  /\ ~ IsSortedAppend(cur, pos)
  /\ \E h \in LeafHalves(pos) :
       /\ h.left # <<>>
       /\ Fits(TRUE, h.right)
       /\ pages' = SplitPage(cur, h)
       /\ sep' = [src |-> "leaf", key |-> h.right[1].key,
                  child |-> NextFreePgno, last |-> Last(h.left).key]
  /\ pc' = "up"
  /\ UNCHANGED <<job, cur, path, ret>>

\* The right half is written to a scratch page: the arena is untouched.
SplitLeafUnfit(pos) ==
  /\ LeafFull(pos)
  /\ cur = P_ROOT \/ ~ IsSortedAppend(cur, pos)
  /\ \E h \in LeafHalves(pos) :
       /\ ~ Fits(TRUE, h.right)
       /\ \E r \in Unfit(TRUE, h) : Return(r)
  /\ UNCHANGED pages

-----------------------------------------------------------------------------
(* propagate_separator: one turn of its loop is one action.                *)

\* Mutated form of EncodedKey: the separator is cut against the wrong key.
EncodedKeyCut(s, prev, pos) ==
  IF s.src = "leaf" /\ SepBytes(Pfx[0][s.key]) < SepBytes(s.key)
  THEN Pfx[0][s.key]
  ELSE s.key

\* Separator::encoded_size, as the key that is stored: a separator from a
\* leaf is cut short against the left leaf's last key when that saves space
\* and the slot is not the one next to the root's zero-key entry.
EncodedKey(s, prev, pos) ==
  IF /\ s.src = "leaf"
     /\ prev # P_INVALID \/ pos > 2
     /\ SepBytes(Pfx[s.last][s.key]) < SepBytes(s.key)
  THEN Pfx[s.last][s.key]
  ELSE s.key

\* The page the separator goes to, its entry and the slot it gets there.
Parent == Last(path).pgno
ParentEnts == pages[Parent].ents

\* Mutated form of SepSlot: in front of the page that was split.
SepSlotBefore == Last(path).slot

SepSlot == Last(path).slot + 1
NewSepEntry ==
  [key |-> EncodedKey(sep, pages[Parent].prev, SepSlot), child |-> sep.child]

GoingUp == pc = "up" /\ path # <<>>

InsertInternalInPlace ==
  /\ GoingUp
  /\ HasRoom(FALSE, ParentEnts, NewSepEntry)
  /\ pages' = [pages EXCEPT ![Parent].ents = InsertAt(@, SepSlot, NewSepEntry)]
  /\ Return("true")

ParentFull == GoingUp /\ ~ HasRoom(FALSE, ParentEnts, NewSepEntry)

ParentHalves == Halves(FALSE, ParentEnts, SepSlot, NewSepEntry)

SplitRootInternal ==
  /\ ParentFull
  /\ Parent = P_ROOT
  /\ \E h \in ParentHalves :
       /\ Fits(FALSE, h.right)
       /\ pages' = GrowRoot(h)
  /\ Return("true")

\* Mutated form of Ascend: the spine is not popped.
AscendNoPop(key) ==
  /\ sep' = [src |-> "internal", key |-> key, child |-> NextFreePgno]
  /\ cur' = Parent
  /\ UNCHANGED <<pc, job, path, ret>>

\* Mutated form of Ascend: the separator keeps the child it came with.
AscendSameChild(key) ==
  /\ sep' = [src |-> "internal", key |-> key, child |-> sep.child]
  /\ cur' = Parent
  /\ path' = Front(path)
  /\ UNCHANGED <<pc, job, ret>>

\* The loop goes on with the page above.
Ascend(key) ==
  /\ sep' = [src |-> "internal", key |-> key, child |-> NextFreePgno]
  /\ cur' = Parent
  /\ path' = Front(path)
  /\ UNCHANGED <<pc, job, ret>>

SplitInternalSortedOpt ==
  /\ ParentFull
  /\ Parent # P_ROOT
  /\ IsSortedAppend(Parent, SepSlot)
  /\ pages' = AppendPage(Parent, NewSepEntry)
  /\ Ascend(NewSepEntry.key)

SplitInternalPage ==
  /\ ParentFull
  /\ Parent # P_ROOT
  /\ ~ IsSortedAppend(Parent, SepSlot)
  /\ \E h \in ParentHalves :
       /\ Fits(FALSE, h.right)
       /\ pages' = SplitPage(Parent, h)
       /\ Ascend(h.right[1].key)

\* The level being split is untouched, but the levels below it have been
\* split already, and nothing undoes that.
SplitInternalUnfit ==
  /\ ParentFull
  /\ Parent = P_ROOT \/ ~ IsSortedAppend(Parent, SepSlot)
  /\ \E h \in ParentHalves :
       /\ ~ Fits(FALSE, h.right)
       /\ \E r \in Unfit(FALSE, h) : Return(r)
  /\ UNCHANGED pages

-----------------------------------------------------------------------------

Call ==
  \/ \E k \in Keys, v \in Values : RejectPut(k, v) \/ CallPut(k, v)
  \/ \E k \in Keys : CallDel(k)

\* The steps of a call that has begun.
Step ==
  \/ Descend
  \/ DelHit
  \/ DelMiss
  \/ PutDuplicate
  \/ InsertLeafEntry
  \/ \E pos \in 1 .. Len(Ents) + 1 :
       \/ SplitRootLeaf(pos)
       \/ SplitLeafSortedOpt(pos)
       \/ SplitLeafFull(pos)
       \/ SplitLeafUnfit(pos)
  \/ InsertInternalInPlace
  \/ SplitRootInternal
  \/ SplitInternalSortedOpt
  \/ SplitInternalPage
  \/ SplitInternalUnfit

Next == Call \/ Step

Spec == Init /\ [][Next]_vars

\* A call runs in its caller's thread until it returns.
FairSpec == Spec /\ WF_vars(Step)

-----------------------------------------------------------------------------
(* Properties.                                                             *)

\* Every variable keeps its shape: in particular, what a page's entries are
\* follows from its type, also when the root turns from a leaf into an
\* internal page (convert_root_to_internal rewrites its type bits).
TypeOK ==
  /\ pages \in Seq(LeafPage \cup InternalPage)
  /\ P_ROOT \in DOMAIN pages
  /\ pc \in {"idle", "descend", "up", "panicked"}
  /\ job \in {NoJob} \cup PutJob \cup DelJob
  /\ cur \in Nat
  /\ path \in Seq([pgno : Nat, slot : Nat \ {0}])
  /\ sep \in {NoSep} \cup LeafSep \cup InternalSep
  /\ ret \in {"none", "true", "false", "EntryTooLarge", "CorruptPage", "panic"}

\* No page ever holds more than fits between its header and its end,
\* whatever splits made it (reserve_slot's assertion, and upper >= lower in
\* every page handed to PageView::parse).
PagesFit ==
  \A p \in DOMAIN pages : FreeSpace(pages[p].leaf, pages[p].ents) >= 0

\* The keys of a page are strictly increasing, so that the binary searches
\* of leaf_search and descend_internal_pick have one answer.
KeysSorted ==
  \A p \in DOMAIN pages : \A i, j \in DOMAIN pages[p].ents :
    i < j => pages[p].ents[i].key < pages[p].ents[j].key

\* When descend arrives at a leaf, no other leaf holds the key: what is
\* stored is found again after any splits, compressed separators and
\* deletions, and put cannot store a second copy.
DescentExact ==
  pc = "descend" /\ pages[cur].leaf =>
    \A p \in DOMAIN pages \ {cur} :
      ~ (pages[p].leaf /\ Holds(pages[p].ents, job.key))

\* Every key of a page lies within the range its parent's separators give
\* it, and a page's first separator is the one its parent has for it.
ChildRanges ==
  \A p \in DOMAIN pages : \A i \in DOMAIN pages[p].ents : ~ pages[p].leaf =>
    LET entry == pages[p].ents[i]
        child == pages[entry.child]
    IN  /\ ~ child.leaf => child.ents[1].key = entry.key
        /\ \A j \in DOMAIN child.ents :
             /\ entry.key <= child.ents[j].key
             /\ i < Len(pages[p].ents) =>
                  child.ents[j].key < pages[p].ents[i + 1].key

\* The recorded path leads from the root to the current page, also after a
\* page below has been split, and propagate_separator never finds it empty
\* (its unreachable!).
SpineLeadsToCur ==
  pc \in {"descend", "up"} =>
    LET hop == [i \in DOMAIN path |-> path[i].pgno] \o <<cur>>
    IN  /\ hop[1] = P_ROOT
        /\ pc = "up" => path # <<>>
        /\ \A i \in DOMAIN path :
             /\ path[i].slot \in DOMAIN pages[hop[i]].ents
             /\ ~ pages[hop[i]].leaf
             /\ pages[hop[i]].ents[path[i].slot].child = hop[i + 1]

\* The slots that refer to page c.  (No page has more slots than there are
\* pages to refer to, and one.)
ParentSlots(c) ==
  {at \in (DOMAIN pages) \X (1 .. Len(pages) + 1) :
     /\ ~ pages[at[1]].leaf
     /\ at[2] \in DOMAIN pages[at[1]].ents
     /\ pages[at[1]].ents[at[2]].child = c}

\* Between calls every page but the root hangs from exactly one separator:
\* a put that fails leaves no phantom page behind.
NoPhantomPage ==
  pc = "idle" =>
    \A c \in DOMAIN pages \ {P_ROOT} : Cardinality(ParentSlots(c)) = 1

\* The prev and next links of a level are each other's inverses.
SiblingsAgree ==
  \A p \in DOMAIN pages :
    /\ pages[p].next # P_INVALID => pages[pages[p].next].prev = p
    /\ pages[p].prev # P_INVALID => pages[pages[p].prev].next = p

\* Between calls the next links of a level visit its pages in the order in
\* which the level above refers to them, so a scan along the leaves meets
\* every leaf once and in key order.
LinksMatchTree ==
  pc = "idle" =>
    \A p \in DOMAIN pages : ~ pages[p].leaf =>
      LET kids == pages[p].ents
          after == pages[p].next
      IN  /\ \A i \in 1 .. Len(kids) - 1 :
               pages[kids[i].child].next = kids[i + 1].child
          /\ pages[Last(kids).child].next =
               IF after = P_INVALID THEN P_INVALID
               ELSE pages[after].ents[1].child

\* put's up-front bounds keep every split within the page (its comment:
\* "can never produce a mid-split unfittable layout").
PutNeverUnfit == ret \notin {"CorruptPage", "panic"}

-----------------------------------------------------------------------------
(* What a caller sees.                                                     *)

Stored ==
  UNION {{<<pages[p].ents[i].key, pages[p].ents[i].val>> :
            i \in DOMAIN pages[p].ents} :
         p \in {q \in DOMAIN pages : pages[q].leaf}}

\* A put counts as done when it returns, not when its leaf is split.
Visible == IF pc = "up" THEN {kv \in Stored : kv[1] # job.key} ELSE Stored

Dictionary == INSTANCE Dict
  WITH dict <- Visible, call <- job,
       Refused <- {kv \in Keys \X Values : TooLarge(kv[1], kv[2])},
       Errors <- {"CorruptPage", "panic"}

\* put and del are the insert-if-absent and remove of a dictionary: what a
\* call answers and changes is what its key, its value and the pairs stored
\* before it demand.  No split loses or duplicates a pair; only a put within
\* the bounds whose key is absent can fail once it has begun, and it, like
\* one refused for its size, has changed nothing.
ImplementsDict == Dictionary!Spec

\* Every call returns (or panics).
CallReturns == pc \in {"descend", "up"} ~> pc \in {"idle", "panicked"}
=============================================================================
