------------------------------- MODULE Reader -------------------------------
(***************************************************************************)
(* A Db on a mapped file: get, and an Iter that is asked for one entry     *)
(* after the other.  Both parse each page when they come to it, so either  *)
(* may meet a page that is missing or unreadable after it has read others. *)
(*                                                                         *)
(* Both only read, through &self: an Iter and any number of lookups do not *)
(* affect each other.  One of each is modelled.                            *)
(***************************************************************************)
EXTENDS Entries

CONSTANT
  Zeros   (* a page none of whose bytes reached the disk                   *)

VARIABLES
  image,     (* the mapped pages by page number: page records as in        *)
             (* BTreeWriter, or Zeros.  The meta page is left out.  The    *)
             (* reader does not change it                                  *)
  lookup,    (* the get under way: its key and the page it is about to read *)
  answer,    (* what the last get returned, when none is under way         *)
  iter,      (* State of the Iter                                          *)
  scanned,   (* the entries the Iter has returned so far                   *)
  scanEnd    (* what it returned last: "open" while that was an entry (or  *)
             (* nothing), "None", or the error                             *)

readerVars == <<lookup, answer, iter, scanned, scanEnd>>

FirstPage == 1              \* P_ROOT
NoPage == 0                 \* P_INVALID

NoLookup == [key |-> 0, at |-> NoPage]

NoAnswer == [is |-> "nothing"]

\* The states of an Iter.  "descending" and "advancing" are inside a call of
\* next: on the left spine at page pg; on the sibling chain at page to, with
\* the entry at idx of page pg decoded already and not yet returned.
Pristine == [st |-> "pristine", pg |-> FirstPage, idx |-> 0, to |-> NoPage]
Descending(p) == [st |-> "descending", pg |-> p, idx |-> 0, to |-> NoPage]
Active(p, i) == [st |-> "active", pg |-> p, idx |-> i, to |-> NoPage]
Advancing(p, i, next) == [st |-> "advancing", pg |-> p, idx |-> i, to |-> next]
Done == [st |-> "done", pg |-> NoPage, idx |-> 0, to |-> NoPage]

ReaderInit ==
  /\ lookup = NoLookup
  /\ answer = NoAnswer
  /\ iter = Pristine
  /\ scanned = <<>>
  /\ scanEnd = "open"

\* Db::page and PageView::parse on page p: "ok" or the error.  A page of
\* zeros has lower = 0; so has the meta page, where nrecs is in its place.
Parse(p) ==
  IF p = NoPage THEN "CorruptPage"
  ELSE IF p \notin DOMAIN image THEN "PageOutOfBounds"
  ELSE IF image[p] = Zeros THEN "CorruptPage"
  ELSE "ok"

\* What a descent needs: a leaf, or an internal page that has a child.
ParseForSearch(p) ==
  IF Parse(p) = "ok" /\ ~ image[p].leaf /\ image[p].ents = <<>>
  THEN "CorruptPage"
  ELSE Parse(p)

\* What a step along the siblings needs: a leaf.
ParseSibling(p) ==
  IF Parse(p) = "ok" /\ ~ image[p].leaf THEN "CorruptPage" ELSE Parse(p)

-----------------------------------------------------------------------------
(* get                                                                     *)

Get(k) ==
  /\ lookup = NoLookup
  /\ lookup' = [key |-> k, at |-> FirstPage]
  /\ answer' = NoAnswer
  /\ UNCHANGED <<iter, scanned, scanEnd>>

GetReturns(a) ==
  /\ answer' = a
  /\ lookup' = NoLookup
  /\ UNCHANGED <<iter, scanned, scanEnd>>

\* search is at a page it can read.
AtPage ==
  /\ lookup # NoLookup
  /\ ParseForSearch(lookup.at) = "ok"

\* search, one turn of its loop: descend_internal picks the child.
SearchInternal ==
  /\ AtPage
  /\ ~ image[lookup.at].leaf
  /\ \E i \in DOMAIN image[lookup.at].ents :
       /\ IsPick(image[lookup.at].ents, lookup.key, i)
       /\ lookup' = [lookup EXCEPT !.at = image[lookup.at].ents[i].child]
  /\ UNCHANGED <<answer, iter, scanned, scanEnd>>

\* search_leaf finds the key; get decodes the entry once more.
SearchHit ==
  /\ AtPage
  /\ image[lookup.at].leaf
  /\ \E i \in DOMAIN image[lookup.at].ents :
       LET entry == image[lookup.at].ents[i]
       IN  /\ entry.key = lookup.key
           /\ GetReturns([is |-> "some", key |-> lookup.key, val |-> entry.val])

SearchMiss ==
  /\ AtPage
  /\ image[lookup.at].leaf
  /\ ~ Holds(image[lookup.at].ents, lookup.key)
  /\ GetReturns([is |-> "none", key |-> lookup.key])

\* Mutated form of SearchFails: a page that cannot be read is an empty leaf.
SearchFailsAsMiss ==
  /\ lookup # NoLookup
  /\ ParseForSearch(lookup.at) # "ok"
  /\ GetReturns([is |-> "none", key |-> lookup.key])

SearchFails ==
  /\ lookup # NoLookup
  /\ ParseForSearch(lookup.at) # "ok"
  /\ GetReturns([is |-> ParseForSearch(lookup.at), key |-> lookup.key])

LookupStep == SearchInternal \/ SearchHit \/ SearchMiss \/ SearchFails

-----------------------------------------------------------------------------
(* Iter::next                                                              *)

\* next returns entry e (and the iterator is left in state s) ...
NextReturns(e, s) ==
  /\ scanned' = Append(scanned, e)
  /\ iter' = s
  /\ UNCHANGED <<lookup, answer, scanEnd>>

\* ... or None or an error, for the first time: its state was Done from the
\* beginning of the call.
NextEnds(r) ==
  /\ scanEnd' = r
  /\ iter' = Done
  /\ UNCHANGED <<lookup, answer, scanned>>

NextGoesOn(s) ==
  /\ iter' = s
  /\ UNCHANGED <<lookup, answer, scanned, scanEnd>>

OnSpine == iter.st \in {"pristine", "descending"}

\* initial_state, one turn of its loop: a page without entries, ...
InitialEmpty ==
  /\ OnSpine
  /\ Parse(iter.pg) = "ok"
  /\ image[iter.pg].ents = <<>>
  /\ NextEnds("None")

\* ... the leftmost leaf (the loop of next then comes to yield_current), ...
InitialLeaf ==
  /\ OnSpine
  /\ Parse(iter.pg) = "ok"
  /\ image[iter.pg].ents # <<>>
  /\ image[iter.pg].leaf
  /\ NextGoesOn(Active(iter.pg, 1))

\* ... an internal page, ...
InitialInternal ==
  /\ OnSpine
  /\ Parse(iter.pg) = "ok"
  /\ image[iter.pg].ents # <<>>
  /\ ~ image[iter.pg].leaf
  /\ NextGoesOn(Descending(image[iter.pg].ents[1].child))

\* ... or a page that cannot be read.
InitialFails ==
  /\ OnSpine
  /\ Parse(iter.pg) # "ok"
  /\ NextEnds(Parse(iter.pg))

Current == image[iter.pg].ents[iter.idx]

\* yield_current inside a leaf.
YieldInside ==
  /\ iter.st = "active"
  /\ iter.idx < Len(image[iter.pg].ents)
  /\ NextReturns(Current, Active(iter.pg, iter.idx + 1))

\* yield_current at the last entry of a leaf: advance_leaf comes first.
YieldLast ==
  /\ iter.st = "active"
  /\ iter.idx = Len(image[iter.pg].ents)
  /\ NextGoesOn(Advancing(iter.pg, iter.idx, image[iter.pg].next))

\* advance_leaf, one turn of its loop: the sibling is missing, unreadable
\* or not a leaf, and the entry in hand is dropped with the error, ...
AdvanceFails ==
  /\ iter.st = "advancing"
  /\ iter.to # NoPage
  /\ ParseSibling(iter.to) # "ok"
  /\ NextEnds(ParseSibling(iter.to))

AtSibling ==
  /\ iter.st = "advancing"
  /\ iter.to # NoPage
  /\ ParseSibling(iter.to) = "ok"

\* Mutated form of AdvanceEmpty: an empty leaf ends the scan.
AdvanceEmptyEnds ==
  /\ AtSibling
  /\ image[iter.to].ents = <<>>
  /\ NextReturns(Current, Done)

\* Mutated form of AdvanceEmpty: the same leaf is looked at again.
AdvanceEmptyStays ==
  /\ AtSibling
  /\ image[iter.to].ents = <<>>
  /\ NextGoesOn(Advancing(iter.pg, iter.idx, iter.to))

\* ... or is empty, ...
AdvanceEmpty ==
  /\ AtSibling
  /\ image[iter.to].ents = <<>>
  /\ NextGoesOn(Advancing(iter.pg, iter.idx, image[iter.to].next))

\* Mutated form of AdvanceFound: the second entry comes first.
AdvanceFoundSkips ==
  /\ AtSibling
  /\ image[iter.to].ents # <<>>
  /\ NextReturns(Current, Active(iter.to, IF Len(image[iter.to].ents) > 1
                                          THEN 2 ELSE 1))

\* ... or has entries, ...
AdvanceFound ==
  /\ AtSibling
  /\ image[iter.to].ents # <<>>
  /\ NextReturns(Current, Active(iter.to, 1))

\* ... or there is none.
AdvanceDone ==
  /\ iter.st = "advancing"
  /\ iter.to = NoPage
  /\ NextReturns(Current, Done)

\* None once the entries have come to an end.  Asked again, a finished
\* iterator answers None for ever, without a change of state.
NextNone ==
  /\ iter.st = "done"
  /\ scanEnd = "open"
  /\ NextEnds("None")

IterStep ==
  \/ InitialEmpty \/ InitialLeaf \/ InitialInternal \/ InitialFails
  \/ YieldInside \/ YieldLast
  \/ AdvanceFails \/ AdvanceEmpty \/ AdvanceFound
  \/ AdvanceDone
  \/ NextNone

-----------------------------------------------------------------------------

Answer ==
  [is : {"nothing"}]
    \cup [is : {"some"}, key : Keys, val : Values]
    \cup [is : {"none", "PageOutOfBounds", "CorruptPage"}, key : Keys]

IterState ==
  [st : {"pristine", "descending", "active", "advancing", "done"},
   pg : Nat, idx : Nat, to : Nat]

ReaderTypeOK ==
  /\ lookup \in [key : Strings, at : Nat]
  /\ answer \in Answer
  /\ iter \in IterState
  /\ scanned \in Seq([key : Strings, val : Values])
  /\ scanEnd \in {"open", "None", "PageOutOfBounds", "CorruptPage"}
=============================================================================
