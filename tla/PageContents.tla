---------------------------- MODULE PageContents ----------------------------
(***************************************************************************)
(* What a page of the arena holds, whatever its bytes are: a sequence of   *)
(* entries, none of them twice.                                            *)
(***************************************************************************)
EXTENDS SequencesExt

CONSTANT PageEntries

VARIABLE ents

Init == ents = <<>>

Insert(i, e) ==
  /\ i \in 1 .. Len(ents) + 1
  /\ \A j \in DOMAIN ents : ents[j] # e
  /\ ents' = InsertAt(ents, i, e)

Delete(i) ==
  /\ i \in DOMAIN ents
  /\ ents' = RemoveAt(ents, i)

\* One half of the page after e was inserted: its first n entries, or the rest.
Half(i, e, n) ==
  LET all == InsertAt(ents, i, e)
  IN  /\ i \in 1 .. Len(ents) + 1
      /\ \A j \in DOMAIN ents : ents[j] # e
      /\ n \in 0 .. Len(ents)
      /\ ents' \in {SubSeq(all, 1, n), SubSeq(all, n + 1, Len(all))}

\* A root page after it was split: the entries for its two children.
Root(e1, e2) ==
  /\ e1 # e2
  /\ ents' = <<e1, e2>>

Next ==
  \E i \in 1 .. Len(ents) + 1, e \in PageEntries :
    \/ Insert(i, e)
    \/ Delete(i)
    \/ \E n \in 0 .. Len(ents) : Half(i, e, n)
    \/ \E e2 \in PageEntries : Root(e, e2)

Spec == Init /\ [][Next]_ents
=============================================================================
