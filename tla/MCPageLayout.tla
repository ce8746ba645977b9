---------------------------- MODULE MCPageLayout ----------------------------
(***************************************************************************)
(* Small instances of PageLayout.  Entries are numbered; an entry of 12    *)
(* bytes takes 6 half-words.                                               *)
(***************************************************************************)
EXTENDS PageLayout

CONSTANT Sizes   (* Sizes[e]: NWords[e], as a sequence *)

MCEntries == DOMAIN Sizes
MCNWords == [e \in MCEntries |-> Sizes[e]]

\* Three entries of less than half of a page of 34 half-words, and two of
\* more, which together leave no room for its header.
MCSizes == <<6, 6, 8, 14, 16>>
=============================================================================
