---------------------------- MODULE MCPageSearch ----------------------------
(* Every sorted page over seven keys, and a search for each key, between   *)
(* any two and beyond both ends.                                           *)
EXTENDS PageSearch, FiniteSetsExt

CONSTANT N   (* the number of different keys *)

KeySet == {2 * i : i \in 1 .. N}

\* The set's elements in increasing order, as entries.
Sorted(S) ==
  [i \in 1 .. Cardinality(S) |->
     [key |-> CHOOSE k \in S : Cardinality({m \in S : m < k}) = i - 1]]

MCSearches ==
  {s \in [ents : {Sorted(S) : S \in SUBSET KeySet}, key : 1 .. 2 * N + 1,
          leaf : BOOLEAN, leftmost : BOOLEAN] :
     ~ s.leaf => s.ents # <<>>}
=============================================================================
