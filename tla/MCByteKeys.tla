----------------------------- MODULE MCByteKeys -----------------------------
(***************************************************************************)
(* Every pair of byte strings of at most MaxLen bytes, each byte below     *)
(* NLetters, reached by growing the two strings a byte at a time; and what *)
(* the tree modules assume of the prefix rule on each of them.             *)
(***************************************************************************)
EXTENDS ByteKeys

CONSTANTS
  NLetters, (* the number of different byte values *)
  MaxLen    (* bound: the longest string           *)

ASSUME AlphabetAssumption == NLetters \in Nat /\ MaxLen \in Nat

VARIABLES
  left,     (* the last key of the left page       *)
  right     (* the first key of the right page     *)

stringVars == <<left, right>>

StringsInit == left = <<>> /\ right = <<>>

GrowLeft ==
  /\ Len(left) < MaxLen
  /\ \E x \in 0 .. NLetters - 1 : left' = Append(left, x)
  /\ UNCHANGED right

GrowRight ==
  /\ Len(right) < MaxLen
  /\ \E x \in 0 .. NLetters - 1 : right' = Append(right, x)
  /\ UNCHANGED left

StringsNext == GrowLeft \/ GrowRight

Separator == Truncated(right, BtDefpfx(left, right))

\* The separator between two pages is above every key of the left page and
\* at or below every key of the right one, and no shorter prefix would be:
\* bt_defpfx neither sends a stored key to the wrong page nor keeps a byte
\* too many.
SeparatorDivides ==
  Precedes(left, right) =>
    /\ Precedes(left, Separator)
    /\ PrecedesEq(Separator, right)
    /\ \A n \in 0 .. Len(Separator) - 1 : ~ Precedes(left, Truncated(right, n))
=============================================================================
