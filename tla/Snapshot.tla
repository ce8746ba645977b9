------------------------------ MODULE Snapshot ------------------------------
(***************************************************************************)
(* What a reader of a file promises: every lookup and every scan sees the  *)
(* one dictionary that was stored, or ends in an error.                    *)
(*                                                                         *)
(* dict is a set of <<key, value>> pairs.  answer is what the last lookup  *)
(* returned; scanned is what the scan has returned so far, and scanEnd how *)
(* it ended, "open" as long as it has not.                                 *)
(***************************************************************************)
EXTENDS Integers, Sequences

CONSTANTS
  Keys,
  Errors    (* the errors that lookups and scans may return                *)

VARIABLES
  dict,
  whole,    (* whether all of the file is there                            *)
  answer,
  scanned,
  scanEnd

vars == <<dict, whole, answer, scanned, scanEnd>>

Init ==
  /\ dict = {}
  /\ whole = FALSE
  /\ answer = [is |-> "nothing"]
  /\ scanned = <<>>
  /\ scanEnd = "open"

\* A file is opened (or closed, which leaves nothing to look up).
Open ==
  /\ answer' = [is |-> "nothing"]
  /\ scanned' = <<>>
  /\ scanEnd' = "open"

\* A lookup begins.
Ask ==
  /\ answer' = [is |-> "nothing"]
  /\ UNCHANGED <<dict, whole, scanned, scanEnd>>

Hit(k) ==
  /\ \E kv \in dict : kv[1] = k /\ answer' = [is |-> "some", key |-> k, val |-> kv[2]]
  /\ UNCHANGED <<dict, whole, scanned, scanEnd>>

Miss(k) ==
  /\ \A kv \in dict : kv[1] # k
  /\ answer' = [is |-> "none", key |-> k]
  /\ UNCHANGED <<dict, whole, scanned, scanEnd>>

\* Only a file that is not all there makes a lookup or a scan fail.
LookupError(k, e) ==
  /\ ~ whole
  /\ answer' = [is |-> e, key |-> k]
  /\ UNCHANGED <<dict, whole, scanned, scanEnd>>

\* The pairs with keys above all that the scan has returned.
Ahead ==
  IF scanned = <<>> THEN dict
  ELSE {kv \in dict : kv[1] > scanned[Len(scanned)].key}

\* The scan returns the smallest of them.
Yield ==
  /\ scanEnd = "open"
  /\ \E kv \in Ahead :
       /\ \A other \in Ahead : kv[1] <= other[1]
       /\ scanned' = Append(scanned, [key |-> kv[1], val |-> kv[2]])
  /\ UNCHANGED <<dict, whole, answer, scanEnd>>

\* The scan ends when it has returned everything; the code also ends some
\* scans before the first entry (see FirstLeafEmpty in Session).
End ==
  /\ scanEnd = "open"
  /\ Ahead = {} \/ scanned = <<>>
  /\ scanEnd' = "None"
  /\ UNCHANGED <<dict, whole, answer, scanned>>

ScanError(e) ==
  /\ ~ whole
  /\ scanEnd = "open"
  /\ scanEnd' = e
  /\ UNCHANGED <<dict, whole, answer, scanned>>

Next ==
  \/ Open
  \/ Ask
  \/ \E k \in Keys :
       \/ Hit(k)
       \/ Miss(k)
       \/ \E e \in Errors : LookupError(k, e)
  \/ Yield
  \/ End
  \/ \E e \in Errors : ScanError(e)

Spec == Init /\ [][Next]_vars
=============================================================================
