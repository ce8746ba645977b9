-------------------------------- MODULE Dict --------------------------------
(***************************************************************************)
(* What the writer promises its caller: a dictionary in which the first    *)
(* value put under a key stays until that key is deleted, and in which a   *)
(* call that reports an error has changed nothing.                         *)
(*                                                                         *)
(* A call is handed over with its key and value, and what it may answer    *)
(* and change follows from those and from the dictionary.                  *)
(***************************************************************************)
CONSTANTS
  Keys,     (* what callers use as keys                                    *)
  Values,   (* what callers store under them                               *)
  Refused,  (* the <<key, value>> pairs that put refuses at once           *)
  Errors    (* how a put that was not refused may fail                     *)

VARIABLES
  dict,     (* a set of <<key, value>> pairs                               *)
  call,     (* the call under way, with its arguments                      *)
  ret       (* the outcome of the last call that finished                  *)

vars == <<dict, call, ret>>

NoCall == [op |-> "none"]

Init ==
  /\ dict = {}
  /\ call = NoCall
  /\ ret = "none"

\* The pair is not looked up or stored, and no call begins.
Refuse(k, v) ==
  /\ call = NoCall
  /\ <<k, v>> \in Refused
  /\ ret' = "EntryTooLarge"
  /\ UNCHANGED <<dict, call>>

BeginPut(k, v) ==
  /\ call = NoCall
  /\ <<k, v>> \notin Refused
  /\ call' = [op |-> "put", key |-> k, val |-> v]
  /\ UNCHANGED <<dict, ret>>

BeginDel(k) ==
  /\ call = NoCall
  /\ call' = [op |-> "del", key |-> k]
  /\ UNCHANGED <<dict, ret>>

Present == \E v \in Values : <<call.key, v>> \in dict

Answer(r) ==
  /\ ret' = r
  /\ call' = NoCall

\* put on an absent key stores the pair and answers true ...
Insert ==
  /\ call.op = "put"
  /\ ~ Present
  /\ dict' = dict \cup {<<call.key, call.val>>}
  /\ Answer("true")

\* ... and on a present key leaves the stored value alone and answers false.
KeepFirst ==
  /\ call.op = "put"
  /\ Present
  /\ Answer("false")
  /\ UNCHANGED dict

\* del removes the pair and answers true ...
Remove ==
  /\ call.op = "del"
  /\ Present
  /\ dict' = {kv \in dict : kv[1] # call.key}
  /\ Answer("true")

\* ... and answers false when there is nothing to remove.
RemoveNothing ==
  /\ call.op = "del"
  /\ ~ Present
  /\ Answer("false")
  /\ UNCHANGED dict

\* Only a put that has something to store can fail, and then stores nothing.
Fail(e) ==
  /\ call.op = "put"
  /\ ~ Present
  /\ Answer(e)
  /\ UNCHANGED dict

Next ==
  \/ \E k \in Keys, v \in Values : Refuse(k, v) \/ BeginPut(k, v)
  \/ \E k \in Keys : BeginDel(k)
  \/ Insert \/ KeepFirst
  \/ Remove \/ RemoveNothing
  \/ \E e \in Errors : Fail(e)

Spec == Init /\ [][Next]_vars
=============================================================================
