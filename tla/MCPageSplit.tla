---------------------------- MODULE MCPageSplit ----------------------------
(* Every full page of up to MaxTop old entries of the given costs, some at *)
(* most half of Full and some more.                                        *)
EXTENDS PageSplit

CONSTANTS
  Full,
  Costs,
  MaxTop

\* pre[i]: the cost of the first i entries.
RunningCost(cost) ==
  LET pre[i \in 0 .. Len(cost)] == IF i = 0 THEN 0 ELSE pre[i - 1] + cost[i]
  IN  [i \in 0 .. Len(cost) |-> pre[i]]

\* The pages that were in order with cost: old entries, and one more.
OldCosts(top) ==
  {cost \in [1 .. top -> Costs] : RunningCost(cost)[top] <= Full}

FullPagesOf(old, new) ==
  {[pre |-> RunningCost(SubSeq(old, 1, skip) \o <<new>> \o SubSeq(old, skip + 1, Len(old))),
    skip |-> skip, top |-> Len(old), full |-> Full] : skip \in 0 .. Len(old)}

MCFullPages ==
  UNION {UNION {FullPagesOf(old, new) :
                  new \in {c \in Costs : RunningCost(old)[Len(old)] + c > Full}} :
         old \in UNION {OldCosts(top) : top \in 1 .. MaxTop}}
=============================================================================
