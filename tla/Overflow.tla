------------------------------ MODULE Overflow ------------------------------
(***************************************************************************)
(* A key or value too large for its page lies in a chain of overflow       *)
(* pages.  A scan puts the chain together (fetch_overflow); a lookup       *)
(* compares its key with the chain page by page and stops as soon as it    *)
(* knows (compare_overflow).  The two walk the same chain here, one after  *)
(* the other, on a file that may be damaged: the chain may end early, lead *)
(* to pages of another type, out of the file or back to itself.            *)
(*                                                                         *)
(* This writer makes no such entries; the reader takes files of others.    *)
(***************************************************************************)
EXTENDS ByteKeys, FiniteSetsExt

CONSTANTS
  NPages,    (* the pages of the file, but for the meta page               *)
  Cap,       (* payload_per_page                                           *)
  Bytes,
  MaxSize,   (* bound: the size an entry declares for its chain            *)
  MaxKey     (* bound: the length of the key looked for                    *)

ASSUME OverflowAssumption ==
  /\ NPages \in Nat
  /\ Cap \in Nat \ {0}
  /\ Bytes \subseteq Nat
  /\ MaxSize \in Nat
  /\ MaxKey \in Nat

VARIABLES
  file,      (* the file: constant                                         *)
  item,      (* the overflow reference, pgno and size: constant            *)
  key,       (* the key looked for: constant                               *)
  fetch,     (* fetch_overflow: pgno, out, and its result when it has one  *)
  compare    (* compare_overflow: pgno, consumed and its result            *)

overflowVars == <<file, item, key, fetch, compare>>

NoPage == 0

OverflowPage(data, next) == [type |-> "overflow", data |-> data, next |-> next]

\* A page that parse refuses, and one of another type.
BadPage == [type |-> "bad"]
OtherPage == [type |-> "other"]

PageOfFile ==
  {OverflowPage(d, n) : d \in [1 .. Cap -> Bytes], n \in 0 .. NPages + 1}
    \cup {BadPage, OtherPage}

KeysUpTo(n) == UNION {[1 .. l -> Bytes] : l \in 0 .. n}

\* (Page 2 .. NPages as a start are page 1 by another name.)
OverflowInit ==
  /\ file \in [1 .. NPages -> PageOfFile]
  /\ item \in [pgno : {0, 1, NPages + 1}, size : 0 .. MaxSize]
  /\ key \in KeysUpTo(MaxKey)
  /\ fetch = [pgno |-> item.pgno, out |-> <<>>, result |-> "none"]
  /\ compare = [pgno |-> item.pgno, consumed |-> 0, result |-> "none"]

-----------------------------------------------------------------------------

\* What either loop finds at page p before it takes bytes from it.
Reach(p) ==
  IF p = NoPage THEN "CorruptOverflow"
  ELSE IF p \notin DOMAIN file THEN "PageOutOfBounds"
  ELSE IF file[p].type = "bad" THEN "CorruptPage"
  ELSE IF file[p].type # "overflow" THEN "CorruptOverflow"
  ELSE "ok"

\* The part of page p's payload that counts when done bytes have been taken.
Taken(p, done) == SubSeq(file[p].data, 1, Min({item.size - done, Cap}))

\* Mutated form of Fetching: the loop is not left when the size is reached.
FetchingMore == fetch.result = "none" /\ Len(fetch.out) <= item.size

\* fetch_overflow, the head of its loop ...
Fetching == fetch.result = "none" /\ Len(fetch.out) < item.size

FetchFails ==
  /\ Fetching
  /\ Reach(fetch.pgno) # "ok"
  /\ fetch' = [fetch EXCEPT !.result = Reach(fetch.pgno)]
  /\ UNCHANGED <<file, item, key, compare>>

\* Mutated form of FetchPage: the chain is not followed.
FetchPageAgain ==
  /\ Fetching
  /\ Reach(fetch.pgno) = "ok"
  /\ fetch' = [fetch EXCEPT !.out = @ \o Taken(fetch.pgno, Len(@))]
  /\ UNCHANGED <<file, item, key, compare>>

\* ... and one turn of it.
FetchPage ==
  /\ Fetching
  /\ Reach(fetch.pgno) = "ok"
  /\ fetch' = [fetch EXCEPT !.out = @ \o Taken(fetch.pgno, Len(@)),
                            !.pgno = file[fetch.pgno].next]
  /\ UNCHANGED <<file, item, key, compare>>

FetchReturns ==
  /\ fetch.result = "none"
  /\ ~ Fetching
  /\ fetch' = [fetch EXCEPT !.result = "ok"]
  /\ UNCHANGED <<file, item, key, compare>>

\* compare_overflow, the head of its loop.
Comparing ==
  /\ fetch.result # "none"
  /\ compare.result = "none"
  /\ compare.consumed < item.size

CompareFails ==
  /\ Comparing
  /\ Reach(compare.pgno) # "ok"
  /\ compare' = [compare EXCEPT !.result = Reach(compare.pgno)]
  /\ UNCHANGED <<file, item, key, fetch>>

AtPayload == Comparing /\ Reach(compare.pgno) = "ok"

Other == Taken(compare.pgno, compare.consumed)
KeyRest == SubSeq(key, compare.consumed + 1, Len(key))
CmpLen == Min({Len(KeyRest), Len(Other)})

\* The first bytes of the rest of the key against the page's.
KeyPart == SubSeq(KeyRest, 1, CmpLen)
OtherPart == SubSeq(Other, 1, CmpLen)

\* Mutated form of KeyRanOut: a key that ends with the page is shorter.
KeyRanOutEarly == KeyPart = OtherPart /\ Len(KeyRest) <= Len(Other)

\* The key has come to its end: before this page, or in the middle of it.
KeyRanOut == KeyPart = OtherPart /\ Len(KeyRest) < Len(Other)

\* What the page decides, if anything.
Decided ==
  IF KeyRanOut THEN "Less"
  ELSE IF KeyPart = OtherPart THEN "none"
  ELSE IF Precedes(KeyPart, OtherPart) THEN "Less" ELSE "Greater"

CompareDecides ==
  /\ AtPayload
  /\ Decided # "none"
  /\ compare' = [compare EXCEPT !.result = Decided]
  /\ UNCHANGED <<file, item, key, fetch>>

ComparePage ==
  /\ AtPayload
  /\ Decided = "none"
  /\ compare' = [compare EXCEPT !.consumed = @ + Len(Other),
                                !.pgno = file[compare.pgno].next]
  /\ UNCHANGED <<file, item, key, fetch>>

\* Everything was equal: the lengths decide.
CompareReturns ==
  /\ fetch.result # "none"
  /\ compare.result = "none"
  /\ ~ Comparing
  /\ compare' = [compare EXCEPT !.result = IF Len(key) = item.size THEN "Equal"
                                           ELSE IF Len(key) < item.size THEN "Less"
                                           ELSE "Greater"]
  /\ UNCHANGED <<file, item, key, fetch>>

OverflowNext ==
  \/ FetchFails \/ FetchPage \/ FetchReturns
  \/ CompareFails \/ CompareDecides \/ ComparePage \/ CompareReturns

OverflowSpec == OverflowInit /\ [][OverflowNext]_overflowVars

\* Both loops run in their caller's thread.
OverflowFairSpec == OverflowSpec /\ WF_overflowVars(OverflowNext)

-----------------------------------------------------------------------------
(* Properties.                                                             *)

\* The pages of the chain, by their place in it, and its bytes.
Walk ==
  LET w[i \in 0 .. item.size] ==
        IF i = 0 THEN item.pgno
        ELSE IF Reach(w[i - 1]) = "ok" THEN file[w[i - 1]].next
        ELSE NoPage
  IN  w

ChainByte(i) == file[Walk[(i - 1) \div Cap]].data[((i - 1) % Cap) + 1]

\* What fetch_overflow puts together is the chain's first size bytes, also
\* when the chain runs in a circle or the last page is taken in part; and it
\* fails only if a page it needs cannot be reached.
FetchRight ==
  /\ fetch.result = "ok" =>
       /\ \A i \in 1 .. item.size : Reach(Walk[(i - 1) \div Cap]) = "ok"
       /\ fetch.out = [i \in 1 .. item.size |-> ChainByte(i)]
  /\ fetch.result \notin {"none", "ok"} =>
       \E i \in 0 .. (item.size - 1) \div Cap : Reach(Walk[i]) = fetch.result

IsPrefixOf(a, b) == Len(a) <= Len(b) /\ SubSeq(b, 1, Len(a)) = a

\* A lookup's comparison and a scan's fetch agree on every chain: when the
\* chain can be fetched, the comparison's answer is the order of the key and
\* the bytes; when it cannot, the comparison answers if the bytes before the
\* damage decide, and reports the same damage if they do not.
CompareAgrees ==
  compare.result # "none" =>
    compare.result =
      IF Precedes(key, fetch.out) THEN "Less"
      ELSE IF fetch.result # "ok" /\ IsPrefixOf(fetch.out, key) THEN fetch.result
      ELSE IF key = fetch.out THEN "Equal"
      ELSE "Greater"

\* Neither loop runs for ever, on a chain that is a circle either.
BothReturn == <>(compare.result # "none")
=============================================================================
