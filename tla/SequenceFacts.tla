--------------------------- MODULE SequenceFacts ---------------------------
(***************************************************************************)
(* What the operators on sequences return that the actions on pages are    *)
(* built from: their length and what is found at each place; and induction *)
(* over the numbers, for what is summed along a sequence.                  *)
(***************************************************************************)
EXTENDS Integers, SequencesExt, WellFoundedInduction, TLAPS

\* The length, the domain and the elements of a sequence.
LEMMA SeqFacts ==
  ASSUME NEW S, NEW s \in Seq(S)
  PROVE  /\ Len(s) \in Nat
         /\ DOMAIN s = 1 .. Len(s)
         /\ \A i \in DOMAIN s : s[i] \in S
  OBVIOUS

\* Sequences that agree at every place are equal.
LEMMA SameSeq ==
  ASSUME NEW S, NEW s \in Seq(S), NEW t \in Seq(S), Len(s) = Len(t),
         \A i \in 1 .. Len(s) : s[i] = t[i]
  PROVE  s = t
<1>1. /\ DOMAIN s = 1 .. Len(s) /\ DOMAIN t = 1 .. Len(t)
      /\ s = [i \in DOMAIN s |-> s[i]] /\ t = [i \in DOMAIN t |-> t[i]]
  BY SeqFacts
<1> QED BY <1>1

\* What SubSeq returns.
LEMMA SubSeqFacts ==
  ASSUME NEW S, NEW s \in Seq(S), NEW m \in Nat \ {0}, NEW n \in 0 .. Len(s)
  PROVE  /\ SubSeq(s, m, n) \in Seq(S)
         /\ Len(SubSeq(s, m, n)) = IF m <= n THEN n - m + 1 ELSE 0
         /\ \A i \in 1 .. Len(SubSeq(s, m, n)) : SubSeq(s, m, n)[i] = s[m + i - 1]
  OBVIOUS

\* What Append returns.
LEMMA AppendFacts ==
  ASSUME NEW S, NEW s \in Seq(S), NEW e \in S
  PROVE  /\ Append(s, e) \in Seq(S)
         /\ Len(Append(s, e)) = Len(s) + 1
         /\ \A i \in 1 .. Len(s) : Append(s, e)[i] = s[i]
         /\ Append(s, e)[Len(s) + 1] = e
  OBVIOUS

\* What concatenation returns.
LEMMA ConcatFacts ==
  ASSUME NEW S, NEW s \in Seq(S), NEW t \in Seq(S),
         NEW m \in Nat, m = Len(s), NEW n \in Nat, n = Len(t)
  PROVE  /\ s \o t \in Seq(S)
         /\ Len(s \o t) = m + n
         /\ \A i \in 1 .. m : (s \o t)[i] = s[i]
         /\ \A i \in 1 .. n : (s \o t)[m + i] = t[i]
  OBVIOUS

\* An insertion leaves what is before its place and shifts what is not.
LEMMA InsertAtFacts ==
  ASSUME NEW S, NEW s \in Seq(S), NEW pos \in 1 .. Len(s) + 1, NEW e \in S
  PROVE  /\ InsertAt(s, pos, e) \in Seq(S)
         /\ Len(InsertAt(s, pos, e)) = Len(s) + 1
         /\ \A i \in 1 .. Len(s) + 1 :
              InsertAt(s, pos, e)[i] =
                IF i < pos THEN s[i] ELSE IF i = pos THEN e ELSE s[i - 1]
<1> DEFINE a == SubSeq(s, 1, pos - 1)
           b == SubSeq(s, pos, Len(s))
<1>1. /\ a \in Seq(S) /\ Len(a) = pos - 1
      /\ \A i \in 1 .. pos - 1 : a[i] = s[i]
  BY SubSeqFacts
<1>2. /\ b \in Seq(S) /\ Len(b) = Len(s) - pos + 1
      /\ \A i \in 1 .. Len(s) - pos + 1 : b[i] = s[pos + i - 1]
  BY SubSeqFacts
<1>3. <<e>> \in Seq(S) /\ Len(<<e>>) = 1 /\ <<e>>[1] = e
  OBVIOUS
<1> HIDE DEF a, b
<1>0. Len(s) \in Nat /\ pos \in Nat /\ 1 <= pos /\ pos <= Len(s) + 1
  OBVIOUS
<1>4. /\ a \o <<e>> \in Seq(S) /\ Len(a \o <<e>>) = pos
      /\ \A i \in 1 .. pos - 1 : (a \o <<e>>)[i] = s[i]
      /\ (a \o <<e>>)[pos] = e
  <2>0. pos - 1 \in Nat
    BY <1>0
  <2>1. /\ a \o <<e>> \in Seq(S)
        /\ Len(a \o <<e>>) = pos - 1 + 1
        /\ \A i \in 1 .. pos - 1 : (a \o <<e>>)[i] = a[i]
        /\ \A i \in 1 .. 1 : (a \o <<e>>)[pos - 1 + i] = <<e>>[i]
    BY <1>1, <1>3, <2>0
  <2>2. 1 \in 1 .. 1 /\ pos - 1 + 1 = pos
    BY <1>0
  <2>3. (a \o <<e>>)[pos - 1 + 1] = <<e>>[1]
    BY <2>1, <2>2
  <2> QED
    BY <1>1, <1>3, <2>1, <2>2, <2>3
<1>5. /\ (a \o <<e>>) \o b \in Seq(S)
      /\ Len((a \o <<e>>) \o b) = Len(s) + 1
      /\ \A i \in 1 .. pos : ((a \o <<e>>) \o b)[i] = (a \o <<e>>)[i]
      /\ \A i \in 1 .. Len(s) - pos + 1 : ((a \o <<e>>) \o b)[pos + i] = b[i]
  <2> DEFINE c == a \o <<e>>
  <2>1. c \in Seq(S) /\ Len(c) = pos
    BY <1>4
  <2> HIDE DEF c
  <2>0. Len(s) - pos + 1 \in Nat
    BY <1>0
  <2>2. /\ c \o b \in Seq(S)
        /\ Len(c \o b) = pos + (Len(s) - pos + 1)
        /\ \A i \in 1 .. pos : (c \o b)[i] = c[i]
        /\ \A i \in 1 .. Len(s) - pos + 1 : (c \o b)[pos + i] = b[i]
    BY <1>0, <1>2, <2>0, <2>1
  <2>3. pos + (Len(s) - pos + 1) = Len(s) + 1
    BY <1>0
  <2> QED
    BY <2>2, <2>3 DEF c
<1>6. InsertAt(s, pos, e) = (a \o <<e>>) \o b
  BY DEF InsertAt, a, b
<1>7. ASSUME NEW i \in 1 .. Len(s) + 1, i > pos
      PROVE  ((a \o <<e>>) \o b)[i] = s[i - 1]
  <2>1. i - pos \in 1 .. Len(s) - pos + 1 /\ pos + (i - pos) = i
        /\ pos + (i - pos) - 1 = i - 1
    BY <1>7
  <2> QED
    BY <2>1, <1>2, <1>5
<1> QED
  BY <1>4, <1>5, <1>6, <1>7

\* A removal leaves what is before its place and closes the gap.
LEMMA RemoveAtFacts ==
  ASSUME NEW S, NEW s \in Seq(S), NEW pos \in 1 .. Len(s)
  PROVE  /\ RemoveAt(s, pos) \in Seq(S)
         /\ Len(RemoveAt(s, pos)) = Len(s) - 1
         /\ \A i \in 1 .. Len(s) - 1 :
              RemoveAt(s, pos)[i] = IF i < pos THEN s[i] ELSE s[i + 1]
<1> DEFINE a == SubSeq(s, 1, pos - 1)
           b == SubSeq(s, pos + 1, Len(s))
<1>1. /\ a \in Seq(S) /\ Len(a) = pos - 1
      /\ \A i \in 1 .. pos - 1 : a[i] = s[i]
  BY SubSeqFacts
<1>2. /\ b \in Seq(S) /\ Len(b) = Len(s) - pos
      /\ \A i \in 1 .. Len(s) - pos : b[i] = s[pos + i]
  BY SubSeqFacts
<1> HIDE DEF a, b
<1>0. Len(s) \in Nat /\ pos \in Nat /\ 1 <= pos /\ pos <= Len(s)
  OBVIOUS
<1>3. /\ a \o b \in Seq(S)
      /\ Len(a \o b) = Len(s) - 1
      /\ \A i \in 1 .. pos - 1 : (a \o b)[i] = s[i]
      /\ \A i \in 1 .. Len(s) - pos : (a \o b)[pos - 1 + i] = b[i]
  <2>0. pos - 1 \in Nat /\ Len(s) - pos \in Nat
    BY <1>0
  <2>1. /\ a \o b \in Seq(S)
        /\ Len(a \o b) = pos - 1 + (Len(s) - pos)
        /\ \A i \in 1 .. pos - 1 : (a \o b)[i] = a[i]
        /\ \A i \in 1 .. Len(s) - pos : (a \o b)[pos - 1 + i] = b[i]
    <3> DEFINE m == pos - 1
               n == Len(s) - pos
    <3>1. /\ a \in Seq(S) /\ m \in Nat /\ m = Len(a)
          /\ b \in Seq(S) /\ n \in Nat /\ n = Len(b)
      BY <1>1, <1>2, <2>0
    <3> HIDE DEF m, n
    <3>2. /\ a \o b \in Seq(S)
          /\ Len(a \o b) = m + n
          /\ \A i \in 1 .. m : (a \o b)[i] = a[i]
          /\ \A i \in 1 .. n : (a \o b)[m + i] = b[i]
      BY <3>1
    <3> QED
      BY <3>2 DEF m, n
  <2>2. pos - 1 + (Len(s) - pos) = Len(s) - 1
    BY <1>0
  <2> QED
    BY <1>1, <2>1, <2>2
<1>4. RemoveAt(s, pos) = a \o b
  BY DEF RemoveAt, a, b
<1>5. ASSUME NEW i \in 1 .. Len(s) - 1, ~ (i < pos)
      PROVE  (a \o b)[i] = s[i + 1]
  <2>1. /\ i - pos + 1 \in 1 .. Len(s) - pos
        /\ pos - 1 + (i - pos + 1) = i
        /\ pos + (i - pos + 1) = i + 1
    BY <1>5
  <2> QED
    BY <2>1, <1>2, <1>3
<1> QED
  BY <1>3, <1>4, <1>5

\* The last element, and what is left without it.
LEMMA FrontLastFacts ==
  ASSUME NEW S, NEW s \in Seq(S), s # <<>>
  PROVE  /\ Len(s) \in Nat \ {0}
         /\ Last(s) = s[Len(s)] /\ Last(s) \in S
         /\ Front(s) \in Seq(S)
         /\ Len(Front(s)) = Len(s) - 1
         /\ \A i \in 1 .. Len(s) - 1 : Front(s)[i] = s[i]
<1>1. Len(s) \in Nat \ {0}
  OBVIOUS
<1>2. Len(s) - 1 \in 0 .. Len(s)
  BY <1>1
<1>3. /\ SubSeq(s, 1, Len(s) - 1) \in Seq(S)
      /\ Len(SubSeq(s, 1, Len(s) - 1)) = Len(s) - 1
      /\ \A i \in 1 .. Len(s) - 1 : SubSeq(s, 1, Len(s) - 1)[i] = s[i]
  <2> DEFINE n == Len(s) - 1
  <2>1. n \in 0 .. Len(s) /\ n \in Nat
    BY <1>1, <1>2
  <2> HIDE DEF n
  <2>2. /\ SubSeq(s, 1, n) \in Seq(S)
        /\ Len(SubSeq(s, 1, n)) = n
        /\ \A i \in 1 .. n : SubSeq(s, 1, n)[i] = s[i]
    BY <2>1, SubSeqFacts
  <2> QED
    BY <2>2 DEF n
<1> QED
  BY <1>1, <1>3 DEF Front, Last

\* Every element of s is one of ents or is e.
From(s, ents, e) == \A i \in DOMAIN s : s[i] = e \/ \E j \in DOMAIN ents : s[i] = ents[j]

\* InsertAt brings in nothing but the new element.
LEMMA InsertFrom ==
  ASSUME NEW S, NEW ents \in Seq(S), NEW e \in S, NEW pos \in 1 .. Len(ents) + 1
  PROVE  From(InsertAt(ents, pos, e), ents, e)
<1>1. /\ InsertAt(ents, pos, e) \in Seq(S)
      /\ Len(InsertAt(ents, pos, e)) = Len(ents) + 1
      /\ \A i \in 1 .. Len(ents) + 1 :
           InsertAt(ents, pos, e)[i] =
             IF i < pos THEN ents[i] ELSE IF i = pos THEN e ELSE ents[i - 1]
  <2>1. /\ InsertAt(ents, pos, e) \in Seq(S)
        /\ Len(InsertAt(ents, pos, e)) = Len(ents) + 1
    BY InsertAtFacts
  <2>2. \A i \in 1 .. Len(ents) + 1 :
          InsertAt(ents, pos, e)[i] =
            IF i < pos THEN ents[i] ELSE IF i = pos THEN e ELSE ents[i - 1]
    BY InsertAtFacts
  <2> QED
    BY <2>1, <2>2
<1>2. /\ DOMAIN InsertAt(ents, pos, e) = 1 .. Len(ents) + 1
      /\ DOMAIN ents = 1 .. Len(ents) /\ Len(ents) \in Nat
  BY <1>1, SeqFacts
<1>3. \A i \in 1 .. Len(ents) + 1 :
        /\ i < pos => i \in 1 .. Len(ents)
        /\ ~ (i < pos) /\ i # pos => i - 1 \in 1 .. Len(ents)
  BY <1>2
<1> QED
  BY <1>1, <1>2, <1>3 DEF From

\* SubSeq brings in nothing at all.
LEMMA SubSeqFrom ==
  ASSUME NEW S, NEW s \in Seq(S), NEW m \in Nat \ {0}, NEW n \in 0 .. Len(s),
         NEW ents, NEW e, From(s, ents, e)
  PROVE  From(SubSeq(s, m, n), ents, e)
<1> DEFINE t == SubSeq(s, m, n)
<1>1. /\ t \in Seq(S)
      /\ Len(t) = IF m <= n THEN n - m + 1 ELSE 0
      /\ \A i \in 1 .. Len(t) : t[i] = s[m + i - 1]
  BY SubSeqFacts
<1> HIDE DEF t
<1>2. DOMAIN t = 1 .. Len(t) /\ DOMAIN s = 1 .. Len(s) /\ Len(s) \in Nat
  BY <1>1, SeqFacts
<1>3. \A i \in 1 .. Len(t) : m + i - 1 \in 1 .. Len(s)
  BY <1>1, <1>2
<1> QED
  BY <1>1, <1>2, <1>3 DEF From, t

\* A set of numbers that is not empty has a least one.
LEMMA LeastNat ==
  ASSUME NEW T \in SUBSET Nat, T # {}
  PROVE  \E n \in T : \A m \in T : n <= m
<1> DEFINE R == OpToRel(<, Nat)
<1>1. IsWellFoundedOn(R, Nat)
  BY NatLessThanWellFounded
<1>2. \A i, j \in Nat : i < j => <<i, j>> \in R
  BY DEF OpToRel
<1> HIDE DEF R
<1>3. \E x \in T : \A y \in T : ~ (<<y, x>> \in R)
  BY <1>1, WFMin
<1>4. PICK n \in T : \A m \in T : ~ (<<m, n>> \in R)
  BY <1>3
<1>5. ASSUME NEW m \in T PROVE n <= m
  <2>1. ~ (m < n)
    BY <1>2, <1>4
  <2> QED
    BY <2>1
<1> QED
  BY <1>5

\* A set of numbers that has zero and every successor of its members has all
\* numbers: induction for a property written as a set.
LEMMA NatInd ==
  ASSUME NEW T \in SUBSET Nat, 0 \in T, \A n \in T : n + 1 \in T
  PROVE  T = Nat
<1>1. SUFFICES ASSUME Nat \ T # {} PROVE FALSE
  OBVIOUS
<1>2. PICK n \in Nat \ T : \A m \in Nat \ T : n <= m
  BY <1>1, LeastNat
<1>3. n # 0
  OBVIOUS
<1>4. n - 1 \in Nat /\ n - 1 \notin Nat \ T
  BY <1>2, <1>3
<1> QED
  BY <1>4
=============================================================================
