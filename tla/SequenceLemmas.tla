---------------------------- MODULE SequenceLemmas ----------------------------
(***************************************************************************)
(* What the slice operations of the models preserve: facts about the       *)
(* community operators RemoveAt and RemoveFirst.                           *)
(***************************************************************************)
EXTENDS Integers, SequencesExt, SequenceTheorems, WellFoundedInduction, TLAPS

\* A non-empty set of naturals has its minimum as an element.
LEMMA MinInSet ==
    ASSUME NEW I, I \subseteq Nat, I # {}
    PROVE  Min(I) \in I /\ \A i \in I : Min(I) <= i
<1> DEFINE R == OpToRel(<, Nat)
<1>1. IsWellFoundedOn(R, Nat)
  BY NatLessThanWellFounded
<1>2. PICK m \in I : \A i \in I : <<i, m>> \notin R
  BY <1>1, WFMin
<1>3. \A x, y \in Nat : x < y => <<x, y>> \in R
  BY DEF OpToRel
<1> HIDE DEF R
<1>4. ASSUME NEW i \in I PROVE m <= i
  <2>1. m \in Nat /\ i \in Nat
    OBVIOUS
  <2>2. <<i, m>> \notin R
    BY <1>2
  <2>3. ~(i < m)
    BY <1>3, <2>1, <2>2
  <2> QED
    BY <2>1, <2>3
<1> QED
  BY <1>4 DEF Min

\* Removing one element, or the first occurrence of a value, keeps the type of a
\* sequence.
LEMMA RemoveAtType ==
    ASSUME NEW S, NEW s \in Seq(S), NEW k \in 1 .. Len(s)
    PROVE  RemoveAt(s, k) \in Seq(S)
<1>1. /\ SubSeq(s, 1, k - 1) \in Seq(S)
      /\ SubSeq(s, k + 1, Len(s)) \in Seq(S)
  OBVIOUS
<1> QED
  BY <1>1 DEF RemoveAt

\* RemoveFirst keeps the type of a sequence, whether or not it finds the value.
LEMMA RemoveFirstType ==
    ASSUME NEW S, NEW s \in Seq(S), NEW e
    PROVE  RemoveFirst(s, e) \in Seq(S)
<1>1. CASE ~\E i \in 1 .. Len(s) : s[i] = e
  BY <1>1 DEF RemoveFirst
<1>2. CASE \E i \in 1 .. Len(s) : s[i] = e
  <2> DEFINE I == {i \in 1 .. Len(s) : s[i] = e}
  <2>1. I \subseteq Nat /\ I # {}
    BY <1>2
  <2>2. Min(I) \in I
    BY <2>1, MinInSet
  <2>3. RemoveFirst(s, e) = RemoveAt(s, Min(I))
    BY <1>2, <2>1, Zenon DEF RemoveFirst, SelectInSeq
  <2> QED
    BY <2>2, <2>3, RemoveAtType
<1> QED
  BY <1>1, <1>2

\* Writing an element behind the first n of an array, in place or in a copy.
LEMMA WriteInPlace ==
    ASSUME NEW S, NEW a \in Seq(S), NEW n \in 0 .. Len(a), NEW p \in S,
           NEW b, b = IF n < Len(a) THEN [a EXCEPT ![n + 1] = p] ELSE Append(a, p)
    PROVE  /\ b \in Seq(S) /\ Len(b) >= n + 1
           /\ \A i \in 1 .. n : b[i] = a[i]
           /\ b[n + 1] = p
<1>1. CASE n < Len(a)
  <2>1. n + 1 \in 1 .. Len(a)
    BY <1>1
  <2>2. /\ b \in Seq(S) /\ Len(b) = Len(a)
        /\ \A i \in 1 .. Len(a) : b[i] = IF i = n + 1 THEN p ELSE a[i]
    BY <1>1, <2>1, ExceptSeq
  <2> QED
    BY <1>1, <2>1, <2>2
<1>2. CASE ~(n < Len(a))
  BY <1>2
<1> QED
  BY <1>1, <1>2

\* The first n elements of an array, copied, and an element behind them.
LEMMA WriteToCopy ==
    ASSUME NEW S, NEW a \in Seq(S), NEW n \in 0 .. Len(a), NEW p \in S,
           NEW c, c = Append(SubSeq(a, 1, n), p)
    PROVE  /\ c \in Seq(S) /\ Len(c) = n + 1
           /\ \A i \in 1 .. n : c[i] = a[i]
           /\ c[n + 1] = p
<1>1. PICK u : u = SubSeq(a, 1, n)
  OBVIOUS
<1>2. u \in Seq(S) /\ Len(u) = n /\ \A i \in 1 .. n : u[i] = a[i]
  BY <1>1
<1>3. c = Append(u, p)
  BY <1>1
<1> QED
  BY <1>2, <1>3

\* The last array, replaced or followed by another.
LEMMA LastArray ==
    ASSUME NEW T, NEW s \in Seq(T), s # <<>>, NEW d \in T
    PROVE  /\ [s EXCEPT ![Len(s)] = d] \in Seq(T)
           /\ [s EXCEPT ![Len(s)] = d] # <<>> /\ Last([s EXCEPT ![Len(s)] = d]) = d
           /\ Append(s, d) \in Seq(T) /\ Append(s, d) # <<>> /\ Last(Append(s, d)) = d
<1> DEFINE t == [s EXCEPT ![Len(s)] = d]
           w == Append(s, d)
<1>1. Len(s) \in 1 .. Len(s) /\ Len(s) \in Nat
  OBVIOUS
<1>2. t \in Seq(T) /\ Len(t) = Len(s) /\ t[Len(s)] = d
  BY <1>1, ExceptSeq
<1>3. w \in Seq(T) /\ Len(w) = Len(s) + 1 /\ w[Len(s) + 1] = d
  OBVIOUS
<1> HIDE DEF t, w
<1>4. t # <<>> /\ Last(t) = d /\ w # <<>> /\ Last(w) = d
  BY <1>1, <1>2, <1>3 DEF Last
<1> QED
  BY <1>2, <1>3, <1>4 DEF t, w
=============================================================================
