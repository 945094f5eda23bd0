---------------------------- MODULE StackLemmas ----------------------------
(***************************************************************************)
(* Facts that the proofs share: stacks as sequences, the least element of  *)
(* a set of numbers, places in a ring.                                     *)
(***************************************************************************)
EXTENDS Integers, Sequences, SequenceTheorems, WellFoundedInduction, TLAPS

-----------------------------------------------------------------------------
(* Stacks as sequences. *)

LEMMA ReplaceTop ==
    ASSUME NEW S, NEW s \in Seq(S), s # <<>>, NEW e \in S
    PROVE  /\ [s EXCEPT ![Len(s)] = e] \in Seq(S)
           /\ Len([s EXCEPT ![Len(s)] = e]) = Len(s)
           /\ \A k \in 1..Len(s) : [s EXCEPT ![Len(s)] = e][k] = IF k = Len(s) THEN e ELSE s[k]
<1>1. Len(s) \in 1..Len(s)
  BY EmptySeq
<1> QED
  BY <1>1, ExceptSeq

LEMMA Push ==
    ASSUME NEW S, NEW s \in Seq(S), NEW e \in S
    PROVE  /\ Append(s, e) \in Seq(S)
           /\ Len(Append(s, e)) = Len(s) + 1
           /\ \A k \in 1..(Len(s) + 1) : Append(s, e)[k] = IF k = Len(s) + 1 THEN e ELSE s[k]
<1>1. Len(s) \in Nat
  BY LenProperties
<1> QED
  BY <1>1, AppendProperties

LEMMA Pop ==
    ASSUME NEW S, NEW s \in Seq(S), s # <<>>
    PROVE  /\ SubSeq(s, 1, Len(s) - 1) \in Seq(S)
           /\ Len(SubSeq(s, 1, Len(s) - 1)) = Len(s) - 1
           /\ \A k \in 1..(Len(s) - 1) : SubSeq(s, 1, Len(s) - 1)[k] = s[k]
<1>1. Len(s) \in Nat /\ Len(s) > 0
  BY EmptySeq
<1>2. \A k \in 1..(Len(s) - 1) : s[k] \in S
  BY <1>1, ElementOfSeq
<1> DEFINE n == Len(s) - 1
<1>3. n \in Nat /\ n \in Int /\ 1 \in Int /\ \A k \in 1..n : s[k] \in S
  BY <1>1, <1>2
<1> HIDE DEF n
<1>4. /\ SubSeq(s, 1, n) \in Seq(S)
      /\ Len(SubSeq(s, 1, n)) = IF 1 <= n THEN n - 1 + 1 ELSE 0
      /\ \A k \in 1..(n - 1 + 1) : SubSeq(s, 1, n)[k] = s[1 + k - 1]
  BY <1>3, SubSeqProperties
<1>5. Len(SubSeq(s, 1, n)) = n /\ \A k \in 1..n : SubSeq(s, 1, n)[k] = s[k]
  BY <1>3, <1>4
<1> QED
  BY <1>4, <1>5 DEF n

-----------------------------------------------------------------------------
(* Numbers. *)

\* A set of natural numbers has a least one: what stands in for induction here.
LEMMA LeastNatural ==
    ASSUME NEW S \in SUBSET Nat, S # {}
    PROVE  \E m \in S : \A n \in S : m <= n
<1> DEFINE R == {p \in Nat \X Nat : p[1] < p[2]}
<1>1. IsWellFoundedOn(R, Nat)
  BY NatLessThanWellFounded, Zenon DEF OpToRel
<1>2. PICK m \in S : \A n \in S : ~(<<n, m>> \in R)
  BY <1>1, WFMin
<1>3. \A n \in S : ~(n < m)
  BY <1>2
<1> QED
  BY <1>3

\* Going on by d < n places from place m of a ring of n places.
LEMMA RingPlace ==
    ASSUME NEW n \in Nat \ {0}, NEW m \in 0..(n - 1), NEW d \in 0..n
    PROVE  (m + d) % n = IF m + d < n THEN m + d ELSE m + d - n
<1>1. CASE m + d < n
  <2>1. m + d = n * 0 + (m + d) /\ m + d \in 0..(n - 1)
    BY <1>1
  <2> QED
    BY <1>1, <2>1
<1>2. CASE m + d >= n
  BY <1>2
<1> QED
  BY <1>1, <1>2

-----------------------------------------------------------------------------
(* Functions defined by recursion over 0..m. *)

\* g starts with x and goes on by F, which may look at the number of the step.
Iterates(g, x, m, F) == g[0] = x /\ \A n \in 1..m : g[n] = F[<<n, g[n - 1]>>]

\* Such functions exist, within the set D of values.
LEMMA Iteration ==
    ASSUME NEW D, NEW x \in D, NEW m \in Nat, NEW F \in [(1..m) \X D -> D]
    PROVE  \E g \in [0..m -> D] : Iterates(g, x, m, F)
<1> DEFINE Solves(g, k) == g[0] = x /\ \A n \in 1..k : g[n] = F[<<n, g[n - 1]>>]
           Bad == {k \in 0..m : ~\E g \in [0..m -> D] : Solves(g, k)}
<1>1. Bad = {}
  <2> SUFFICES ASSUME Bad # {} PROVE FALSE
    OBVIOUS
  <2>1. Bad \in SUBSET Nat
    OBVIOUS
  <2>2. PICK k \in Bad : \A j \in Bad : k <= j
    BY <2>1, LeastNatural
  <2>3. k # 0
    <3> DEFINE g == [n \in 0..m |-> x]
    <3>1. g \in [0..m -> D] /\ g[0] = x /\ 1..0 = {}
      OBVIOUS
    <3>2. Solves(g, 0)
      BY <3>1
    <3> QED
      BY <3>1, <3>2
  <2>4. k - 1 \in 0..m /\ ~(k <= k - 1) /\ k \in 1..m
    BY <2>3
  <2>5. PICK g \in [0..m -> D] : Solves(g, k - 1)
    BY <2>2, <2>4
  <2> DEFINE h == [n \in 0..m |-> IF n = k THEN F[<<k, g[k - 1]>>] ELSE g[n]]
  <2>6. h \in [0..m -> D]
    BY <2>4
  <2>7. Solves(h, k)
    <3>1. h[0] = x
      BY <2>3, <2>5
    <3>2. ASSUME NEW n \in 1..k PROVE h[n] = F[<<n, h[n - 1]>>]
      <4>1. n \in 0..m /\ n - 1 \in 0..m /\ n - 1 # k
        BY <2>4
      <4>2. h[n - 1] = g[n - 1]
        BY <4>1
      <4>3. CASE n = k
        BY <4>1, <4>2, <4>3
      <4>4. CASE n # k
        <5>1. n \in 1..(k - 1)
          BY <4>4
        <5> QED
          BY <2>5, <4>1, <4>2, <4>4, <5>1
      <4> QED
        BY <4>3, <4>4
    <3> QED
      BY <3>1, <3>2
  <2> QED
    BY <2>6, <2>7
<1>2. m \in 0..m /\ m \notin Bad
  <2> HIDE DEF Bad
  <2> QED
    BY <1>1
<1>3. PICK g \in [0..m -> D] : Solves(g, m)
  BY <1>2
<1> QED
  BY <1>3 DEF Iterates
=============================================================================
